------------------------------- MODULE Format -------------------------------
(***************************************************************************)
(* Formatted output: print and _print_int of the kernel                    *)
(* (kernel/src/io/output.c), and print and print_int of the user library   *)
(* (user/lib/src/stdio/fmt/helpers).                                       *)
(*                                                                         *)
(* A string is a sequence of characters.  An argument is the bits the      *)
(* caller passed, a natural number below 2^Bits[2]; floating point and     *)
(* wide characters are left out, and the limit of snprintf.                *)
(***************************************************************************)
EXTENDS Integers, Sequences, SequencesExt, FiniteSetsExt, TLC

CONSTANT Bits   \* the width of each size: char -2, short -1, int 0, long 1, long long 2

Wide == 2^Bits[2]
nums == <<"0", "1", "2", "3", "4", "5", "6", "7", "8", "9", "a", "b", "c", "d", "e", "f">>
NUMS == <<"0", "1", "2", "3", "4", "5", "6", "7", "8", "9", "A", "B", "C", "D", "E", "F">>
Digit(c) == CHOOSE n \in 0..15 : c \in {nums[n + 1], NUMS[n + 1]}
IsDec(c) == c \in Range(SubSeq(nums, 1, 10))

\* The digits of num, at least one.
Digits(num, base, upper) ==
    LET n == Min({k \in 1..Bits[2] : num < base^k})
    IN  [k \in 1..n |-> (IF upper THEN NUMS ELSE nums)[1 + ((num \div base^(n - k)) % base)]]

Padding(n, pad, zero) == [k \in 1..(IF pad > n THEN pad - n ELSE 0) |-> IF zero THEN "0" ELSE " "]

Sign(neg, flags) ==
    IF neg THEN <<"-">> ELSE IF "POSSIGN" \in flags THEN <<"+">>
    ELSE IF "POSSPACE" \in flags THEN <<" ">> ELSE <<>>

\* _print_int.  LEFTALIGN is not looked at.
_print_int(num, base, pad, flags) ==
    LET neg == "UNSIGNED" \notin flags /\ num >= Wide \div 2
        digits == Digits(IF neg THEN Wide - num ELSE num, base, "UPPERCASE" \in flags)
    IN  Sign(neg, flags) \o Padding(Len(digits), pad, "PADZERO" \in flags) \o digits

\* print_int, which the user library calls with 32 bits.  It returns a length, too: after
\* padding, one more than it wrote.
print_int(num, base, pad, flags) ==
    LET signed == "UNSIGNED" \notin flags
        neg == num >= 2^(Bits[0] - 1) /\ signed
        digits == Digits(IF neg THEN 2^Bits[0] - num ELSE num, base, "UPPERCASE" \in flags)
    IN  (IF signed THEN Sign(neg, flags) ELSE <<>>)
            \o Padding(Len(digits), pad, "PADZERO" \in flags) \o digits
            \o (IF pad > Len(digits) THEN <<"?">> ELSE <<>>)

\* _get_dec: the number at position i, and where it ends.
_get_dec(format, i) ==
    LET end == Min({j \in i..Len(format) : ~IsDec(format[j])} \union {Len(format) + 1})
    IN  [n |-> FoldLeft(LAMBDA v, c : 10 * v + Digit(c), 0, SubSeq(format, i, end - 1)), end |-> end]

SignExtended(value, from) == IF value >= 2^(from - 1) THEN Wide - 2^from + value ELSE value

\* _get_arg: the argument, reduced to its size; a long is converted as a signed number.
_get_arg(arg, size) ==
    LET v == arg % 2^Bits[size] IN IF size = 1 THEN SignExtended(v, Bits[1]) ELSE v

\* Mutant: numbers are extended as if they had the size of an int.
SignExtendInt(value, size) == IF size = 2 THEN value ELSE SignExtended(value % 2^Bits[0], Bits[0])

_sign_extend(value, size) ==
    IF size = 2 THEN value ELSE SignExtended(value % 2^Bits[size], Bits[size])

-----------------------------------------------------------------------------
(* print: a loop over the characters of the format.                          *)

Cleared == [spec |-> FALSE, size |-> 0, width |-> 0, precision |-> 0, flags |-> {}]

ZERO_ALL_VID(st) == Cleared @@ st
Emit(st, text, n) == [st EXCEPT !.out = @ \o text, !.nchars = @ + n]
Conversion(st, text) == ZERO_ALL_VID(Emit(st, text, Len(text)))

Base(c) == CASE c \in {"x", "X", "p"} -> 16 [] c = "o" -> 8 [] OTHER -> 10
Unsigned(c) == IF c \in {"d", "i"} THEN {} ELSE {"UNSIGNED"}
Upper(c) == IF c = "X" THEN {"UPPERCASE"} ELSE {}

\* %d %i %u %x %X %o %p in the kernel ...
KernelInt(st, c, arg) ==
    LET a == _get_arg(arg, st.size)
        num == IF Unsigned(c) = {} THEN _sign_extend(a, st.size) ELSE a
        width == IF c = "p" /\ st.width = 0 THEN 8 ELSE st.width
    IN  Conversion(st, _print_int(num, Base(c), width, st.flags \union Unsigned(c) \union Upper(c)))

\* ... and in the user library, which extends no sign and does not end the specification
\* after a pointer.
UserInt(st, c, arg) ==
    LET a == arg % 2^Bits[0]
        num == IF st.size < 0 /\ c # "p" THEN a % 2^Bits[st.size] ELSE a
        up == IF c = "p" THEN {"UPPERCASE"} ELSE Upper(c)
        text == print_int(num, Base(c), st.width, st.flags \union Unsigned(c) \union up)
    IN  IF c = "p" THEN Emit(st, text, Len(text)) ELSE Conversion(st, text)

\* %s: the kernel counts the whole string, whatever the precision lets through.
String(user, st, s) ==
    LET n == IF user \/ st.precision = 0 \/ st.precision > Len(s) THEN Len(s) ELSE st.precision
    IN  ZERO_ALL_VID(Emit(st, SubSeq(s, 1, n), Len(s)))

\* A character inside a specification, the one at st.at.
Specify(user, format, st, arg) ==
    LET c == format[st.at]
        Flag(f) == [st EXCEPT !.flags = @ \union {f}]
        At(d) == [st EXCEPT !.at = d.end - 1]
    IN  CASE c = "%" -> [Emit(st, <<"%">>, 1) EXCEPT !.spec = FALSE]
          [] c = "l" -> [st EXCEPT !.size = IF @ < 2 THEN @ + 1 ELSE @]
          [] c = "L" -> [st EXCEPT !.size = 1]
          [] c = "h" -> [st EXCEPT !.size = IF @ > -2 THEN @ - 1 ELSE @]
          [] c \in {"z", "j", "t"} -> [st EXCEPT !.size = 0]
          [] c = "+" -> Flag("POSSIGN")
          [] c = " " -> Flag("POSSPACE")
          [] c = "-" -> Flag("LEFTALIGN")
          [] c = "0" -> Flag("PADZERO")
          [] IsDec(c) /\ c # "0" ->
                LET d == _get_dec(format, st.at) IN [At(d) EXCEPT !.width = d.n % 256]
          [] c = "." ->
                LET d == _get_dec(format, st.at + 1) IN [At(d) EXCEPT !.precision = d.n % 256]
          [] c \in {"d", "i", "u", "x", "X", "o", "p"} ->
                IF user THEN UserInt(st, c, arg.num) ELSE KernelInt(st, c, arg.num)
          [] c = "s" -> String(user, st, arg.str)
          [] c = "c" -> Conversion(st, <<arg.str[1]>>)
          [] c \in {"f", "F", "e", "E", "g", "G", "a", "A", "n"} -> ZERO_ALL_VID(st)
          [] OTHER -> st

\* The output and what print returns, for a format with one argument.
print(user, format, arg) ==
    LET start == [out |-> <<>>, nchars |-> 0, at |-> 1] @@ Cleared
        Advance(st) == [st EXCEPT !.at = @ + 1]
        Step(st) ==
            IF st.spec THEN Specify(user, format, st, arg)
            ELSE IF format[st.at] = "%" THEN [st EXCEPT !.spec = TRUE]
            ELSE Emit(st, <<format[st.at]>>, 1)
        loop[n \in 0..Len(format)] ==
            IF n = 0 THEN start
            ELSE LET st == loop[n - 1] IN
                 IF st.at > Len(format) THEN st ELSE Advance(Step(st))
    IN  loop[Len(format)]

\* print of the user library: the same loop.
UserPrint(format, arg) == print(TRUE, format, arg)

-----------------------------------------------------------------------------
(* What a conversion means.                                                  *)

\* The number that a text of digits stands for, after a sign and padding.
ReadBack(text, base) ==
    LET digits == SelectSeq(text, LAMBDA c : c \notin {" ", "+", "-"})
        n == FoldLeft(LAMBDA v, c : base * v + Digit(c), 0, digits)
    IN  IF \E k \in DOMAIN text : text[k] = "-" THEN 0 - n ELSE n

\* The value of the low bits of an argument.
Value(arg, bits, signed) ==
    LET v == arg % 2^bits IN IF signed /\ v >= 2^(bits - 1) THEN v - 2^bits ELSE v
=============================================================================
