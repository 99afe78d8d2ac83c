------------------------------ MODULE Strings ------------------------------
(***************************************************************************)
(* The string and memory functions of the kernel (kernel/src/std/string.c) *)
(* and of the user library (user/lib/src/string).  Those of the user       *)
(* library that do something else have a definition of their own.          *)
(*                                                                         *)
(* Memory is a sequence of bytes, an address is a position in it, and 0 is *)
(* the NUL that ends a string.                                             *)
(***************************************************************************)
EXTENDS Integers, Sequences, SequencesExt, FiniteSetsExt

strlen(m, s) == Min({n \in 0..Len(m) - s : m[s + n] = 0})

\* The bytes at which the loops of strcmp and strncmp stop.
Stop(m, a, b, num) ==
    Min({k \in 0..Len(m) - Max({a, b}) : m[a + k] = 0 \/ m[a + k] # m[b + k] \/ k + 1 = num})
strncmp(m, a, b, num) == LET k == Stop(m, a, b, num) IN m[a + k] - m[b + k]
strcmp(m, a, b) == strncmp(m, a, b, Len(m) + 1)

\* In the user library characters are signed, and 0 characters are equal; in the kernel a
\* num of 0 is no limit.
Char(byte) == IF byte >= 128 THEN byte - 256 ELSE byte
user_strncmp(m, a, b, n) ==
    LET k == Stop(m, a, b, n) IN IF n = 0 THEN 0 ELSE Char(m[a + k]) - Char(m[b + k])
user_strcmp(m, a, b) == user_strncmp(m, a, b, Len(m) + 1)

\* The first c of the string, or 0.
strchr(m, s, c) ==
    LET at == {i \in s..s + strlen(m, s) - 1 : m[i] = c} IN IF at = {} THEN 0 ELSE Min(at)

\* In the user library the NUL is found, too.
user_strchr(m, s, c) == IF c = 0 THEN s + strlen(m, s) ELSE strchr(m, s, c)

\* The loop of memcpy, over the offsets in a given order.
CopyInOrder(m, dst, src, offsets) ==
    FoldLeft(LAMBDA mem, k : [mem EXCEPT ![dst + k] = mem[src + k]], m, offsets)
Upward(n) == [k \in 1..n |-> k - 1]
Downward(n) == [k \in 1..n |-> n - k]

memcpy(m, dst, src, n) == CopyInOrder(m, dst, src, Upward(n))
strcpy(m, dst, src) ==
    LET n == strlen(m, src) IN [memcpy(m, dst, src, n) EXCEPT ![dst + n] = 0]
memset(m, s, c, n) == [i \in DOMAIN m |-> IF i \in s..s + n - 1 THEN c ELSE m[i]]

\* At most n bytes, and zeroes up to n.
strncpy(m, dst, src, n) ==
    LET len == Min({n, strlen(m, src)}) IN memset(memcpy(m, dst, src, len), dst + len, 0, n - len)

\* In the user library the test that ends the first loop has counted already: a zero is
\* missing after a short string, and after one of n bytes or more the second loop begins at
\* SIZE_MAX and fills all the memory that follows.
user_strncpy(m, dst, src, n) ==
    LET len == strlen(m, src) IN
    IF len < n THEN memset(memcpy(m, dst, src, len), dst + len, 0, n - len - 1)
    ELSE memset(memcpy(m, dst, src, n), dst + n, 0, Len(m) + 1 - (dst + n))


memmove(m, dst, src, n) ==
    CopyInOrder(m, dst, src, IF dst < src THEN Upward(n) ELSE Downward(n))

\* memcmp: from the last byte on.
memcmp(m, a, b, n) ==
    LET differ == {k \in 0..n - 1 : m[a + k] # m[b + k]}
    IN  IF differ = {} THEN 0 ELSE m[a + Max(differ)] - m[b + Max(differ)]

-----------------------------------------------------------------------------
\* What a move means: the destination gets what the source held before.
Moved(m, dst, src, n) == [i \in DOMAIN m |-> IF i \in dst..dst + n - 1 THEN m[src + i - dst] ELSE m[i]]

\* The string at s, its first n characters, and whether one sequence precedes another in
\* the dictionary.
StringAt(m, s) == SubSeq(m, s, s + strlen(m, s) - 1)
FirstOf(text, n) == SubSeq(text, 1, Min({n, Len(text)}))
Precedes(x, y) ==
    \/ Len(x) < Len(y) /\ IsPrefix(x, y)
    \/ \E k \in DOMAIN x \cap DOMAIN y : x[k] < y[k] /\ SubSeq(x, 1, k - 1) = SubSeq(y, 1, k - 1)
=============================================================================
