-------------------------------- MODULE CBuff -------------------------------
(***************************************************************************)
(* The circular buffer (kernel/src/data/cbuff.c).  An operation that       *)
(* changes a buffer is an operator from the buffer to the changed buffer;  *)
(* the error returns are the negations of the guards CanPut, CanGet,       *)
(* CanWrite and CanRead, under which a buffer is left alone.               *)
(***************************************************************************)
EXTENDS Naturals, Sequences, SequencesExt

\* A cbuff_t of `size` bytes.
Cbuff(size, Data) ==
    [begin : 0..(size - 1), count : 0..size, size : {size},
     buff : [0..(size - 1) -> Data]]

\* STATIC_CBUFF, stream_create: zeroed.
EmptyCbuff(size, zero) ==
    [begin |-> 0, count |-> 0, size |-> size, buff |-> [i \in 0..(size - 1) |-> zero]]

WRAP(n, m) == IF n >= m THEN n - m ELSE n

\* The readable bytes, oldest first.
Contents(b) == [i \in 1..b.count |-> b.buff[WRAP(b.begin + i - 1, b.size)]]

CanPut(b) == b.count < b.size

Put(b, d) ==
    IF CanPut(b)
    THEN [b EXCEPT !.buff[WRAP(b.begin + b.count, b.size)] = d, !.count = @ + 1]
    ELSE b

CanGet(b) == b.count > 0
GetByte(b) == b.buff[b.begin]
Get(b) ==
    IF CanGet(b)
    THEN [b EXCEPT !.begin = WRAP(@ + 1, b.size), !.count = @ - 1]
    ELSE b

CanWrite(b, data) == Len(data) <= b.size - b.count
CanRead(b, n) == n <= b.count

Write(b, data) ==
    LET put[n \in 0..Len(data)] == IF n = 0 THEN b ELSE Put(put[n - 1], data[n])
    IN  IF CanWrite(b, data) THEN put[Len(data)] ELSE b

\* Up to n bytes are taken, as _read of stream.c does.
GetUpTo(b, n) ==
    LET left[i \in 0..n] == IF i = 0 THEN b ELSE Get(left[i - 1])
    IN  left[n]
=============================================================================
