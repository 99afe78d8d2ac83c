-------------------------------- MODULE Lzop --------------------------------
(***************************************************************************)
(* The decompression of modules and boot archives,                         *)
(* kernel/src/crypto/comp/lzop.c: the lzop container and the LZO1X         *)
(* instructions of a block.                                                *)
(*                                                                         *)
(* A block is a sequence of bytes, as in the code.  In the container a     *)
(* field of the header, a 4-byte number and a byte of a block are one cell *)
(* each, and a pointer into it is the number of its cell.                  *)
(***************************************************************************)
EXTENDS Integers, Sequences, SequencesExt, FiniteSetsExt

CONSTANTS
    FarM2,      \* 0x0800, added to the distance of a copy of 3 bytes after literals
    FarM4       \* 0x4000, added to the distance of the farthest copies

-----------------------------------------------------------------------------
(* _lzo1x_decompress_block: inb, outb (what is written so far), state, and the   *)
(* result, which is "go" inside the loop.                                    *)

Error(s) == [s EXCEPT !.result = "error"]

\* The bytes of the block from j on.  Once inb is past the end, the difference of the
\* pointers is huge as a size_t: every CHECK_IN_LEFT passes, and what lies behind the block
\* is read as part of it.
InLeft(block, j) == Len(block) + 1 - j
Beyond(s) == [s EXCEPT !.result = "beyond"]

\* memcpy(outb, outb - lookbehind, n), byte by byte: the copy may reach what it
\* has just written.
CopyBack(out, lookbehind, n) ==
    FoldLeft(LAMBDA o, i : Append(o, o[Len(o) + 1 - lookbehind]), out, [i \in 1..n |-> i])

\* copy_verbatim, of n bytes; next is the state that follows.
Literals(block, room, s, n, next) ==
    IF InLeft(block, s.inb) < 0 THEN Beyond(s)
    ELSE IF InLeft(block, s.inb) < n + 3 \/ room - Len(s.out) < n
    THEN Error(s)
    ELSE [s EXCEPT !.out = @ \o SubSeq(block, s.inb, s.inb + n - 1),
                   !.inb = @ + n, !.state = next]

\* SKIP_AND_COUNT_ZEROES and the byte after the zeroes, from position i.  Zeroes that reach
\* the end of the block are an error only if a zero follows it.
Zeroes(block, i) == Min({j \in i..Len(block) : block[j] # 0} \union {Len(block) + 1}) - i
LongLength(block, i) == 255 * Zeroes(block, i) + block[i + Zeroes(block, i)]

\* The length of an instruction: in the opcode, or, if that is 0, in the bytes after it.
LengthOf(block, i, short, base) ==
    LET after == i + Zeroes(block, i) IN
    CASE short # 0 -> [n |-> short, inb |-> i]
      [] short = 0 /\ after <= Len(block) -> [n |-> base + LongLength(block, i), inb |-> after + 1]
      [] OTHER -> [n |-> 0, inb |-> after + 1]

LE16(block, i) == block[i] + 256 * block[i + 1]

\* A copy from what is written, then up to three literals (skip_lookbehind).
Copy(block, room, s, inb, lookbehind, n, next) ==
    IF lookbehind > Len(s.out) \/ room - Len(s.out) < n
    THEN Error(s)
    ELSE Literals(block, room,
             [s EXCEPT !.inb = inb, !.out = CopyBack(@, lookbehind, n)], next, next)

\* The first byte of the block.
FirstByte(block, room, s) ==
    LET n == block[1] - 17 IN
    CASE block[1] = 17 -> Error(s)
      [] block[1] > 17 -> Literals(block, room, [s EXCEPT !.inb = 2], n, IF n < 4 THEN n ELSE 4)
      [] OTHER -> s

\* One turn of the loop.
Instruction(block, room, s) ==
    LET op == block[s.inb]
        i == s.inb + 1
        Near(far, n) == Copy(block, room, s, i + 1, 1 + far + (op \div 4) + 4 * block[i], n, op % 4)
    IN  IF op < 16 /\ s.state = 0
        THEN LET len == LengthOf(block, i, op, 15)
             IN  Literals(block, room, [s EXCEPT !.inb = len.inb], len.n + 3, 4)
        ELSE IF op < 16 THEN Near(IF s.state = 4 THEN FarM2 ELSE 0, IF s.state = 4 THEN 3 ELSE 2)
        ELSE IF op < 32
        THEN LET len == LengthOf(block, i, op % 8, 7)
                 n == len.n + 2
                 high == 16384 * ((op \div 8) % 2)
                 far == high + LE16(block, len.inb) \div 4
             IN  IF InLeft(block, len.inb) < 0 THEN Beyond(s)
                 ELSE IF InLeft(block, len.inb) < 2 THEN Error(s)
                 ELSE IF far = 0
                 THEN [s EXCEPT !.inb = len.inb + 2,
                                !.result = IF n = 3 /\ InLeft(block, len.inb + 2) <= 0 THEN "done" ELSE "error"]
                 ELSE Copy(block, room, s, len.inb + 2, far + FarM4, n, LE16(block, len.inb) % 4)
        ELSE IF op < 64
        THEN LET len == LengthOf(block, i, op % 32, 31)
             IN  IF InLeft(block, len.inb) < 0 THEN Beyond(s)
                 ELSE IF InLeft(block, len.inb) < 2 THEN Error(s)
                 ELSE Copy(block, room, s, len.inb + 2, 1 + LE16(block, len.inb) \div 4,
                           len.n + 2, LE16(block, len.inb) % 4)
        ELSE Copy(block, room, s, i + 1, 1 + ((op \div 4) % 8) + 8 * block[i], (op \div 32) + 1, op % 4)

\* The whole block, into room bytes.  Every turn but the last takes at least one byte of it.
_lzo1x_decompress_block(block, room) ==
    LET start == [inb |-> 1, out |-> <<>>, state |-> 0, result |-> "go"]
        turn[n \in 0..Len(block)] ==
            IF n = 0 THEN FirstByte(block, room, start)
            ELSE LET s == turn[n - 1] IN
                 IF s.result = "go" THEN Instruction(block, room, s) ELSE s
    IN  IF Len(block) < 3 THEN Error(start) ELSE turn[Len(block)]

-----------------------------------------------------------------------------
(* lzop_decompress.                                                          *)

Magic == 137
Unwritten == 256        \* memory from kmalloc that nothing was written to

Has(flags, bits) == \E b \in bits : (flags \div 2^b) % 2 = 1
UncompUseChecksum == {0, 8}     \* LZOP_FLAGS_UNCOMP_USE_ADLER32, _CRC32
CompUseChecksum == {1, 9}       \* LZOP_FLAGS_COMP_USE_ADLER32, _CRC32
HasExtraField == {6}
HasFilter == {11}

\* The header up to the first block: its flags and where it ends.  The version is followed
\* by fields that are skipped together (one cell), and the flags by the mode and the time.
Header(file) ==
    LET flagsAt == IF file[2] >= 2368 THEN 5 ELSE 4
        flags == file[flagsAt]
        nameAt == flagsAt + (IF Has(flags, HasFilter) THEN 3 ELSE 2)
        extraAt == nameAt + 1 + file[nameAt] + 1
    IN  [flags |-> flags,
         blocks |-> IF Has(flags, HasExtraField) THEN extraAt + file[extraAt] + 2 ELSE extraAt]

\* Mutant: the scan takes the blocks to have no checksum.
OutputSizeBare(file, first) ==
    LET scan[i \in Nat] ==
            IF i >= Len(file) THEN 0 ELSE IF file[i] = 0 THEN 0
            ELSE file[i] + scan[i + 1 + file[i + 1] + 1]
    IN  scan[first]

\* The first pass over the blocks, which takes each of them to have one checksum.
OutputSize(file, first) ==
    LET scan[i \in Nat] ==
            IF i > Len(file) THEN 0 ELSE IF file[i] = 0 THEN 0
            ELSE file[i] + scan[i + 1 + file[i + 1] + 2]
    IN  scan[first]

\* The block at i: where its data begin, and what they become.
Block(file, flags, i) ==
    LET size == file[i]
        packed == file[i + 1]
        data == i + 2 + (IF Has(flags, UncompUseChecksum) THEN 1 ELSE 0)
        from == data + (IF packed # size /\ Has(flags, CompUseChecksum) THEN 1 ELSE 0)
        cells == SubSeq(file, from, from + packed - 1)
        stored == [out |-> cells, result |-> "done"]
        d == IF packed = size THEN stored ELSE _lzo1x_decompress_block(cells, size)
    IN  [ok |-> d.result = "done", next |-> from + packed,
         out |-> d.out \o [k \in 1..size - Len(d.out) |-> Unwritten]]

\* The second pass.
Blocks(file, flags, first) ==
    LET pass[i \in Nat] ==
            IF i > Len(file) THEN [ok |-> TRUE, out |-> <<>>]
            ELSE IF file[i] = 0 THEN [ok |-> TRUE, out |-> <<>>]
            ELSE LET b == Block(file, flags, i) IN
                 IF ~b.ok THEN [ok |-> FALSE, out |-> <<>>]
                 ELSE LET rest == pass[b.next] IN [rest EXCEPT !.out = b.out \o @]
    IN  pass[first]

Failed(errno) == [ret |-> errno, output |-> <<>>, output_len |-> 0]

lzop_decompress(file) ==
    LET head == Header(file)
        size == OutputSize(file, head.blocks)
        written == Blocks(file, head.flags, head.blocks)
    IN  IF file = <<>> THEN Failed("EUNSPEC")
        ELSE IF file[1] # Magic THEN Failed("EUNSPEC")
        ELSE IF size = 0 THEN Failed("ENOMEM")
        ELSE IF ~written.ok THEN Failed("EUNSPEC")
        ELSE [ret |-> 0, output |-> written.out, output_len |-> size]

-----------------------------------------------------------------------------
(* What a file stands for.  A text is a first run of literals and then     *)
(* copies, each of which goes back dist bytes for n bytes and is followed  *)
(* by more literals; how names the instruction that encodes it.            *)

\* What a copy adds: the dist bytes before it, over and over.
Repeated(out, dist, n) == [k \in 1..n |-> out[Len(out) - dist + 1 + ((k - 1) % dist)]]

Expand(text) ==
    FoldLeft(LAMBDA out, c : out \o Repeated(out, c.dist, c.n) \o c.lits, text.first, text.copies)

Word(n) == <<n % 256, n \div 256>>

\* The bytes of a length that does not fit an opcode, beyond base.
Extended(n) == [k \in 1..((n - 1) \div 255) |-> 0] \o <<((n - 1) % 255) + 1>>

\* A run of at least four literals: an opcode below 16.
Run(lits) ==
    (IF Len(lits) <= 18 THEN <<Len(lits) - 3>> ELSE <<0>> \o Extended(Len(lits) - 18)) \o lits

First(text) ==
    IF text.how = "short" THEN <<17 + Len(text.first)>> \o text.first ELSE Run(text.first)

\* The opcode of a copy that next literals follow directly.
Opcode(c, next) ==
    LET d == c.dist - 1 IN
    CASE c.how = "two"   -> <<4 * (d % 4) + next, d \div 4>>
      [] c.how = "three" -> <<4 * ((d - FarM2) % 4) + next, (d - FarM2) \div 4>>
      [] c.how = "near"  -> <<32 * (c.n - 1) + 4 * (d % 8) + next, d \div 8>>
      [] c.how = "mid"   -> (IF c.n <= 33 THEN <<32 + c.n - 2>> ELSE <<32>> \o Extended(c.n - 33))
                               \o Word(4 * d + next)
      [] c.how = "far"   -> (IF c.n <= 9 THEN <<16 + c.n - 2>> ELSE <<16>> \o Extended(c.n - 9))
                               \o Word(4 * (c.dist - FarM4) + next)

EncodeCopy(c) ==
    IF Len(c.lits) < 4 THEN Opcode(c, Len(c.lits)) \o c.lits ELSE Opcode(c, 0) \o Run(c.lits)

EndOfBlock == <<17, 0, 0>>
Encode(text) == First(text) \o FoldLeft(LAMBDA bs, c : bs \o EncodeCopy(c), <<>>, text.copies) \o EndOfBlock

\* Which instruction may encode a copy, given the literals and the text before it.
MayEncode(c, before, lits) ==
    /\ c.dist \in 1..before
    /\ CASE c.how = "two"   -> c.n = 2 /\ lits \in 1..3
         [] c.how = "three" -> c.n = 3 /\ lits > 3 /\ c.dist > FarM2
         [] c.how = "near"  -> c.n \in 3..8
         [] c.how = "mid"   -> c.n >= 3
         [] c.how = "far"   -> c.n >= 3 /\ c.dist > FarM4

WellFormed(text) ==
    /\ IF text.how = "short" THEN text.first # <<>> ELSE Len(text.first) >= 4
    /\ \A k \in DOMAIN text.copies :
          MayEncode(text.copies[k],
                    Len(Expand([text EXCEPT !.copies = SubSeq(@, 1, k - 1)])),
                    Len(IF k = 1 THEN text.first ELSE text.copies[k - 1].lits))

\* What the scan for the size takes for granted: every block has one checksum, the stored
\* ones, too.
OneChecksum(flags) == Has(flags, UncompUseChecksum) /\ ~Has(flags, CompUseChecksum)

\* The file of two blocks, the second one stored, that lzop writes with the checksums and
\* header fields the flags call for.
Container(version, flags, text, stored) ==
    LET n == Len(Expand(text))
        Sum(bits) == IF Has(flags, bits) THEN <<0>> ELSE <<>>
    IN  <<Magic, version, 1>> \o (IF version >= 2368 THEN <<9>> ELSE <<>>) \o <<flags>>
        \o (IF Has(flags, HasFilter) THEN <<7>> ELSE <<>>) \o <<1, 2, 7, 7, 0>>
        \o (IF Has(flags, HasExtraField) THEN <<2, 9, 9, 9>> ELSE <<>>)
        \o <<n, Len(Encode(text))>> \o Sum(UncompUseChecksum) \o Sum(CompUseChecksum) \o Encode(text)
        \o <<Len(stored), Len(stored)>> \o Sum(UncompUseChecksum) \o stored \o <<0>>
=============================================================================
