---------------------------- MODULE MCAlgorithms ----------------------------
(* The inputs of Algorithms.                                                 *)
EXTENDS Algorithms

SeqsUpTo(S, n) == UNION {[1..k -> S] : k \in 0..n}

File(path, kind) == [path |-> path, kind |-> kind, length |-> 0, target |-> <<>>]
MCArchives ==
    { << File(<<"a">>, "dir"), File(<<"a", "/", "b">>, "dir"), File(<<"a", "/", "b", "/", "a">>, "file") >>,
      << File(<<"a">>, "dir"), File(<<"b">>, "file"), File(<<"a", "/", "a">>, "file"), File(<<"b">>, "file") >>,
      << File(<<"a", "/", "b">>, "file"), File(<<"a">>, "dir") >> }
MCPathSet == SeqsUpTo({"/", ".", "a", "b"}, 5)

MCLines == SeqsUpTo({" ", "a", "b", "="}, 5)
MCBehind == {<<>>, <<"z">>, <<" ", "z">>, <<"z", " ", "y">>}
MCLevelLists == SeqsUpTo({"0", "1", "2", "3", "*"} \X {"4", "5"}, 3) \ {<<>>}

Height(keys) == FoldLeft(LAMBDA h, k : IF k = "BS" THEN h - 1 ELSE h + 1, 0, keys)
MCKeySeqs == {ks \in SeqsUpTo({"a", "b", " ", "BS"}, 6) : \A n \in DOMAIN ks : Height(SubSeq(ks, 1, n)) >= 0}

MCBits == [s \in -2..2 |-> IF s = 1 THEN 4 ELSE IF s = 2 THEN 5 ELSE 4 + s]
Sizes == [none |-> <<>>, l |-> <<"l">>, ll |-> <<"l", "l", "l">>, h |-> <<"h">>, hh |-> <<"h", "h">>, z |-> <<"h", "z">>]
SizeOf == [none |-> 0, l |-> 1, ll |-> 2, h |-> -1, hh |-> -2, z |-> 0]
Widths == [none |-> <<>>, three |-> <<"3">>, ten |-> <<"1", "0">>]
WidthOf == [none |-> 0, three |-> 3, ten |-> 10]
MCSpecs ==
    { [chars |-> f \o Widths[w] \o Sizes[s] \o <<c>>, size |-> SizeOf[s], width |-> WidthOf[w], conv |-> c] :
        f \in {<<>>, <<"0">>, <<"+">>, <<" ", "-">>}, w \in DOMAIN Widths, s \in DOMAIN Sizes,
        c \in {"d", "u", "x", "X", "o", "p"} }
    \union {[chars |-> <<"s">>, size |-> 0, width |-> 0, conv |-> "s"]}
MCNumbers == {0, 1, 2, 3, 4, 7, 8, 9, 15, 16, 23, 31}

Lits(n) == [k \in 1..n |-> k + 17]
Copies(ds, ns, ls) ==
    { [how |-> h, dist |-> d, n |-> n, lits |-> Lits(l)] :
        h \in {"two", "three", "near", "mid", "far"}, d \in ds, n \in ns, l \in ls }
MCTexts ==
    { t \in { [how |-> how, first |-> Lits(n), copies |-> cs] :
                how \in {"short", "run"}, n \in {1, 3, 4, 6, 19},
                cs \in {<<>>} \union {<<c>> : c \in Copies({1, 6}, {2, 3, 8, 10, 34}, {0, 2, 4})}
                        \union {<<c>> : c \in Copies({6}, {290}, {4})}
                        \union {<<c, d>> : c \in Copies({1, 5}, {2, 3}, {1, 4}), d \in Copies({2, 6}, {2, 3}, {0})} } :
        Lz!WellFormed(t) /\ Len(Lz!Encode(t)) # Len(Lz!Expand(t)) }
MCStored == {<<7, 8>>}
MCContainerFlags == {1, 256 + 64 + 2048}

MCShellLines ==
    (SeqsUpTo({"A", "/", " ", "'", "\"", "\\", "$"}, 4) \union SeqsUpTo({"A", " ", "'", "\""}, 6)) \ {<<>>}
MCEnviron == << [name |-> <<"A">>, value |-> <<"x", "y", "z">>] >>
MCEnvNames == {<<"A">>, <<"B">>, <<"A", "B">>}
MCExecutable == {<<"/", "b", "i", "n", "/", "A">>}

Module(start, end, size) == [type |-> "module", start |-> start, end |-> end, size |-> size, name |-> IF size = 16 THEN "initrd" ELSE "other"]
Table(sum, n) ==
    [signature |-> "APIC", sum |-> sum,
     entries |-> [k \in 1..n |-> [type |-> "lapic", usable |-> k > 1, addr |-> 0]]
                    \o <<[type |-> "addrover", usable |-> FALSE, addr |-> 7]>>]
Root(type, sum, ts) == [type |-> type, size |-> 27, sum |-> sum, sum2 |-> 0, revision |-> 0, tables |-> ts]
Tags ==
    { Module(10, 14, 13), Module(16, 21, 16), [type |-> "meminfo", size |-> 16, upper |-> 24],
      [type |-> "meminfo", size |-> 12, upper |-> 50], [type |-> "cmdline", size |-> 9],
      Root("acpi_new", 0, <<Table(1, 3), Table(0, 2), Table(0, 1)>>), Root("acpi_old", 0, <<Table(0, 4)>>),
      Root("acpi_old", 1, <<Table(0, 4)>>) }
MCTagLists == SeqsUpTo(Tags, 3)

MCMemories == {Append(m, 0) : m \in [1..4 -> {0, 1, 200}]}
=============================================================================
