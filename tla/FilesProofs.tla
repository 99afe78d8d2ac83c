----------------------------- MODULE FilesProofs -----------------------------
(* Proofs about the open files of Files, for any archive, any number of     *)
(* processes and descriptors and any sequence of requests.                  *)
EXTENDS Files, WellFoundedInduction, TLAPS

-----------------------------------------------------------------------------
(* Repeated steps.                                                          *)

\* A set of naturals that is not empty has a least element.
LEMMA LeastNat ==
    ASSUME NEW S \in SUBSET Nat, S # {}
    PROVE  \E x \in S : \A y \in S : x <= y
<1>1. PICK x \in S : \A y \in S : ~ (<<y, x>> \in OpToRel(<, Nat))
  BY NatLessThanWellFounded, WFMin, Zenon
<1>2. \A y \in S : x <= y
  <2> TAKE y \in S
  <2>1. ~ (y < x)
    BY <1>1 DEF OpToRel
  <2> QED BY <2>1
<1> QED BY <1>2

LEMMA MinFacts ==
    ASSUME NEW S \in SUBSET Nat, S # {}
    PROVE  Min(S) \in S /\ \A y \in S : Min(S) <= y
<1>1. PICK x \in S : \A y \in S : x <= y
  BY LeastNat
<1> QED BY <1>1 DEF Min

\* The function that a step, repeated N times from s0 on, defines: there is one,
\* because one for N - 1 steps is extended by one more.
StepsOf(S, g) == g \in [Nat -> [S -> S]]
Repeats(S, s0, g, N, f) ==
    f \in [0..N -> S] /\ f[0] = s0 /\ \A n \in 1..N : f[n] = g[n][f[n - 1]]
LEMMA Repeated ==
    ASSUME NEW S, NEW s0 \in S, NEW g, StepsOf(S, g), NEW N \in Nat
    PROVE  \E f : Repeats(S, s0, g, N, f)
<1> DEFINE Follows(f, m) == f[0] = s0 /\ \A n \in 1..m : f[n] = g[n][f[n - 1]]
           none == {m \in Nat : ~ \E f \in [0..m -> S] : Follows(f, m)}
<1>0. g \in [Nat -> [S -> S]]
  BY DEF StepsOf
<1>1. none = {}
  <2> SUFFICES ASSUME none # {} PROVE FALSE
    OBVIOUS
  <2>1. none \in SUBSET Nat
    OBVIOUS
  <2>2. PICK m \in none : \A y \in none : m <= y
    <3> HIDE DEF none
    <3> QED BY <2>1, LeastNat
  <2>3. m \in Nat /\ ~ \E f \in [0..m -> S] : Follows(f, m)
    BY <2>2
  <2>4. m # 0
    <3> SUFFICES ASSUME m = 0 PROVE FALSE
      OBVIOUS
    <3> DEFINE h == [n \in 0..0 |-> s0]
    <3>1. h \in [0..0 -> S] /\ Follows(h, 0)
      OBVIOUS
    <3> QED BY <3>1, <2>3
  <2>5. m - 1 \in Nat /\ m - 1 \notin none
    <3>1. m - 1 \in Nat /\ ~ (m <= m - 1)
      BY <2>3, <2>4
    <3> HIDE DEF none
    <3> QED BY <2>2, <3>1
  <2>6. PICK f \in [0..(m - 1) -> S] : Follows(f, m - 1)
    BY <2>5
  <2> DEFINE h == [n \in 0..m |-> IF n = m THEN g[m][f[m - 1]] ELSE f[n]]
  <2>7. m - 1 \in 0..(m - 1) /\ f[m - 1] \in S /\ g[m][f[m - 1]] \in S
    BY <1>0, <2>3, <2>5, <2>6
  <2>8. ASSUME NEW n \in 0..m, n # m PROVE n \in 0..(m - 1) /\ h[n] = f[n]
    BY <2>3, <2>8
  <2>9. h \in [0..m -> S]
    <3>1. \A n \in 0..m : h[n] \in S
      BY <2>6, <2>7, <2>8
    <3> QED BY <3>1
  <2>10. Follows(h, m)
    <3>1. h[0] = s0
      BY <2>3, <2>4, <2>6, <2>8
    <3>2. ASSUME NEW n \in 1..m PROVE h[n] = g[n][h[n - 1]]
      <4>1. n \in 0..m /\ n - 1 \in 0..m /\ n - 1 # m
        BY <2>3
      <4>2. h[n - 1] = f[n - 1]
        BY <4>1, <2>8
      <4>3. CASE n = m
        BY <4>1, <4>2, <4>3
      <4>4. CASE n # m
        <5>1. n \in 1..(m - 1)
          BY <4>4, <2>3
        <5> QED BY <4>1, <4>2, <4>4, <5>1, <2>6, <2>8
      <4> QED BY <4>3, <4>4
    <3> HIDE DEF h
    <3> QED BY <3>1, <3>2
  <2> QED BY <2>3, <2>9, <2>10
<1> QED BY <1>1 DEF Repeats

\* What the first value has, and every step keeps, the last value has.
LEMMA Stays ==
    ASSUME NEW S, NEW N \in Nat, NEW f, f[0] \in S,
           \A n \in 1..N : f[n - 1] \in S => f[n] \in S
    PROVE  \A n \in 0..N : f[n] \in S
<1> DEFINE bad == {n \in 0..N : f[n] \notin S}
<1> SUFFICES ASSUME bad # {} PROVE FALSE
  OBVIOUS
<1>1. bad \in SUBSET Nat
  OBVIOUS
<1>2. PICK m \in bad : \A y \in bad : m <= y
  <2> HIDE DEF bad
  <2> QED BY <1>1, LeastNat
<1>3. m \in 1..N /\ m - 1 \in 0..N /\ ~ (m <= m - 1)
  BY <1>2
<1>4. m - 1 \notin bad
  <2> HIDE DEF bad
  <2> QED BY <1>2, <1>3
<1> QED BY <1>2, <1>3, <1>4

-----------------------------------------------------------------------------
(* Trees.                                                                   *)

\* A tree: a file has all its fields, and its parent is in the tree.
FileFields == {"name", "parent", "kind", "ops", "length", "target", "link"}
IsFile(file, n) ==
    /\ DOMAIN file = FileFields
    /\ file.parent \in 1..n \union {Null}
    /\ file.kind \in {"dir", "file", "symlink", "stream"} /\ file.ops \in Operations
    /\ file.ops = "stream" => file.kind = "stream"
    /\ file.kind = "stream" => file.name = <<>>
    /\ file.length \in Nat /\ Len(file.target) \in Nat

\* Streams have no names, and nothing is in them.
Named(t) == {f \in DOMAIN t : t[f].kind # "stream"}
IsTree(t) ==
    /\ t \in Seq(ToSet(t)) /\ Len(t) >= 1
    /\ \A f \in 1..Len(t) : IsFile(t[f], Len(t)) /\ (f # Root => t[f].parent # Null)
    /\ Root \in Named(t) /\ \A f \in 1..Len(t) : t[f].parent \in Named(t) \union {Null}

LEMMA TreeFacts ==
    ASSUME NEW t, IsTree(t)
    PROVE  /\ Len(t) \in Nat /\ DOMAIN t = 1..Len(t) /\ Root \in DOMAIN t
           /\ \A f \in DOMAIN t : IsFile(t[f], Len(t)) /\ (f # Root => t[f].parent # Null)
           /\ Root \in Named(t) /\ \A f \in DOMAIN t : t[f].parent \in Named(t) \union {Null}
           /\ Named(t) \subseteq DOMAIN t
BY DEF IsTree, Root, Named

\* fs_finddir returns a file of the tree that has a name, or none.
LEMMA FinddirIn ==
    ASSUME NEW t, IsTree(t), NEW d, NEW name, name # <<>>
    PROVE  fs_finddir(t, d, name) \in Named(t) \union {Null}
<1> DEFINE named == {f \in DOMAIN t : t[f].parent = d /\ t[f].name = name}
<1>1. named \in SUBSET Nat
  BY TreeFacts
<1>2. CASE named = {}
  BY <1>2 DEF fs_finddir
<1>3. CASE named # {}
  <2>1. Min(named) \in named
    <3> HIDE DEF named
    <3> QED BY <1>1, <1>3, MinFacts
  <2>2. named \subseteq Named(t)
    BY TreeFacts DEF IsFile, Named
  <2> QED BY <2>1, <2>2, <1>3 DEF fs_finddir
<1> QED BY <1>2, <1>3

\* So does one call of fs_find_file, and the call it ends with starts at one.
CallSet(t) == [done : BOOLEAN, file : Named(t) \union {Null}, at : Nat]
LEMMA FindStepIn ==
    ASSUME NEW t, IsTree(t), NEW start \in Named(t) \union {Null}, NEW path, Len(path) \in Nat,
           NEW i \in Nat
    PROVE  FindStep(t, start, path, i) \in CallSet(t)
<1> DEFINE f == IF start = Null THEN Root ELSE start
           end == Len(path)
           Skip(dir, j) == IF j > end THEN Found(dir)
                           ELSE GoOn(dir, IF path[j] = Sep THEN j + 1 ELSE j)
           sep == NextSep(path, i)
           down == fs_finddir(t, f, SubSeq(path, i, sep - 1))
<1>1. f \in Named(t) /\ Root \in Named(t)
  BY TreeFacts
<1>2. t[f].parent \in Named(t) \union {Null}
  BY <1>1, TreeFacts
<1>4. sep \in Nat /\ (i <= end => sep >= i)
  <2> DEFINE seps == {j \in i .. Len(path) : path[j] = Sep} \union {Len(path) + 1}
  <2>1. seps \in SUBSET Nat /\ seps # {}
    OBVIOUS
  <2>2. Min(seps) \in seps
    <3> HIDE DEF seps
    <3> QED BY <2>1, MinFacts
  <2> QED BY <2>1, <2>2 DEF NextSep
<1>5. \A d \in Named(t) \union {Null} : Found(d) \in CallSet(t) /\ \A j \in Nat : GoOn(d, j) \in CallSet(t)
  BY DEF Found, GoOn, CallSet
<1>6. \A d \in Named(t) \union {Null} : \A j \in Nat : Skip(d, j) \in CallSet(t)
  BY <1>5
<1>3. i <= end /\ path[i] # Sep => down \in Named(t) \union {Null}
  <2> SUFFICES ASSUME i <= end, path[i] # Sep PROVE down \in Named(t) \union {Null}
    OBVIOUS
  <2>1. sep # i
    <3> DEFINE seps == {j \in i .. Len(path) : path[j] = Sep} \union {Len(path) + 1}
    <3>1. seps \in SUBSET Nat /\ seps # {} /\ i \notin seps
      OBVIOUS
    <3>2. Min(seps) \in seps
      <4> HIDE DEF seps
      <4> QED BY <3>1, MinFacts
    <3> QED BY <3>1, <3>2 DEF NextSep
  <2>2. PICK s : s = SubSeq(path, i, sep - 1)
    OBVIOUS
  <2>3. Len(s) > 0
    <3> HIDE DEF sep
    <3> QED BY <1>4, <2>1, <2>2
  <2>4. s # <<>>
    BY <2>3
  <2> QED BY <2>2, <2>4, FinddirIn
<1> HIDE DEF f, end, Skip, sep, down
<1>7. FindStep(t, start, path, i) =
        IF i > end THEN Found(Null)
        ELSE IF path[i] = Dot /\ i < end /\ path[i + 1] = Dot
             THEN Skip(t[f].parent, i + 2)
        ELSE IF path[i] = Dot THEN Skip(f, i + 1)
        ELSE IF path[i] = Sep
             THEN IF i = end THEN Found(Root) ELSE GoOn(Root, i + 1)
        ELSE IF sep > end \/ down = Null THEN Found(down)
        ELSE GoOn(down, sep + 1)
  BY DEF FindStep, f, end, Skip, sep, down
<1>8. i + 1 \in Nat /\ i + 2 \in Nat /\ sep + 1 \in Nat /\ end \in Nat
  BY <1>4 DEF end
<1> QED BY <1>1, <1>2, <1>3, <1>5, <1>6, <1>7, <1>8

\* The calls of fs_find_file, one after the other.
Call(t, path, w) == IF w.done THEN w ELSE FindStep(t, w.file, path, w.at)
Walks(t, start, path, w) ==
    /\ w[0] = GoOn(start, 1)
    /\ \A n \in 1..(Len(path) + 1) : w[n] = Call(t, path, w[n - 1])
    /\ \A n \in 0..(Len(path) + 1) : w[n] \in CallSet(t)
LEMMA WalkIs ==
    ASSUME NEW t, IsTree(t), NEW start \in Named(t) \union {Null}, NEW path, Len(path) \in Nat
    PROVE  \E w : Walks(t, start, path, w) /\ fs_find_file(t, start, path) = w[Len(path) + 1].file
<1> DEFINE N == Len(path) + 1
           Step(w) == Call(t, path, w)
           Eq(w) == w = [n \in 0 .. N |-> IF n = 0 THEN GoOn(start, 1) ELSE Step(w[n - 1])]
           walk == CHOOSE w : Eq(w)
<1>1. fs_find_file(t, start, path) = walk[N].file
  BY DEF fs_find_file, Call
<1>2. GoOn(start, 1) \in CallSet(t) /\ N \in Nat
  BY DEF GoOn, CallSet
<1>3. \A w \in CallSet(t) : Step(w) \in CallSet(t)
  BY FindStepIn DEF CallSet, Call
<1> HIDE DEF Step, N
<1>4. \E w : Eq(w)
  <2>0. PICK S, s0, g : S = CallSet(t) /\ s0 = GoOn(start, 1) /\ g = [n \in Nat |-> [x \in CallSet(t) |-> Step(x)]]
    OBVIOUS
  <2>1. StepsOf(S, g) /\ s0 \in S
    BY <1>2, <1>3, <2>0 DEF StepsOf
  <2>2. PICK w : Repeats(S, s0, g, N, w)
    BY <1>2, <2>1, Repeated
  <2>3. ASSUME NEW n \in 1..N PROVE w[n] = Step(w[n - 1])
    <3>1. n \in Nat /\ n - 1 \in 0..N
      BY <1>2
    <3> QED BY <2>0, <2>2, <3>1 DEF Repeats
  <2>4. \A n \in 0..N : n # 0 => n \in 1..N
    BY <1>2
  <2>5. Eq(w)
    BY <2>0, <2>2, <2>3, <2>4 DEF Repeats
  <2> QED BY <2>5
<1>5. Eq(walk)
  BY <1>4
<1> HIDE DEF walk
<1>6. walk[0] = GoOn(start, 1) /\ \A n \in 1..N : walk[n] = Step(walk[n - 1])
  <2>1. 0 \in 0..N /\ \A n \in 1..N : n \in 0..N /\ n # 0
    BY <1>2
  <2> QED BY <1>5, <2>1
<1>7. \A n \in 0..N : walk[n] \in CallSet(t)
  BY <1>2, <1>3, <1>6, Stays
<1>8. Walks(t, start, path, walk)
  BY <1>6, <1>7 DEF Walks, Step, N
<1> QED BY <1>1, <1>8 DEF N

\* fs_find_file returns a file of the tree, and no stream, or none, for every path.
LEMMA FindFileIn ==
    ASSUME NEW t, IsTree(t), NEW start \in Named(t) \union {Null}, NEW path, Len(path) \in Nat
    PROVE  /\ fs_find_file(t, start, path) \in Named(t) \union {Null}
           /\ fs_find_file(t, start, path) \in DOMAIN t \union {Null}
<1>1. PICK w : Walks(t, start, path, w) /\ fs_find_file(t, start, path) = w[Len(path) + 1].file
  BY WalkIs
<1>2. w[Len(path) + 1] \in CallSet(t)
  BY <1>1 DEF Walks
<1> QED BY <1>1, <1>2, TreeFacts DEF CallSet

-----------------------------------------------------------------------------
(* The tree that is mounted, and what is added to it.                       *)

\* One more item at the end of a sequence.
LEMMA AppendFacts ==
    ASSUME NEW s, s \in Seq(ToSet(s)), NEW e
    PROVE  /\ Append(s, e) \in Seq(ToSet(Append(s, e)))
           /\ Len(s) \in Nat /\ Len(Append(s, e)) = Len(s) + 1
           /\ DOMAIN s = 1..Len(s) /\ DOMAIN Append(s, e) = 1..(Len(s) + 1)
           /\ \A n \in 1..Len(s) : Append(s, e)[n] = s[n]
           /\ Append(s, e)[Len(s) + 1] = e
<1> DEFINE T == ToSet(s) \cup {e}
<1>1. s \in Seq(T)
  <2>1. DOMAIN s = 1..Len(s) /\ Len(s) \in Nat
    OBVIOUS
  <2>2. \A n \in 1..Len(s) : s[n] \in T
    BY <2>1 DEF ToSet
  <2> QED BY <2>1, <2>2
<1>2. /\ Append(s, e) \in Seq(T) /\ Len(s) \in Nat /\ Len(Append(s, e)) = Len(s) + 1
      /\ DOMAIN s = 1..Len(s) /\ DOMAIN Append(s, e) = 1..(Len(s) + 1)
      /\ \A n \in 1..Len(s) : Append(s, e)[n] = s[n]
      /\ Append(s, e)[Len(s) + 1] = e
  BY <1>1
<1>3. Append(s, e) \in Seq(ToSet(Append(s, e)))
  <2> PICK r : r = Append(s, e)
    OBVIOUS
  <2>1. r \in Seq(T)
    BY <1>2
  <2>2. \A n \in 1..Len(r) : r[n] \in ToSet(r)
    BY <2>1 DEF ToSet
  <2>3. r \in Seq(ToSet(r))
    BY <2>1, <2>2
  <2> QED BY <2>3
<1> QED BY <1>2, <1>3

\* fs_add_file makes a tree of a tree.
LEMMA AddFileIn ==
    ASSUME NEW t, IsTree(t), NEW file, IsFile(file, Len(t)), NEW d \in Named(t)
    PROVE  /\ IsTree(fs_add_file(t, file, d)) /\ Len(fs_add_file(t, file, d)) = Len(t) + 1
           /\ DOMAIN t \subseteq DOMAIN fs_add_file(t, file, d)
           /\ Len(t) + 1 \in DOMAIN fs_add_file(t, file, d)
           /\ \A f \in DOMAIN fs_add_file(t, file, d) : f \in DOMAIN t \/ f = Len(t) + 1
           /\ \A f \in DOMAIN t : fs_add_file(t, file, d)[f] = t[f]
           /\ fs_add_file(t, file, d)[Len(t) + 1] = [file EXCEPT !.parent = d]
<1> DEFINE e == [file EXCEPT !.parent = d]
           n == Len(t)
<1>1. PICK s : s = fs_add_file(t, file, d)
  OBVIOUS
<1>2. s = Append(t, e)
  BY <1>1 DEF fs_add_file
<1>3. t \in Seq(ToSet(t)) /\ n \in Nat /\ n >= 1 /\ d \in 1..n /\ DOMAIN t = 1..n
  BY TreeFacts DEF IsTree, Named
<1>4. /\ s \in Seq(ToSet(s)) /\ Len(s) = n + 1 /\ DOMAIN s = 1..(n + 1)
      /\ \A f \in 1..n : s[f] = t[f]
      /\ s[n + 1] = e
  BY <1>2, <1>3, AppendFacts
<1>5. IsFile(e, n + 1) /\ e.parent # Null
  BY <1>3, FilesAssumption DEF IsFile, FileFields
<1>6. \A f \in 1..n : IsFile(t[f], n + 1) /\ (f # Root => t[f].parent # Null)
  BY <1>3, TreeFacts DEF IsFile
<1> HIDE DEF e, n
<1>7. \A f \in 1..(n + 1) : f \in 1..n \/ f = n + 1
  BY <1>3
<1>8. 1..n \subseteq 1..(n + 1) /\ n + 1 \in 1..(n + 1) /\ n + 1 >= 1
  BY <1>3
<1>9. Root \in Named(s) /\ \A f \in 1..(n + 1) : s[f].parent \in Named(s) \union {Null}
  <2>1. Named(t) \subseteq Named(s)
    BY <1>3, <1>4, <1>8 DEF Named
  <2>2. Root \in Named(t) /\ \A f \in 1..n : t[f].parent \in Named(t) \union {Null}
    BY <1>3, TreeFacts
  <2>3. e.parent = d
    BY DEF IsFile, FileFields, e
  <2> QED BY <1>4, <1>7, <2>1, <2>2, <2>3
<1>10. IsTree(s)
  BY <1>4, <1>5, <1>6, <1>7, <1>8, <1>9 DEF IsTree
<1> QED BY <1>1, <1>3, <1>4, <1>7, <1>8, <1>10 DEF n, e

\* The files that have names keep them.
LEMMA AddNames ==
    ASSUME NEW t, IsTree(t), NEW file, IsFile(file, Len(t)), NEW d \in Named(t),
           NEW u, u = fs_add_file(t, file, d)
    PROVE  IsTree(u) /\ DOMAIN t \subseteq DOMAIN u /\ Named(t) \subseteq Named(u)
<1>1. IsTree(u) /\ DOMAIN t \subseteq DOMAIN u /\ \A f \in DOMAIN t : u[f] = t[f]
  BY AddFileIn
<1>2. Named(t) \subseteq Named(u)
  BY <1>1 DEF Named
<1> QED BY <1>1, <1>2

\* A path has a last separator, or 0.
LEMMA LastSepFacts ==
    ASSUME NEW path, path \in Seq(ToSet(path))
    PROVE  LastSep(path) \in 0..Len(path)
<1> DEFINE seps == {j \in 1..Len(path) : path[j] = Sep} \union {0}
           left == {Len(path) - j : j \in seps}
<1>1. Len(path) \in Nat
  OBVIOUS
<1>2. seps \subseteq 0..Len(path) /\ 0 \in seps
  BY <1>1
<1>3. left \in SUBSET Nat /\ left # {}
  BY <1>1, <1>2
<1>4. PICK k \in left : \A y \in left : k <= y
  <2> HIDE DEF left
  <2> QED BY <1>3, LeastNat
<1>5. PICK m \in seps : k = Len(path) - m
  BY <1>4
<1>6. \A j \in seps : m >= j
  <2> TAKE j \in seps
  <2>1. k <= Len(path) - j
    BY <1>4
  <2> QED BY <2>1, <1>1, <1>2, <1>5
<1>7. Max(seps) \in seps
  BY <1>6 DEF Max
<1> QED BY <1>2, <1>7 DEF LastSep

\* A tree in which no link has been followed, names make paths, and only files of the
\* archive have a length.
Names(s) == Len(<<Sep>> \o s) \in Nat
Fresh(t) ==
    /\ IsTree(t) /\ t[Root] = RootFile
    /\ \A f \in DOMAIN t : t[f].link = Null /\ (t[f].ops = "initrd" \/ t[f].length = 0) /\ Names(t[f].name)

\* Mounting a file of the archive keeps a tree such a tree.
LEMMA MountFileIn ==
    ASSUME NEW t, Fresh(t), NEW n \in DOMAIN Archive
    PROVE  Fresh(MountFile(t, Archive[n]))
<1> DEFINE entry == Archive[n]
           dir == fs_find_file(t, Root, dirname(entry.path))
           file == [RootFile EXCEPT !.name = basename(entry.path), !.kind = entry.kind,
                             !.ops = "initrd", !.length = entry.length, !.target = entry.target]
<1>1. /\ entry.kind \in {"dir", "file", "symlink"} /\ entry.length \in Nat
      /\ entry.path \in Seq(ToSet(entry.path)) /\ entry.target \in Seq(ToSet(entry.target))
  BY PathsAssumption
<1>2. /\ IsFile(file, Len(t)) /\ file.ops = "initrd" /\ file.link = Null /\ IsTree(t)
      /\ file.name = basename(entry.path)
  BY <1>1 DEF IsFile, FileFields, RootFile, Fresh, Operations
<1> HIDE DEF entry
<1>3. Len(dirname(entry.path)) \in Nat
  <2>1. PICK s, k : s = entry.path /\ k = LastSep(s)
    OBVIOUS
  <2>2. s \in Seq(ToSet(s)) /\ k \in 0..Len(s)
    BY <1>1, <2>1, LastSepFacts
  <2>3. k = 0 \/ SubSeq(s, 1, k - 1) \in Seq(ToSet(s))
    BY <2>2
  <2> QED BY <2>1, <2>3 DEF dirname
<1>4. dir \in Named(t) \union {Null} /\ Root \in Named(t) /\ Root \in DOMAIN t
  BY <1>2, <1>3, FindFileIn, TreeFacts
<1> HIDE DEF dir, file
<1>5. MountFile(t, Archive[n]) = fs_add_file(t, file, IF dir = Null THEN Root ELSE dir)
  BY DEF MountFile, entry, dir, file
<1>6. PICK d, u : d = (IF dir = Null THEN Root ELSE dir) /\ u = fs_add_file(t, file, d)
  OBVIOUS
<1>7. /\ IsTree(u) /\ \A f \in DOMAIN u : f \in DOMAIN t \/ f = Len(t) + 1
      /\ \A f \in DOMAIN t : u[f] = t[f]
      /\ u[Len(t) + 1] = [file EXCEPT !.parent = d]
  BY <1>2, <1>4, <1>6, AddFileIn
<1>8. /\ [file EXCEPT !.parent = d].ops = "initrd" /\ [file EXCEPT !.parent = d].link = Null
      /\ [file EXCEPT !.parent = d].name = basename(entry.path)
  BY <1>2 DEF IsFile, FileFields
<1>9. Names(basename(entry.path))
  <2>1. PICK s, k : s = entry.path /\ k = LastSep(s)
    OBVIOUS
  <2>2. s \in Seq(ToSet(s)) /\ k \in 0..Len(s)
    BY <1>1, <2>1, LastSepFacts
  <2>3. PICK b : b = SubSeq(s, k + 1, Len(s))
    OBVIOUS
  <2>4. b \in Seq(ToSet(s))
    BY <2>2, <2>3
  <2>5. Len(<<Sep>> \o b) \in Nat
    BY <2>4
  <2> QED BY <2>1, <2>3, <2>5 DEF basename, Names
<1>10. Fresh(u)
  BY <1>4, <1>7, <1>8, <1>9 DEF Fresh
<1> QED BY <1>5, <1>6, <1>10

\* The tree after initrd_mount is such a tree.
LEMMA MountIn == Fresh(initrd_mount(fs_init, Archive))
<1> DEFINE N == Len(Archive)
           Eq(w, m) == w = [n \in 0 .. m |->
                              IF n = 0 THEN fs_init ELSE MountFile(w[n - 1], Archive[n])]
           mounted == CHOOSE w : Eq(w, N)
           none == {m \in Nat : ~ \E w : Eq(w, m)}
<1>1. initrd_mount(fs_init, Archive) = mounted[N]
  BY DEF initrd_mount
<1>2. N \in Nat /\ DOMAIN Archive = 1..N
  BY PathsAssumption
<1>3. none = {}
  <2> SUFFICES ASSUME none # {} PROVE FALSE
    OBVIOUS
  <2>1. none \in SUBSET Nat
    OBVIOUS
  <2>2. PICK m \in none : \A y \in none : m <= y
    <3> HIDE DEF none
    <3> QED BY <2>1, LeastNat
  <2>3. m \in Nat /\ ~ \E w : Eq(w, m)
    BY <2>2
  <2>4. m # 0
    <3> SUFFICES ASSUME m = 0 PROVE FALSE
      OBVIOUS
    <3>1. Eq([n \in 0 .. 0 |-> fs_init], 0)
      OBVIOUS
    <3> QED BY <3>1, <2>3
  <2>5. m - 1 \in Nat /\ m - 1 \notin none
    <3>1. m - 1 \in Nat /\ ~ (m <= m - 1)
      BY <2>3, <2>4
    <3> HIDE DEF none
    <3> QED BY <2>2, <3>1
  <2>6. PICK w : Eq(w, m - 1)
    BY <2>5
  <2>7. PICK last : last = MountFile(w[m - 1], Archive[m])
    OBVIOUS
  <2>8. PICK h : h = [n \in 0 .. m |-> IF n = m THEN last ELSE w[n]]
    OBVIOUS
  <2>9. ASSUME NEW n \in 0..m
        PROVE  h[n] = IF n = 0 THEN fs_init ELSE MountFile(h[n - 1], Archive[n])
    <3>1. n # 0 => n - 1 \in 0..m /\ n - 1 # m
      BY <2>3
    <3>2. CASE n = m
      BY <2>4, <2>7, <2>8, <3>1, <3>2
    <3>3. CASE n # m
      <4>1. n \in 0..(m - 1)
        BY <2>3, <3>3
      <4>2. w[n] = IF n = 0 THEN fs_init ELSE MountFile(w[n - 1], Archive[n])
        BY <2>6, <4>1
      <4> QED BY <2>8, <3>1, <3>3, <4>2
    <3> QED BY <3>2, <3>3
  <2>10. Eq(h, m)
    BY <2>8, <2>9
  <2> QED BY <2>3, <2>10
<1>4. Eq(mounted, N)
  BY <1>2, <1>3
<1> HIDE DEF mounted, none
<1>5. Fresh(fs_init)
  <2>1. fs_init \in Seq({RootFile}) /\ Len(fs_init) = 1 /\ fs_init[1] = RootFile
    BY DEF fs_init
  <2>2. fs_init \in Seq(ToSet(fs_init))
    BY <2>1 DEF ToSet
  <2>3. IsFile(RootFile, 1) /\ RootFile.link = Null /\ RootFile.length = 0 /\ Names(RootFile.name)
    BY DEF IsFile, RootFile, FileFields, Names, Operations
  <2>4. Root \in Named(fs_init) /\ RootFile.parent = Null
    BY <2>1 DEF Named, Root, RootFile
  <2> QED BY <2>1, <2>2, <2>3, <2>4 DEF Fresh, IsTree, Root
<1>6. PICK good : good = [n \in 0..N |-> IF Fresh(mounted[n]) THEN 1 ELSE 0]
  OBVIOUS
<1>7. 0 \in 0..N /\ \A n \in 1..N : n \in 0..N /\ n # 0 /\ n - 1 \in 0..N
  BY <1>2
<1>8. good[0] \in {1}
  <2>1. mounted[0] = fs_init
    BY <1>4, <1>7
  <2> QED BY <1>5, <1>6, <1>7, <2>1
<1>9. ASSUME NEW n \in 1..N, good[n - 1] \in {1} PROVE good[n] \in {1}
  <2>1. mounted[n] = MountFile(mounted[n - 1], Archive[n])
    BY <1>4, <1>7
  <2>2. Fresh(mounted[n - 1])
    BY <1>6, <1>7, <1>9
  <2>3. Fresh(mounted[n])
    BY <1>2, <2>1, <2>2, MountFileIn
  <2> QED BY <1>6, <1>7, <2>3
<1>10. good[N] \in {1}
  <2> HIDE DEF Eq, N
  <2>1. \A n \in 0..N : good[n] \in {1}
    <3>1. PICK yes : yes = {1}
      OBVIOUS
    <3>2. good[0] \in yes /\ \A n \in 1..N : good[n - 1] \in yes => good[n] \in yes
      BY <1>8, <1>9, <3>1
    <3>3. \A n \in 0..N : good[n] \in yes
      BY <1>2, <3>2, Stays
    <3> QED BY <3>1, <3>3
  <2> QED BY <1>2, <2>1
<1> QED BY <1>1, <1>2, <1>6, <1>10

\* The files that opening f opens: the first one is f, and all are in the tree,
\* or one of them is not there.
Chains == Seq(Named(tree) \union {Null})
LEMMA LinkTargetIn ==
    ASSUME IsTree(tree), NEW f \in DOMAIN tree
    PROVE  LinkTarget(f) \in Named(tree) \union {Null}
<1>1. tree[f].parent \in Named(tree) \union {Null} /\ Len(tree[f].target) \in Nat
  BY TreeFacts DEF IsFile
<1> QED BY <1>1, FindFileIn DEF LinkTarget

Follow(c) == IF IsLink(Last(c)) THEN Append(c, LinkTarget(Last(c))) ELSE c
ChainsFrom(f) == {c \in Chains : Len(c) >= 1 /\ c[1] = f}
Follows(f, w) ==
    /\ w[0] = <<f>>
    /\ \A n \in 1..Len(tree) : w[n] = Follow(w[n - 1])
    /\ \A n \in 0..Len(tree) : w[n] \in ChainsFrom(f)
LEMMA ChainIs ==
    ASSUME IsTree(tree), NEW f \in Named(tree)
    PROVE  \E w : Follows(f, w) /\ Chain(f) = w[Len(tree)]
<1>1. PICK N, S : N = Len(tree) /\ S = {c \in Chains : Len(c) >= 1 /\ c[1] = f}
  OBVIOUS
<1> DEFINE Eq(w) == w = [n \in 0 .. N |-> IF n = 0 THEN <<f>> ELSE Follow(w[n - 1])]
           chain == CHOOSE w : Eq(w)
<1>2. Chain(f) = chain[N]
  BY <1>1 DEF Chain, Follow
<1>3. N \in Nat
  BY <1>1, TreeFacts
<1>4. <<f>> \in S
  BY <1>1 DEF Chains
<1>5. ASSUME NEW c \in S PROVE Follow(c) \in S
  <2>1. c \in Chains /\ Len(c) >= 1 /\ c[1] = f
    BY <1>1
  <2>2. PICK g : g = Last(c)
    OBVIOUS
  <2>3. g \in Named(tree) \union {Null}
    BY <2>1, <2>2 DEF Chains, Last
  <2>4. CASE IsLink(g)
    <3>1. g \in DOMAIN tree
      BY <2>3, <2>4, TreeFacts DEF IsLink
    <3>2. PICK k \in Named(tree) \union {Null} : k = LinkTarget(g)
      BY <3>1, LinkTargetIn
    <3>3. Append(c, k) \in Chains /\ Len(Append(c, k)) >= 1 /\ Append(c, k)[1] = f
      BY <2>1 DEF Chains
    <3> QED BY <1>1, <2>2, <2>4, <3>2, <3>3 DEF Follow
  <2>5. CASE ~IsLink(g)
    BY <2>2, <2>5, <1>5 DEF Follow
  <2> QED BY <2>4, <2>5
<1>6. \E w : Eq(w)
  <2>1. PICK s0, g : s0 = <<f>> /\ g = [n \in Nat |-> [c \in S |-> Follow(c)]]
    OBVIOUS
  <2>2. StepsOf(S, g) /\ s0 \in S
    BY <1>4, <1>5, <2>1 DEF StepsOf
  <2>3. PICK w : Repeats(S, s0, g, N, w)
    BY <1>3, <2>2, Repeated
  <2>4. ASSUME NEW n \in 1..N PROVE w[n] = Follow(w[n - 1])
    <3>1. n \in Nat /\ n - 1 \in 0..N
      BY <1>3
    <3> QED BY <2>1, <2>3, <3>1 DEF Repeats
  <2>5. \A n \in 0..N : n # 0 => n \in 1..N
    BY <1>3
  <2>6. Eq(w)
    BY <2>1, <2>3, <2>4, <2>5 DEF Repeats
  <2> QED BY <2>6
<1>7. Eq(chain)
  BY <1>6
<1> HIDE DEF chain
<1>8. chain[0] = <<f>> /\ \A n \in 1..N : chain[n] = Follow(chain[n - 1])
  <2>1. 0 \in 0..N /\ \A n \in 1..N : n \in 0..N /\ n # 0
    BY <1>3
  <2> QED BY <1>7, <2>1
<1>9. \A n \in 0..N : chain[n] \in S
  BY <1>3, <1>4, <1>5, <1>8, Stays
<1>10. Follows(f, chain)
  BY <1>1, <1>8, <1>9 DEF Follows, ChainsFrom
<1> QED BY <1>1, <1>2, <1>10

LEMMA ChainIn ==
    ASSUME IsTree(tree), NEW f \in Named(tree)
    PROVE  Chain(f) \in Chains /\ Len(Chain(f)) >= 1 /\ Chain(f)[1] = f
<1>1. PICK w : Follows(f, w) /\ Chain(f) = w[Len(tree)]
  BY ChainIs
<1>2. w[Len(tree)] \in ChainsFrom(f)
  BY <1>1, TreeFacts DEF Follows
<1> QED BY <1>1, <1>2 DEF ChainsFrom

-----------------------------------------------------------------------------
(* The inductive invariant.                                                 *)

\* A thread that holds a lock, or waits for one, is at a file of the tree.
IsThread(k) == k = [x \in {"at", "n", "file", "hand", "dir", "seen", "read"} |-> k[x]]
ThreadsOK ==
    /\ kthread = [t \in Threads |-> kthread[t]]
    /\ \A t \in Threads :
          /\ IsThread(kthread[t])
          /\ kthread[t].at = "locked" => kthread[t].file \in Named(tree)
    /\ stage \in {"preload", "run", "kterm"}
    /\ held \subseteq DOMAIN tree

\* While the modules are preloaded kernel_task is alone, with one handle at most.
Preloading ==
    stage = "preload" =>
        /\ kthread["kterm"].at = "start"
        /\ \A h \in Handles : hand[h] # Null =>
              kthread["kern"].at \notin {"idle", "stop"} /\ h = kthread["kern"].hand

HandleSet(t) == [file : DOMAIN t \union {Stdin, Null}, open : BOOLEAN, ops : Operations]
HandlesOK ==
    /\ hand \in [Handles -> HandleSet(tree) \union {Null}]
    /\ \A h \in Handles : hand[h] # Null => (hand[h].ops = "stream" <=> hand[h].file = Stdin)

ProcsOK ==
    /\ alive \subseteq Procs
    /\ stage # "run" =>
          /\ alive = {}
          /\ \A p \in Procs, d \in Descs : fd[p][d] = Null /\ pos[p][d] = 0 /\ delivered[p][d] = 0
    /\ fd \in [Procs -> [Descs -> Handles \union {Null}]]
    /\ pos \in [Procs -> [Descs -> 0 .. MaxPos]]
    /\ opened \in [Procs -> [Descs -> Nat \union {Stdin, Null}]]
    /\ delivered \in [Procs -> [Descs -> Nat]]
    /\ misused \in BOOLEAN

\* Descriptor d, which refers to handle i with the contents h, is at position x, was
\* opened on o and has delivered n bytes: it is sound in tree t.  A stream has no position,
\* and descriptor 0 is open on nothing else and never has one.
Sound(t, d, i, h, x, o, n) ==
    /\ i # Null =>
          /\ h # Null /\ h.open /\ h.file = o
          /\ x = n /\ (h.ops = "initrd" => x <= t[h.file].length)
          /\ o \in Named(t) \union {Stdin}
          /\ o = Stdin => x = 0
          /\ d = 0 => o = Stdin
    /\ d = 0 => x = 0
AllSound ==
    ~misused => \A p \in alive, d \in Descs :
        Sound(tree, d, fd[p][d], hand[fd[p][d]], pos[p][d], opened[p][d], delivered[p][d])

KernelInv == IsTree(tree) /\ ThreadsOK /\ Preloading /\ LockAccounted /\ HandlesOK
ProcsInv == ProcsOK /\ AllSound
FilesIndInv == KernelInv /\ ProcsInv

-----------------------------------------------------------------------------
(* What the steps of the kernel threads have in common.                     *)

\* Files that change neither their place nor their kind leave a tree a tree.
LEMMA SameShape ==
    ASSUME NEW t, IsTree(t), NEW u, u = [f \in DOMAIN t |-> u[f]],
           \A f \in DOMAIN t : IsFile(u[f], Len(t)) /\ u[f].parent = t[f].parent /\ u[f].kind = t[f].kind
    PROVE  IsTree(u) /\ DOMAIN u = DOMAIN t /\ Len(u) = Len(t) /\ Named(u) = Named(t)
<1>1. PICK n \in Nat : n = Len(t) /\ DOMAIN t = 1..n
  BY TreeFacts
<1>2. u \in Seq(ToSet(u)) /\ Len(u) = n
  BY <1>1 DEF ToSet
<1>3. Named(u) = Named(t)
  BY DEF Named
<1> QED BY <1>1, <1>2, <1>3, TreeFacts DEF IsTree

\* Before the processes exist, nothing can be wrong with them.
LEMMA NoProcs ==
    ASSUME ProcsInv, stage # "run", UNCHANGED <<procs, stage, misused>>
    PROVE  ProcsInv'
<1>1. alive' = {} /\ UNCHANGED <<fd, pos, opened, delivered, alive, stage, misused>>
  BY DEF ProcsInv, ProcsOK, procs, tables
<1>2. ProcsOK'
  BY <1>1 DEF ProcsInv, ProcsOK
<1>3. AllSound'
  BY <1>1 DEF AllSound
<1> QED BY <1>2, <1>3 DEF ProcsInv

\* One thread goes on.
LEMMA GoesFacts ==
    ASSUME ThreadsOK, NEW t \in Threads, NEW rec, IsThread(rec), Goes(t, rec)
    PROVE  /\ kthread' = [k \in Threads |-> kthread'[k]] /\ kthread'[t] = rec
           /\ \A k \in Threads : k # t => kthread'[k] = kthread[k]
           /\ \A k \in Threads : IsThread(kthread'[k])
<1>1. kthread = [k \in Threads |-> kthread[k]]
  BY DEF ThreadsOK
<1>2. /\ kthread' = [k \in Threads |-> kthread'[k]] /\ kthread'[t] = rec
      /\ \A k \in Threads : k # t => kthread'[k] = kthread[k]
  BY <1>1 DEF Goes
<1>3. \A k \in Threads : IsThread(kthread'[k])
  BY <1>2 DEF ThreadsOK
<1> QED BY <1>2, <1>3

LEMMA ThreadsStep ==
    ASSUME ThreadsOK, NEW t \in Threads, NEW rec, IsThread(rec), Goes(t, rec), UNCHANGED stage,
           Named(tree) \subseteq Named(tree)', held' \subseteq DOMAIN tree',
           rec.at = "locked" => rec.file \in Named(tree)'
    PROVE  ThreadsOK'
<1>1. \A k \in Threads : kthread'[k].at = "locked" => kthread'[k].file \in Named(tree)'
  <2> TAKE k \in Threads
  <2>1. CASE k = t
    BY <2>1, GoesFacts
  <2>2. CASE k # t
    BY <2>2, GoesFacts DEF ThreadsOK
  <2> QED BY <2>1, <2>2
<1>2. kthread' = [k \in Threads |-> kthread'[k]] /\ \A k \in Threads : IsThread(kthread'[k])
  BY GoesFacts
<1> QED BY <1>1, <1>2 DEF ThreadsOK

\* A thread that is not at a lock leaves all of them accounted for.
LEMMA LocksStep ==
    ASSUME ThreadsOK, LockAccounted, NEW t \in Threads, NEW rec, IsThread(rec), Goes(t, rec),
           UNCHANGED <<stage, held>>, stage # "run", kthread[t].at \notin {"locked", "stuck"}
    PROVE  LockAccounted'
<1>1. ASSUME NEW f \in held
      PROVE  \E k \in Threads : kthread'[k].file = f /\ kthread'[k].at \in {"locked", "stuck"}
  <2>1. PICK k \in Threads : kthread[k].file = f /\ kthread[k].at \in {"locked", "stuck"}
    BY <1>1 DEF LockAccounted
  <2>2. k # t
    BY <2>1
  <2> QED BY <2>1, <2>2, GoesFacts
<1> QED BY <1>1 DEF LockAccounted

\* Handles stay what they are in a tree that grows.
LEMMA HandlesGrow ==
    ASSUME HandlesOK, DOMAIN tree \subseteq DOMAIN tree'
    PROVE  hand \in [Handles -> HandleSet(tree') \union {Null}]
BY DEF HandlesOK, HandleSet

LEMMA HandlesStep ==
    ASSUME HandlesOK, DOMAIN tree \subseteq DOMAIN tree', NEW i, NEW v,
           v = Null \/ (v \in HandleSet(tree') /\ (v.ops = "stream" <=> v.file = Stdin)),
           hand' = hand \/ hand' = [hand EXCEPT ![i] = v]
    PROVE  HandlesOK'
<1>1. hand \in [Handles -> HandleSet(tree') \union {Null}]
  BY HandlesGrow
<1>2. CASE hand' = hand
  BY <1>1, <1>2 DEF HandlesOK
<1>3. CASE hand' = [hand EXCEPT ![i] = v]
  <2>1. hand' \in [Handles -> HandleSet(tree') \union {Null}]
    <3> HIDE DEF HandleSet
    <3> QED BY <1>1, <1>3
  <2>2. ASSUME NEW h \in Handles, hand'[h] # Null
        PROVE  hand'[h].ops = "stream" <=> hand'[h].file = Stdin
    <3>1. CASE h = i
      BY <1>1, <1>3, <2>2, <3>1
    <3>2. CASE h # i
      BY <1>1, <1>3, <2>2, <3>2 DEF HandlesOK
    <3> QED BY <3>1, <3>2
  <2> QED BY <2>1, <2>2 DEF HandlesOK
<1> QED BY <1>2, <1>3

\* While the modules are preloaded the thread that runs is kernel_task.
LEMMA RunsFacts ==
    ASSUME NEW t \in Threads, Runs(t), ThreadsOK
    PROVE  stage # "run" /\ kthread[t].at # "stuck" /\ (stage = "preload" => t = "kern")
BY DEF Runs

\* The free handle that is taken is a handle, and was free.
LEMMA FreeHandleFacts ==
    ASSUME FreeHandles # {}
    PROVE  Min(FreeHandles) \in Handles /\ hand[Min(FreeHandles)] = Null
<1>1. FreeHandles \in SUBSET Nat
  BY FilesAssumption DEF FreeHandles, Handles
<1>2. Min(FreeHandles) \in FreeHandles
  BY <1>1, MinFacts
<1> QED BY <1>2 DEF FreeHandles

-----------------------------------------------------------------------------
(* The steps of the kernel threads.                                         *)

\* A thread that goes on to its next file, or stops.
LEMMA FailedFacts ==
    ASSUME NEW n, NEW at
    PROVE  IsThread([Idle(n) EXCEPT !.at = at]) /\ [Idle(n) EXCEPT !.at = at].at = at
BY DEF IsThread, Idle

LEMMA KOpenKeeps ==
    ASSUME KernelInv, NEW t \in Threads, NEW path \in KtermPaths \union Range(Preload), KOpen(t, path)
    PROVE  KernelInv'
<1>1. /\ IsTree(tree) /\ ThreadsOK /\ Preloading /\ LockAccounted /\ HandlesOK
      /\ UNCHANGED <<tree, stage>> /\ kthread[t].at = "idle"
      /\ stage # "run" /\ (stage = "preload" => t = "kern")
  BY RunsFacts DEF KernelInv, KOpen
<1>2. PICK f, h : f = fs_find_file(tree, Null, path) /\ h = Min(FreeHandles)
  OBVIOUS
<1>3. f \in Named(tree) \union {Null} /\ f \in DOMAIN tree \union {Null}
  <2>1. path \in Seq(ToSet(path))
    BY PathsAssumption DEF Range, ToSet
  <2>2. Len(path) \in Nat /\ Null \in Named(tree) \union {Null}
    BY <2>1
  <2> QED BY <1>1, <1>2, <2>2, FindFileIn
<1>4. h \in Handles /\ hand[h] = Null
  BY <1>2, FreeHandleFacts DEF KOpen
<1>5. CASE f = Null
  <2>1. PICK rec : rec = [Idle(kthread[t].n + 1) EXCEPT !.at = IF t = "kern" THEN "stop" ELSE "idle"]
    OBVIOUS
  <2>2. IsThread(rec) /\ Goes(t, rec) /\ UNCHANGED <<hand, held>> /\ rec.at \in {"stop", "idle"}
    <3>1. IsThread(rec) /\ rec.at \in {"stop", "idle"}
      BY <2>1, FailedFacts
    <3>2. Goes(t, rec) /\ UNCHANGED <<hand, held>>
      BY <1>2, <1>5, <2>1, Zenon DEF KOpen
    <3> QED BY <3>1, <3>2
  <2>3. ThreadsOK' /\ LockAccounted'
    BY <1>1, <2>2, ThreadsStep, LocksStep DEF ThreadsOK
  <2>4. HandlesOK'
    BY <1>1, <2>2 DEF HandlesOK
  <2>5. Preloading'
    BY <1>1, <2>2, GoesFacts DEF Preloading, Threads
  <2> QED BY <1>1, <2>3, <2>4, <2>5 DEF KernelInv
<1>6. CASE f # Null
  <2>1. PICK rec : rec = [kthread[t] EXCEPT !.at = IF f \in held THEN "stuck" ELSE "locked",
                                           !.file = f, !.hand = h]
    OBVIOUS
  <2>2. IsThread(rec) /\ rec.at \in {"stuck", "locked"} /\ rec.file = f /\ rec.hand = h
    BY <1>1, <2>1 DEF ThreadsOK, IsThread
  <2>3. PICK v : v = [file |-> Null, open |-> FALSE, ops |-> "none"]
    OBVIOUS
  <2>4. Goes(t, rec) /\ hand' = [hand EXCEPT ![h] = v] /\ held' = held \union {f}
    BY <1>2, <1>6, <2>1, <2>3 DEF KOpen
  <2>5. ThreadsOK'
    BY <1>1, <1>3, <1>6, <2>2, <2>4, ThreadsStep DEF ThreadsOK
  <2>6. HandlesOK'
    <3>1. v \in HandleSet(tree') /\ (v.ops = "stream" <=> v.file = Stdin)
      BY <2>3, FilesAssumption DEF HandleSet, Operations
    <3> QED BY <1>1, <2>4, <3>1, HandlesStep
  <2>7. LockAccounted'
    <3>1. ASSUME NEW g \in held'
          PROVE  \E k \in Threads : kthread'[k].file = g /\ kthread'[k].at \in {"locked", "stuck"}
      <4>1. CASE g = f
        BY <1>1, <2>2, <2>4, <4>1, GoesFacts
      <4>2. CASE g # f
        <5>1. PICK k \in Threads : kthread[k].file = g /\ kthread[k].at \in {"locked", "stuck"}
          BY <1>1, <2>4, <3>1, <4>2 DEF LockAccounted
        <5> QED BY <1>1, <2>2, <2>4, <5>1, GoesFacts
      <4> QED BY <4>1, <4>2
    <3> QED BY <1>1, <3>1 DEF LockAccounted
  <2>8. Preloading'
    <3> SUFFICES ASSUME stage = "preload"
                 PROVE  /\ kthread'["kterm"].at = "start"
                        /\ \A i \in Handles : hand'[i] # Null =>
                              kthread'["kern"].at \notin {"idle", "stop"} /\ i = kthread'["kern"].hand
      BY <1>1 DEF Preloading
    <3>1. t = "kern" /\ kthread'[t] = rec /\ kthread'["kterm"] = kthread["kterm"]
      BY <1>1, <2>2, <2>4, GoesFacts DEF Threads
    <3>2. \A i \in Handles : hand[i] = Null
      BY <1>1, <3>1 DEF Preloading
    <3>3. \A i \in Handles : i # h => hand'[i] = Null
      BY <1>1, <2>4, <3>2 DEF HandlesOK
    <3> QED BY <1>1, <2>2, <3>1, <3>3 DEF Preloading
  <2> QED BY <1>1, <2>5, <2>6, <2>7, <2>8 DEF KernelInv
<1> QED BY <1>5, <1>6

\* What tlock_release leaves taken: locks that another thread is at.
LEMMA ReleaseFacts ==
    ASSUME ThreadsOK, LockAccounted, NEW t \in Threads, kthread[t].at = "locked",
           NEW g \in tlock_release(kthread[t].file)
    PROVE  g \in held /\ \E k \in Threads \ {t} : kthread[k].file = g /\ kthread[k].at \in {"locked", "stuck"}
<1>1. CASE Contended(kthread[t].file)
  <2>1. g \in held
    BY <1>1 DEF tlock_release
  <2>2. CASE g = kthread[t].file
    BY <1>1, <2>1, <2>2 DEF Contended
  <2>3. CASE g # kthread[t].file
    BY <2>1, <2>3 DEF LockAccounted
  <2> QED BY <2>1, <2>2, <2>3
<1>2. CASE ~Contended(kthread[t].file)
  <2>1. g \in held /\ g # kthread[t].file
    BY <1>2 DEF tlock_release
  <2> QED BY <2>1 DEF LockAccounted
<1> QED BY <1>1, <1>2

LEMMA ReleaseStep ==
    ASSUME ThreadsOK, LockAccounted, NEW t \in Threads, kthread[t].at = "locked", stage # "run",
           NEW rec, IsThread(rec), Goes(t, rec), UNCHANGED stage,
           \A g \in held' : g \in tlock_release(kthread[t].file)
                               \/ (rec.file = g /\ rec.at \in {"locked", "stuck"})
    PROVE  LockAccounted'
<1>1. ASSUME NEW g \in held'
      PROVE  \E k \in Threads : kthread'[k].file = g /\ kthread'[k].at \in {"locked", "stuck"}
  <2>1. CASE g \in tlock_release(kthread[t].file)
    <3>1. PICK k \in Threads \ {t} : kthread[k].file = g /\ kthread[k].at \in {"locked", "stuck"}
      BY <2>1, ReleaseFacts
    <3> QED BY <3>1, GoesFacts
  <2>2. CASE rec.file = g /\ rec.at \in {"locked", "stuck"}
    BY <2>2, GoesFacts
  <2> QED BY <1>1, <2>1, <2>2
<1> QED BY <1>1 DEF LockAccounted

\* A thread frees its handle, or goes on with it.
LEMMA PreloadingStep ==
    ASSUME ThreadsOK, Preloading, HandlesOK, NEW t \in Threads, kthread[t].at \notin {"idle", "stop"},
           stage = "preload" => t = "kern",
           NEW rec, IsThread(rec), Goes(t, rec), UNCHANGED stage, NEW v,
           \/ /\ hand' = hand \/ hand' = [hand EXCEPT ![kthread[t].hand] = v]
              /\ rec.hand = kthread[t].hand /\ rec.at \notin {"idle", "stop"}
           \/ hand' = IF t = "kern" THEN [hand EXCEPT ![kthread[t].hand] = Null] ELSE hand
           \/ hand' = [hand EXCEPT ![kthread[t].hand] = Null]
    PROVE  Preloading'
<1> SUFFICES ASSUME stage = "preload"
             PROVE  /\ kthread'["kterm"].at = "start"
                    /\ \A i \in Handles : hand'[i] # Null =>
                          kthread'["kern"].at \notin {"idle", "stop"} /\ i = kthread'["kern"].hand
  BY DEF Preloading
<1>1. t = "kern" /\ kthread'[t] = rec /\ kthread'["kterm"] = kthread["kterm"]
  BY GoesFacts DEF Threads
<1>2. PICK own : own = kthread[t].hand
  OBVIOUS
<1>3. \A i \in Handles : i # own => hand[i] = Null
  BY <1>1, <1>2 DEF Preloading
<1>4. \A i \in Handles : i # own => hand'[i] = Null
  BY <1>1, <1>2, <1>3 DEF HandlesOK
<1>5. CASE rec.hand = own /\ rec.at \notin {"idle", "stop"}
  BY <1>1, <1>4, <1>5 DEF Preloading
<1>6. CASE hand' = [hand EXCEPT ![own] = Null]
  <2>1. \A i \in Handles : hand'[i] = Null
    BY <1>4, <1>6 DEF HandlesOK
  <2> QED BY <1>1, <2>1 DEF Preloading
<1> QED BY <1>1, <1>2, <1>5, <1>6

LEMMA KReleaseKeeps ==
    ASSUME KernelInv, NEW t \in Threads, KRelease(t)
    PROVE  KernelInv'
<1>1. /\ IsTree(tree) /\ ThreadsOK /\ Preloading /\ LockAccounted /\ HandlesOK
      /\ UNCHANGED stage /\ kthread[t].at = "locked"
      /\ stage # "run" /\ (stage = "preload" => t = "kern")
  BY RunsFacts DEF KernelInv, KRelease
<1>2. PICK f, h, next, freed : f = kthread[t].file /\ h = kthread[t].hand /\ next = LinkTarget(f) /\ freed = tlock_release(f)
  OBVIOUS
<1>3. /\ f \in Named(tree) /\ f \in DOMAIN tree /\ freed \subseteq held /\ held \subseteq DOMAIN tree
      /\ next \in Named(tree) \union {Null} /\ next \in DOMAIN tree \union {Null}
  <2>1. f \in Named(tree) /\ f \in DOMAIN tree
    BY <1>1, <1>2, TreeFacts DEF ThreadsOK
  <2>2. next \in Named(tree) \union {Null}
    BY <1>1, <1>2, <2>1, LinkTargetIn
  <2> QED BY <1>1, <1>2, <2>1, <2>2, TreeFacts DEF ThreadsOK, tlock_release
<1>4. CASE ~IsLink(f)
  <2>1. PICK rec, v : rec = [kthread[t] EXCEPT !.at = "open"] /\ v = Opened(f)
    OBVIOUS
  <2>2. /\ Goes(t, rec) /\ hand' = [hand EXCEPT ![h] = v] /\ held' = freed /\ UNCHANGED tree
    BY <1>2, <1>4, <2>1 DEF KRelease
  <2>3. IsThread(rec) /\ rec.at = "open" /\ rec.hand = h
    BY <1>1, <1>2, <2>1 DEF ThreadsOK, IsThread
  <2>4. v \in HandleSet(tree') /\ (v.ops = "stream" <=> v.file = Stdin)
    <3>1. f \in Nat /\ tree[f].ops \in {"none", "initrd", "zero"}
      BY <1>1, <1>3, TreeFacts DEF IsFile, Named, Operations
    <3> QED BY <1>3, <2>1, <2>2, <3>1, FilesAssumption DEF Opened, HandleSet, Operations
  <2>5. ThreadsOK'
    BY <1>1, <1>3, <2>2, <2>3, ThreadsStep
  <2>6. LockAccounted'
    BY <1>1, <1>2, <2>2, <2>3, ReleaseStep
  <2>7. HandlesOK'
    BY <1>1, <2>2, <2>4, HandlesStep
  <2>8. Preloading'
    BY <1>1, <1>2, <2>2, <2>3, PreloadingStep
  <2> QED BY <1>1, <2>2, <2>5, <2>6, <2>7, <2>8 DEF KernelInv
<1>5. CASE IsLink(f) /\ next = Null
  <2>1. PICK rec : rec = [Idle(kthread[t].n + 1) EXCEPT !.at = IF t = "kern" THEN "stop" ELSE "idle"]
    OBVIOUS
  <2>2. Goes(t, rec) /\ hand' = [hand EXCEPT ![h] = Null] /\ held' = freed /\ UNCHANGED tree
    BY <1>2, <1>5, <2>1 DEF KRelease, KFail, Failed
  <2>3. IsThread(rec) /\ rec.at \in {"stop", "idle"}
    BY <2>1, FailedFacts
  <2>5. ThreadsOK'
    BY <1>1, <1>3, <2>2, <2>3, ThreadsStep
  <2>6. LockAccounted'
    BY <1>1, <1>2, <2>2, <2>3, ReleaseStep
  <2>7. HandlesOK'
    BY <1>1, <2>2, HandlesStep
  <2>8. Preloading'
    BY <1>1, <1>2, <2>2, <2>3, PreloadingStep
  <2> QED BY <1>1, <2>2, <2>5, <2>6, <2>7, <2>8 DEF KernelInv
<1>6. CASE IsLink(f) /\ next # Null
  <2>1. PICK rec : rec = [kthread[t] EXCEPT !.at = IF next \in freed THEN "stuck" ELSE "locked",
                                            !.file = next]
    OBVIOUS
  <2>2. /\ Goes(t, rec) /\ held' = freed \union {next} /\ UNCHANGED hand
        /\ tree' = [tree EXCEPT ![f].link = next]
    BY <1>2, <1>6, <2>1 DEF KRelease
  <2>3. IsThread(rec) /\ rec.at \in {"stuck", "locked"} /\ rec.hand = h /\ rec.file = next
    BY <1>1, <1>2, <2>1 DEF ThreadsOK, IsThread
  <2>4. IsTree(tree') /\ DOMAIN tree' = DOMAIN tree /\ Named(tree)' = Named(tree)
    <3>1. PICK u : u = tree'
      OBVIOUS
    <3>2. tree = [g \in DOMAIN tree |-> tree[g]]
      BY <1>1 DEF IsTree
    <3>3. u = [g \in DOMAIN tree |-> u[g]]
      BY <2>2, <3>1, <3>2
    <3>4. ASSUME NEW g \in DOMAIN tree
          PROVE  IsFile(u[g], Len(tree)) /\ u[g].parent = tree[g].parent /\ u[g].kind = tree[g].kind
      <4>1. IsFile(tree[g], Len(tree))
        BY <1>1, TreeFacts
      <4>2. g # f => u[g] = tree[g]
        BY <2>2, <3>1, <3>2
      <4>3. g = f => u[g] = [tree[g] EXCEPT !.link = next]
        BY <2>2, <3>1, <3>2
      <4> QED BY <4>1, <4>2, <4>3 DEF IsFile, FileFields
    <3> QED BY <1>1, <3>1, <3>3, <3>4, SameShape
  <2>5. ThreadsOK'
    BY <1>1, <1>3, <1>6, <2>2, <2>3, <2>4, ThreadsStep
  <2>6. LockAccounted'
    BY <1>1, <1>2, <2>2, <2>3, ReleaseStep
  <2>7. HandlesOK'
    BY <1>1, <2>2, <2>4, HandlesStep
  <2>8. Preloading'
    BY <1>1, <1>2, <2>2, <2>3, PreloadingStep
  <2> QED BY <1>1, <2>4, <2>5, <2>6, <2>7, <2>8 DEF KernelInv
<1> QED BY <1>4, <1>5, <1>6

\* The steps that take and release no lock.
LEMMA QuietStep ==
    ASSUME KernelInv, NEW t \in Threads, Runs(t), kthread[t].at \notin {"idle", "stop", "locked"},
           NEW rec, IsThread(rec), Goes(t, rec), rec.at # "locked", UNCHANGED <<stage, held>>,
           IsTree(tree'), Named(tree) \subseteq Named(tree)', DOMAIN tree \subseteq DOMAIN tree',
           \/ UNCHANGED hand /\ rec.hand = kthread[t].hand /\ rec.at \notin {"idle", "stop"}
           \/ hand' = IF t = "kern" THEN [hand EXCEPT ![kthread[t].hand] = Null] ELSE hand
    PROVE  KernelInv'
<1>1. /\ IsTree(tree) /\ ThreadsOK /\ Preloading /\ LockAccounted /\ HandlesOK
      /\ stage # "run" /\ (stage = "preload" => t = "kern") /\ kthread[t].at # "stuck"
      /\ held \subseteq DOMAIN tree
  BY RunsFacts DEF KernelInv, ThreadsOK
<1>2. ThreadsOK'
  BY <1>1, ThreadsStep
<1>3. LockAccounted'
  BY <1>1, LocksStep
<1>4. HandlesOK'
  BY <1>1, HandlesStep
<1>5. Preloading'
  BY <1>1, PreloadingStep
<1> QED BY <1>2, <1>3, <1>4, <1>5 DEF KernelInv

LEMMA KReadFileKeeps ==
    ASSUME KernelInv, NEW t \in Threads, KReadFile(t)
    PROVE  KernelInv'
<1>1. PICK rec : rec = [kthread[t] EXCEPT !.at = "loaded", !.read = __read_file(kthread[t].hand)]
  OBVIOUS
<1>2. IsThread(rec) /\ rec.at = "loaded" /\ rec.hand = kthread[t].hand
  BY <1>1 DEF KernelInv, ThreadsOK, IsThread
<1>3. Goes(t, rec) /\ Runs(t) /\ kthread[t].at = "open" /\ UNCHANGED <<tree, hand, held, stage>>
  BY <1>1 DEF KReadFile
<1> QED BY <1>2, <1>3, QuietStep DEF KernelInv

LEMMA KDoneKeeps ==
    ASSUME KernelInv, NEW t \in Threads, KDone(t)
    PROVE  KernelInv'
<1>1. PICK rec : rec = Idle(kthread[t].n + 1)
  OBVIOUS
<1>2. IsThread(rec) /\ rec.at = "idle"
  BY <1>1 DEF Idle, IsThread
<1>3. Goes(t, rec) /\ Runs(t) /\ kthread[t].at = "loaded" /\ UNCHANGED <<tree, held, stage>>
  BY <1>1 DEF KDone
<1>4. hand' = IF t = "kern" THEN [hand EXCEPT ![kthread[t].hand] = Null] ELSE hand
  BY DEF KDone
<1> QED BY <1>2, <1>3, <1>4, QuietStep DEF KernelInv

LEMMA KOpsKeeps ==
    ASSUME KernelInv, NEW t \in Threads, KOps(t)
    PROVE  KernelInv'
<1>1. PICK rec, f, u : rec = [kthread[t] EXCEPT !.at = "loaded"] /\ f = kthread[t].file /\ u = tree'
  OBVIOUS
<1>2. IsThread(rec) /\ rec.at = "loaded" /\ rec.hand = kthread[t].hand
  BY <1>1 DEF KernelInv, ThreadsOK, IsThread
<1>3. /\ Goes(t, rec) /\ Runs(t) /\ kthread[t].at = "ops" /\ UNCHANGED <<hand, held, stage>>
      /\ u = [tree EXCEPT ![f].ops = "zero"]
  BY <1>1 DEF KOps
<1>4. IsTree(u) /\ DOMAIN u = DOMAIN tree /\ Named(u) = Named(tree)
  <2>1. IsTree(tree) /\ tree = [g \in DOMAIN tree |-> tree[g]]
    BY DEF KernelInv, IsTree
  <2>2. u = [g \in DOMAIN tree |-> u[g]]
    BY <1>3, <2>1
  <2>3. ASSUME NEW g \in DOMAIN tree
        PROVE  IsFile(u[g], Len(tree)) /\ u[g].parent = tree[g].parent /\ u[g].kind = tree[g].kind
    <3>1. IsFile(tree[g], Len(tree))
      BY <2>1, TreeFacts
    <3>2. g # f => u[g] = tree[g]
      BY <1>3, <2>1
    <3>3. g = f => u[g] = [tree[g] EXCEPT !.ops = "zero"]
      BY <1>3, <2>1
    <3> QED BY <3>1, <3>2, <3>3 DEF IsFile, FileFields, Operations
  <2> QED BY <2>1, <2>2, <2>3, SameShape
<1> QED BY <1>1, <1>2, <1>3, <1>4, QuietStep

LEMMA KInstallKeeps ==
    ASSUME KernelInv, NEW t \in Threads, KInstall(t)
    PROVE  KernelInv'
<1>1. /\ Runs(t) /\ kthread[t].at = "open" /\ UNCHANGED <<held, stage>> /\ IsTree(tree)
  BY DEF KInstall, KernelInv
<1>2. \A name : IsFile(NewFile(name), Len(tree))
  BY DEF NewFile, IsFile, RootFile, FileFields, Operations
<1>3. Root \in Named(tree) /\ _dev_file \in Named(tree) \union {Null}
  <2>1. Len(DevDir) \in Nat /\ Null \in Named(tree) \union {Null}
    BY DEF DevDir
  <2> QED BY <1>1, <2>1, FindFileIn, TreeFacts DEF _dev_file
<1>4. CASE /\ tree' = fs_add_file(tree, NewFile(Tail(DevDir)), Root)
           /\ Goes(t, [kthread[t] EXCEPT !.at = "loaded"]) /\ UNCHANGED hand
  <2>1. PICK rec : rec = [kthread[t] EXCEPT !.at = "loaded"]
    OBVIOUS
  <2>2. IsThread(rec) /\ rec.at = "loaded" /\ rec.hand = kthread[t].hand
    BY <2>1 DEF KernelInv, ThreadsOK, IsThread
  <2>3. IsTree(tree') /\ Named(tree) \subseteq Named(tree)' /\ DOMAIN tree \subseteq DOMAIN tree'
    BY <1>1, <1>2, <1>3, <1>4, AddNames
  <2> QED BY <1>1, <1>4, <2>1, <2>2, <2>3, QuietStep
<1>5. CASE /\ tree' = fs_add_file(tree, NewFile(tree[kthread[t].file].name), _dev_file) /\ _dev_file # Null
           /\ Goes(t, [kthread[t] EXCEPT !.at = "ops", !.file = Len(tree) + 1]) /\ UNCHANGED hand
  <2>1. PICK rec : rec = [kthread[t] EXCEPT !.at = "ops", !.file = Len(tree) + 1]
    OBVIOUS
  <2>2. IsThread(rec) /\ rec.at = "ops" /\ rec.hand = kthread[t].hand
    BY <2>1 DEF KernelInv, ThreadsOK, IsThread
  <2>3. IsTree(tree') /\ Named(tree) \subseteq Named(tree)' /\ DOMAIN tree \subseteq DOMAIN tree'
    BY <1>1, <1>2, <1>3, <1>5, AddNames
  <2> QED BY <1>1, <1>5, <2>1, <2>2, <2>3, QuietStep
<1>6. CASE /\ hand' = IF t = "kern" THEN [hand EXCEPT ![kthread[t].hand] = Null] ELSE hand
           /\ Failed(t) /\ UNCHANGED tree
  <2>1. PICK rec : rec = [Idle(kthread[t].n + 1) EXCEPT !.at = IF t = "kern" THEN "stop" ELSE "idle"]
    OBVIOUS
  <2>2. IsThread(rec) /\ rec.at \in {"stop", "idle"} /\ Goes(t, rec)
    BY <1>6, <2>1, FailedFacts DEF Failed
  <2> QED BY <1>1, <1>6, <2>2, QuietStep
<1> QED BY <1>4, <1>5, <1>6 DEF KInstall, Adds

\* kterm's input stream.
LEMMA StreamIsFile == \A n : IsFile(StreamFile, n) /\ StreamFile.kind = "stream" /\ StreamFile.name = <<>>
BY DEF StreamFile, IsFile, RootFile, FileFields, Operations

LEMMA KStreamKeeps ==
    ASSUME KernelInv, KStream
    PROVE  KernelInv'
<1>1. PICK t, rec : t = "kterm" /\ rec = [kthread[t] EXCEPT !.at = "idle"]
  OBVIOUS
<1>2. /\ t \in Threads /\ Runs(t) /\ kthread[t].at = "start" /\ Goes(t, rec)
      /\ tree' = fs_add_file(tree, StreamFile, Root) /\ UNCHANGED <<hand, held, stage>>
      /\ IsTree(tree) /\ ThreadsOK /\ Preloading /\ LockAccounted /\ HandlesOK
  BY <1>1 DEF KStream, Adds, KernelInv, Threads
<1>3. IsThread(rec) /\ rec.at = "idle"
  BY <1>1, <1>2 DEF ThreadsOK, IsThread
<1>4. IsTree(tree') /\ Named(tree) \subseteq Named(tree)' /\ DOMAIN tree \subseteq DOMAIN tree'
  BY <1>2, StreamIsFile, AddNames, TreeFacts
<1>5. stage # "run" /\ stage # "preload"
  BY <1>1, <1>2 DEF Runs, Threads
<1>6. ThreadsOK' /\ LockAccounted'
  BY <1>2, <1>3, <1>4, <1>5, ThreadsStep, LocksStep DEF ThreadsOK
<1>7. HandlesOK'
  BY <1>2, <1>4, HandlesStep
<1>8. Preloading'
  BY <1>2, <1>5 DEF Preloading
<1> QED BY <1>4, <1>6, <1>7, <1>8 DEF KernelInv

\* kterm's ls.
LEMMA ListKeeps ==
    ASSUME KernelInv, fs_opendir \/ fs_readdir \/ ListDone
    PROVE  KernelInv'
<1>1. PICK t : t = "kterm"
  OBVIOUS
<1>2. /\ IsTree(tree) /\ ThreadsOK /\ LockAccounted /\ HandlesOK
      /\ UNCHANGED <<tree, hand, held, stage>> /\ stage # "run" /\ stage # "preload"
      /\ kthread[t].at \notin {"locked", "stuck"} /\ t \in Threads
  <2>1. Runs("kterm") /\ kthread["kterm"].at \in {"idle", "ls", "done"} /\ UNCHANGED <<tree, hand, held, stage>>
    <3>1. CASE fs_opendir
      BY <3>1, Zenon DEF fs_opendir
    <3>2. CASE fs_readdir
      BY <3>2, Zenon DEF fs_readdir
    <3>3. CASE ListDone
      BY <3>3 DEF ListDone
    <3> QED BY <3>1, <3>2, <3>3
  <2> QED BY <1>1, <2>1 DEF KernelInv, Runs, Threads
<1>3. CASE UNCHANGED kthread
  BY <1>2, <1>3 DEF KernelInv, ThreadsOK, LockAccounted, HandlesOK, Preloading
<1>4. CASE \E rec : IsThread(rec) /\ Goes(t, rec) /\ rec.at # "locked"
  <2>1. PICK rec : IsThread(rec) /\ Goes(t, rec) /\ rec.at # "locked"
    BY <1>4
  <2>2. ThreadsOK' /\ LockAccounted'
    BY <1>2, <2>1, ThreadsStep, LocksStep DEF ThreadsOK
  <2>3. HandlesOK' /\ Preloading'
    BY <1>2 DEF HandlesOK, Preloading
  <2> QED BY <1>2, <2>2, <2>3 DEF KernelInv
<1>5. IsThread(kthread[t])
  BY <1>2 DEF ThreadsOK
<1>6. ASSUME fs_opendir PROVE UNCHANGED kthread \/ \E rec : IsThread(rec) /\ Goes(t, rec) /\ rec.at # "locked"
  <2>1. SUFFICES ASSUME kthread' # kthread
                 PROVE  \E rec : IsThread(rec) /\ Goes(t, rec) /\ rec.at # "locked"
    OBVIOUS
  <2>2. PICK d, f : Goes(t, [kthread[t] EXCEPT !.at = "ls", !.dir = d, !.file = f])
    BY <1>1, <1>6, <2>1, Zenon DEF fs_opendir
  <2>3. PICK rec : rec = [kthread[t] EXCEPT !.at = "ls", !.dir = d, !.file = f]
    OBVIOUS
  <2>4. IsThread(rec) /\ rec.at = "ls"
    BY <1>5, <2>3 DEF IsThread
  <2> QED BY <2>2, <2>3, <2>4
<1>7. ASSUME fs_readdir PROVE \E rec : IsThread(rec) /\ Goes(t, rec) /\ rec.at # "locked"
  <2>1. PICK seen, end, f : Goes(t, [kthread[t] EXCEPT !.seen = seen, !.at = IF end THEN "done" ELSE "ls", !.file = f])
    BY <1>1, <1>7, Zenon DEF fs_readdir
  <2>2. PICK rec : rec = [kthread[t] EXCEPT !.seen = seen, !.at = IF end THEN "done" ELSE "ls", !.file = f]
    OBVIOUS
  <2>3. IsThread(rec) /\ rec.at \in {"ls", "done"}
    BY <1>5, <2>2 DEF IsThread
  <2> QED BY <2>1, <2>2, <2>3
<1>8. ASSUME ListDone PROVE \E rec : IsThread(rec) /\ Goes(t, rec) /\ rec.at # "locked"
  <2>1. PICK rec : rec = Idle(kthread[t].n)
    OBVIOUS
  <2>2. IsThread(rec) /\ rec.at = "idle"
    BY <2>1 DEF Idle, IsThread
  <2> QED BY <1>1, <1>8, <2>1, <2>2 DEF ListDone
<1> QED BY <1>3, <1>4, <1>6, <1>7, <1>8

-----------------------------------------------------------------------------
(* The system calls.                                                        *)

LEMMA CallsFacts ==
    ASSUME ProcsInv, NEW p, Calls(p)
    PROVE  p \in alive /\ p \in Procs /\ stage = "run" /\ ~misused
BY DEF Calls, ProcsInv, ProcsOK

\* No kernel thread runs beside the processes.
LEMMA KernelRests ==
    ASSUME KernelInv, stage = "run", UNCHANGED <<kthread, held, stage>>,
           IsTree(tree'), DOMAIN tree' = DOMAIN tree, Named(tree)' = Named(tree), HandlesOK'
    PROVE  KernelInv'
<1>1. ThreadsOK'
  BY DEF KernelInv, ThreadsOK
<1>2. LockAccounted' /\ Preloading'
  BY DEF KernelInv, LockAccounted, Preloading
<1> QED BY <1>1, <1>2 DEF KernelInv

\* Following links changes nothing but kfile_t.link.
LEMMA LinkedFacts ==
    ASSUME IsTree(tree), NEW chain
    PROVE  /\ IsTree(Linked(chain)) /\ DOMAIN Linked(chain) = DOMAIN tree /\ Named(Linked(chain)) = Named(tree)
           /\ \A f \in DOMAIN tree : Linked(chain)[f].length = tree[f].length
<1>1. PICK u : u = Linked(chain)
  OBVIOUS
<1>2. u = [f \in DOMAIN tree |-> u[f]]
  BY <1>1 DEF Linked
<1>3. ASSUME NEW f \in DOMAIN tree
      PROVE  /\ IsFile(u[f], Len(tree)) /\ u[f].parent = tree[f].parent /\ u[f].length = tree[f].length
             /\ u[f].kind = tree[f].kind
  <2>1. IsFile(tree[f], Len(tree))
    BY TreeFacts
  <2>2. u[f] = tree[f] \/ u[f] = [tree[f] EXCEPT !.link = LinkTarget(f)]
    BY <1>1 DEF Linked
  <2> QED BY <2>1, <2>2 DEF IsFile, FileFields
<1> QED BY <1>1, <1>2, <1>3, SameShape

\* What an open that succeeds opens.
LEMMA OpenFacts ==
    ASSUME KernelInv, NEW r \in Requests, NEW f, f = Lookup(r), Checked(r, f),
           NEW chain, chain = Chain(f), Last(chain) # Null
    PROVE  /\ Last(chain) \in Named(tree) /\ Last(chain) \in DOMAIN tree /\ Last(chain) \in Nat
           /\ Opened(Last(chain)) \in HandleSet(tree) /\ Opened(Last(chain)) # Null
           /\ Opened(Last(chain)).ops # "stream" /\ Opened(Last(chain)).file = Last(chain)
           /\ Opened(Last(chain)).open /\ tree[Last(chain)].length \in Nat
           /\ Last(chain) # Stdin
<1>1. r.path \in Seq(ToSet(r.path))
  BY PathsAssumption
<1>2. Len(r.path) \in Nat /\ IsTree(tree) /\ Root \in Named(tree)
  BY <1>1, TreeFacts DEF KernelInv
<1>3. f \in Named(tree)
  BY <1>2, FindFileIn DEF Lookup, Checked
<1>4. chain \in Chains /\ Len(chain) >= 1
  BY <1>2, <1>3, ChainIn
<1>5. PICK g : g = Last(chain)
  OBVIOUS
<1>6. g \in Named(tree) /\ g \in DOMAIN tree
  BY <1>2, <1>4, <1>5, TreeFacts DEF Chains, Last
<1>7. g \in Nat /\ tree[g].ops \in {"none", "initrd", "zero"} /\ tree[g].length \in Nat
  BY <1>2, <1>6, TreeFacts DEF IsFile, Named, Operations
<1>8. Opened(g) \in [file : Nat \union {Stdin, Null}, open : BOOLEAN, ops : Operations]
  BY <1>7 DEF Opened, Operations
<1>9. Opened(g) # Null
  BY <1>8, FilesAssumption
<1> QED BY <1>5, <1>6, <1>7, <1>9, FilesAssumption DEF Opened, Operations, HandleSet

\* The first free descriptor.
LEMMA FreeDescFacts ==
    ASSUME NEW p, FreeDescs(p) # {}
    PROVE  Min(FreeDescs(p)) \in Descs /\ fd[p][Min(FreeDescs(p))] = Null
<1>1. FreeDescs(p) \in SUBSET Nat
  BY FilesAssumption DEF FreeDescs, Descs
<1>2. Min(FreeDescs(p)) \in FreeDescs(p)
  BY <1>1, MinFacts
<1> QED BY <1>2 DEF FreeDescs

\* A new entry in a table keeps the types of the tables.
LEMMA AddFileTypes ==
    ASSUME ProcsOK, NEW p \in Procs, NEW d \in Descs, NEW h \in Handles, NEW f \in Nat,
           proc_add_file(p, d, h, f), UNCHANGED <<alive, stage>>, stage = "run", misused' \in BOOLEAN
    PROVE  ProcsOK'
<1>1. fd' \in [Procs -> [Descs -> Handles \union {Null}]]
  BY DEF ProcsOK, proc_add_file
<1>2. pos' \in [Procs -> [Descs -> 0 .. MaxPos]]
  <2>1. 0 \in 0 .. MaxPos
    BY FilesAssumption
  <2> QED BY <2>1 DEF ProcsOK, proc_add_file
<1>3. opened' \in [Procs -> [Descs -> Nat \union {Stdin, Null}]]
  BY DEF ProcsOK, proc_add_file
<1>4. delivered' \in [Procs -> [Descs -> Nat]]
  BY DEF ProcsOK, proc_add_file
<1> QED BY <1>1, <1>2, <1>3, <1>4 DEF ProcsOK

LEMMA OpenNewKeeps ==
    ASSUME FilesIndInv, NEW p, NEW r \in Requests, NEW f, f = Lookup(r), Checked(r, f),
           NEW chain, chain = Chain(f), OpenNew(p, r, chain)
    PROVE  FilesIndInv'
<1>1. /\ KernelInv /\ ProcsOK /\ AllSound /\ ProcsInv /\ HandlesOK /\ IsTree(tree)
      /\ Calls(p) /\ FreeHandles # {} /\ Last(chain) # Null /\ FreeDescs(p) # {}
      /\ Min(FreeDescs(p)) > 0 /\ tree' = Linked(chain)
      /\ UNCHANGED <<alive, held, kthread, stage, misused>>
  BY DEF FilesIndInv, ProcsInv, KernelInv, OpenNew, Openable, kernel
<1>2. p \in alive /\ p \in Procs /\ stage = "run" /\ ~misused
  BY <1>1, CallsFacts
<1>3. PICK h, d, g, v : h = Min(FreeHandles) /\ d = Min(FreeDescs(p)) /\ g = Last(chain) /\ v = Opened(g)
  OBVIOUS
<1>4. h \in Handles /\ hand[h] = Null /\ d \in Descs /\ d # 0 /\ fd[p][d] = Null
  BY <1>1, <1>3, FreeHandleFacts, FreeDescFacts
<1>5. /\ g \in Named(tree) /\ g \in DOMAIN tree /\ g \in Nat /\ g # Stdin /\ v \in HandleSet(tree) /\ v # Null
      /\ v.ops # "stream" /\ v.file = g /\ v.open /\ tree[g].length \in Nat
  BY <1>1, <1>3, OpenFacts
<1>6. hand' = [hand EXCEPT ![h] = v] /\ proc_add_file(p, d, h, g)
  BY <1>3 DEF OpenNew
<1>7. /\ IsTree(tree') /\ DOMAIN tree' = DOMAIN tree /\ Named(tree)' = Named(tree)
      /\ \A k \in DOMAIN tree : tree'[k].length = tree[k].length
  BY <1>1, LinkedFacts
<1>8. HandlesOK'
  <2>1. v \in HandleSet(tree')
    BY <1>5, <1>7 DEF HandleSet
  <2> QED BY <1>1, <1>5, <1>6, <1>7, <2>1, HandlesStep
<1>9. KernelInv'
  BY <1>1, <1>2, <1>7, <1>8, KernelRests
<1>10. ProcsOK'
  BY <1>1, <1>2, <1>4, <1>5, <1>6, AddFileTypes DEF ProcsOK
<1>11. /\ fd'[p][d] = h /\ pos'[p][d] = 0 /\ opened'[p][d] = g /\ delivered'[p][d] = 0
       /\ hand'[h] = v
  BY <1>1, <1>2, <1>4, <1>6 DEF ProcsOK, proc_add_file, HandlesOK
<1>12. \A q \in Procs, e \in Descs : q # p \/ e # d =>
          /\ fd'[q][e] = fd[q][e] /\ pos'[q][e] = pos[q][e]
          /\ opened'[q][e] = opened[q][e] /\ delivered'[q][e] = delivered[q][e]
  BY <1>1, <1>2, <1>4, <1>6 DEF ProcsOK, proc_add_file
<1>13. \A i \in Handles : i # h => hand'[i] = hand[i]
  BY <1>1, <1>4, <1>6 DEF HandlesOK
<1>14. ASSUME NEW q \in alive, NEW e \in Descs
       PROVE  Sound(tree, e, fd[q][e], hand[fd[q][e]], pos[q][e], opened[q][e], delivered[q][e])'
  <2>1. CASE q = p /\ e = d
    BY <1>4, <1>5, <1>7, <1>11, <2>1 DEF Sound
  <2>2. CASE q # p \/ e # d
    <3>1. q \in Procs /\ fd[q][e] \in Handles \union {Null}
      BY <1>1 DEF ProcsOK
    <3>2. Sound(tree, e, fd[q][e], hand[fd[q][e]], pos[q][e], opened[q][e], delivered[q][e])
      BY <1>1, <1>2 DEF AllSound
    <3>3. fd[q][e] # Null => fd[q][e] # h /\ hand'[fd[q][e]] = hand[fd[q][e]]
      BY <1>4, <1>13, <3>1, <3>2 DEF Sound
    <3>4. fd[q][e] # Null /\ hand[fd[q][e]].ops = "initrd" => hand[fd[q][e]].file \in DOMAIN tree
      <4> SUFFICES ASSUME fd[q][e] # Null, hand[fd[q][e]].ops = "initrd"
                   PROVE  hand[fd[q][e]].file \in DOMAIN tree
        OBVIOUS
      <4>1. hand[fd[q][e]] # Null /\ hand[fd[q][e]].file = opened[q][e]
            /\ opened[q][e] \in DOMAIN tree \union {Stdin}
        BY <1>1, <3>2, TreeFacts DEF Sound
      <4> QED BY <1>1, <3>1, <4>1 DEF HandlesOK
    <3> QED BY <1>7, <1>12, <2>2, <3>1, <3>2, <3>3, <3>4 DEF Sound
  <2> QED BY <2>1, <2>2
<1>15. AllSound'
  BY <1>1, <1>14 DEF AllSound
<1> QED BY <1>9, <1>10, <1>15 DEF FilesIndInv, ProcsInv

LEMMA OpenZeroKeeps ==
    ASSUME FilesIndInv, NEW p, NEW r \in Requests, NEW f, f = Lookup(r), Checked(r, f),
           NEW chain, chain = Chain(f), OpenZero(p, r, chain)
    PROVE  FilesIndInv'
<1>1. /\ KernelInv /\ ProcsOK /\ ProcsInv /\ HandlesOK /\ IsTree(tree)
      /\ Calls(p) /\ FreeHandles # {} /\ Last(chain) # Null /\ 0 \in Descs
      /\ tree' = Linked(chain) /\ proc_add_file(p, 0, Min(FreeHandles), Last(chain))
      /\ UNCHANGED <<hand, alive, held, kthread, stage>> /\ misused' = TRUE
  BY DEF FilesIndInv, ProcsInv, KernelInv, OpenZero, Openable, kernel, FreeDescs
<1>2. p \in Procs /\ stage = "run"
  BY <1>1, CallsFacts
<1>3. Min(FreeHandles) \in Handles /\ Last(chain) \in Nat
  BY <1>1, FreeHandleFacts, OpenFacts
<1>4. IsTree(tree') /\ DOMAIN tree' = DOMAIN tree /\ Named(tree)' = Named(tree)
  BY <1>1, LinkedFacts
<1>5. HandlesOK'
  BY <1>1, <1>4, HandlesStep
<1>6. KernelInv'
  BY <1>1, <1>2, <1>4, <1>5, KernelRests
<1>7. ProcsOK'
  BY <1>1, <1>2, <1>3, AddFileTypes
<1>8. AllSound'
  BY <1>1 DEF AllSound
<1> QED BY <1>6, <1>7, <1>8 DEF FilesIndInv, ProcsInv

LEMMA OpenDanglingKeeps ==
    ASSUME FilesIndInv, NEW p, NEW r, NEW chain, OpenDangling(p, r, chain)
    PROVE  FilesIndInv'
<1>1. /\ KernelInv /\ ProcsOK /\ AllSound /\ ProcsInv /\ HandlesOK /\ IsTree(tree) /\ Calls(p)
      /\ tree' = Linked(chain)
      /\ UNCHANGED <<hand, alive, fd, pos, opened, delivered, held, kthread, stage, misused>>
  BY DEF FilesIndInv, ProcsInv, KernelInv, OpenDangling, kernel, tables
<1>2. p \in alive /\ p \in Procs /\ stage = "run" /\ ~misused
  BY <1>1, CallsFacts
<1>3. /\ IsTree(tree') /\ DOMAIN tree' = DOMAIN tree /\ Named(tree)' = Named(tree)
      /\ \A k \in DOMAIN tree : tree'[k].length = tree[k].length
  BY <1>1, LinkedFacts
<1>4. HandlesOK'
  BY <1>1, <1>3, HandlesStep
<1>5. KernelInv'
  BY <1>1, <1>2, <1>3, <1>4, KernelRests
<1>6. ProcsOK'
  BY <1>1 DEF ProcsOK
<1>7. ASSUME NEW q \in alive, NEW e \in Descs
      PROVE  Sound(tree, e, fd[q][e], hand[fd[q][e]], pos[q][e], opened[q][e], delivered[q][e])'
  <2>1. q \in Procs /\ fd[q][e] \in Handles \union {Null}
    BY <1>1 DEF ProcsOK
  <2>2. Sound(tree, e, fd[q][e], hand[fd[q][e]], pos[q][e], opened[q][e], delivered[q][e])
    BY <1>1, <1>2 DEF AllSound
  <2>3. fd[q][e] # Null /\ hand[fd[q][e]].ops = "initrd" => hand[fd[q][e]].file \in DOMAIN tree
    <3> SUFFICES ASSUME fd[q][e] # Null, hand[fd[q][e]].ops = "initrd"
                 PROVE  hand[fd[q][e]].file \in DOMAIN tree
      OBVIOUS
    <3>1. hand[fd[q][e]] # Null /\ hand[fd[q][e]].file = opened[q][e]
          /\ opened[q][e] \in DOMAIN tree \union {Stdin}
      BY <1>1, <2>2, TreeFacts DEF Sound
    <3> QED BY <1>1, <2>1, <3>1 DEF HandlesOK
  <2> QED BY <1>1, <1>3, <2>1, <2>2, <2>3 DEF Sound
<1>8. AllSound'
  BY <1>1, <1>7 DEF AllSound
<1> QED BY <1>5, <1>6, <1>8 DEF FilesIndInv, ProcsInv

LEMMA CloseKeeps ==
    ASSUME FilesIndInv, NEW p, NEW d \in Descs, Close(p, d)
    PROVE  FilesIndInv'
<1>1. /\ KernelInv /\ ProcsOK /\ AllSound /\ ProcsInv /\ HandlesOK /\ IsTree(tree)
      /\ Calls(p) /\ fd[p][d] # Null /\ UNCHANGED <<tree, alive, pos, held, kthread, stage>>
  BY DEF FilesIndInv, ProcsInv, KernelInv, Close, CloseHandle, kernel
<1>2. p \in alive /\ p \in Procs /\ stage = "run" /\ ~misused
  BY <1>1, CallsFacts
<1>3. PICK h : h = fd[p][d]
  OBVIOUS
<1>4. /\ hand' = [hand EXCEPT ![h] = Null] /\ fd' = [fd EXCEPT ![p][d] = Null]
      /\ opened' = [opened EXCEPT ![p][d] = Null] /\ delivered' = [delivered EXCEPT ![p][d] = 0]
      /\ misused' = (References(h) # {<<p, d>>})
  BY <1>3 DEF Close, CloseHandle
<1>5. KernelInv'
  <2>1. HandlesOK'
    BY <1>1, <1>4, HandlesStep
  <2> QED BY <1>1, <1>2, <2>1, KernelRests
<1>6. ProcsOK'
  <2>1. fd' \in [Procs -> [Descs -> Handles \union {Null}]]
    BY <1>1, <1>4 DEF ProcsOK
  <2>2. opened' \in [Procs -> [Descs -> Nat \union {Stdin, Null}]]
    BY <1>1, <1>4 DEF ProcsOK
  <2>3. delivered' \in [Procs -> [Descs -> Nat]]
    BY <1>1, <1>4 DEF ProcsOK
  <2>4. misused' \in BOOLEAN
    BY <1>4
  <2> QED BY <1>1, <1>2, <2>1, <2>2, <2>3, <2>4 DEF ProcsOK
<1>7. fd'[p][d] = Null
  BY <1>1, <1>2, <1>4 DEF ProcsOK
<1>8. \A q \in Procs, e \in Descs : q # p \/ e # d =>
          /\ fd'[q][e] = fd[q][e] /\ opened'[q][e] = opened[q][e] /\ delivered'[q][e] = delivered[q][e]
  BY <1>1, <1>2, <1>4 DEF ProcsOK
<1>9. \A i \in Handles : i # h => hand'[i] = hand[i]
  BY <1>1, <1>4 DEF HandlesOK
<1>10. ASSUME ~misused', NEW q \in alive, NEW e \in Descs
       PROVE  Sound(tree, e, fd[q][e], hand[fd[q][e]], pos[q][e], opened[q][e], delivered[q][e])'
  <2>1. q \in Procs /\ fd[q][e] \in Handles \union {Null}
    BY <1>1 DEF ProcsOK
  <2>2. Sound(tree, e, fd[q][e], hand[fd[q][e]], pos[q][e], opened[q][e], delivered[q][e])
    BY <1>1, <1>2 DEF AllSound
  <2>3. CASE q = p /\ e = d
    BY <1>1, <1>7, <2>2, <2>3 DEF Sound
  <2>4. CASE q # p \/ e # d
    <3>1. fd[q][e] # h
      <4> SUFFICES ASSUME fd[q][e] = h PROVE FALSE
        OBVIOUS
      <4>1. PICK x : x = <<q, e>>
        OBVIOUS
      <4>2. x \in References(h)
        BY <4>1 DEF References
      <4>3. x = <<p, d>>
        BY <1>4, <1>10, <4>2
      <4> QED BY <2>4, <4>1, <4>3
    <3>2. fd[q][e] # Null => hand'[fd[q][e]] = hand[fd[q][e]]
      BY <1>9, <2>1, <3>1
    <3> QED BY <1>1, <1>8, <2>1, <2>2, <2>4, <3>2 DEF Sound
  <2> QED BY <2>3, <2>4
<1>11. AllSound'
  BY <1>1, <1>10 DEF AllSound
<1> QED BY <1>5, <1>6, <1>11 DEF FilesIndInv, ProcsInv

LEMMA ForkKeeps ==
    ASSUME FilesIndInv, NEW p, NEW c \in Procs, Fork(p, c)
    PROVE  FilesIndInv'
<1>1. /\ KernelInv /\ ProcsOK /\ AllSound /\ ProcsInv /\ HandlesOK /\ IsTree(tree)
      /\ Calls(p) /\ UNCHANGED <<tree, hand, held, kthread, stage, misused>>
      /\ alive' = alive \union {c}
      /\ fd' = [fd EXCEPT ![c] = fd[p]] /\ pos' = [pos EXCEPT ![c] = pos[p]]
      /\ opened' = [opened EXCEPT ![c] = opened[p]] /\ delivered' = [delivered EXCEPT ![c] = delivered[p]]
  BY DEF FilesIndInv, ProcsInv, KernelInv, Fork, kernel
<1>2. p \in alive /\ p \in Procs /\ stage = "run" /\ ~misused
  BY <1>1, CallsFacts
<1>3. KernelInv'
  <2>1. HandlesOK'
    BY <1>1, HandlesStep
  <2> QED BY <1>1, <1>2, <2>1, KernelRests
<1>4. ProcsOK'
  <2>1. fd' \in [Procs -> [Descs -> Handles \union {Null}]] /\ pos' \in [Procs -> [Descs -> 0 .. MaxPos]]
    BY <1>1, <1>2 DEF ProcsOK
  <2>2. opened' \in [Procs -> [Descs -> Nat \union {Stdin, Null}]] /\ delivered' \in [Procs -> [Descs -> Nat]]
    BY <1>1, <1>2 DEF ProcsOK
  <2> QED BY <1>1, <1>2, <2>1, <2>2 DEF ProcsOK
<1>5. ASSUME NEW q \in alive', NEW e \in Descs
      PROVE  Sound(tree, e, fd[q][e], hand[fd[q][e]], pos[q][e], opened[q][e], delivered[q][e])'
  <2>1. PICK s : s = IF q = c THEN p ELSE q
    OBVIOUS
  <2>2. s \in alive /\ q \in Procs
    BY <1>1, <1>2, <2>1 DEF ProcsOK
  <2>3. fd'[q] = fd[s] /\ pos'[q] = pos[s] /\ opened'[q] = opened[s] /\ delivered'[q] = delivered[s]
    BY <1>1, <2>1, <2>2 DEF ProcsOK
  <2>4. Sound(tree, e, fd[s][e], hand[fd[s][e]], pos[s][e], opened[s][e], delivered[s][e])
    BY <1>1, <1>2, <2>2 DEF AllSound
  <2> QED BY <1>1, <2>3, <2>4 DEF Sound
<1>6. AllSound'
  BY <1>5 DEF AllSound
<1> QED BY <1>3, <1>4, <1>6 DEF FilesIndInv, ProcsInv

LEMMA ExitKeeps ==
    ASSUME FilesIndInv, NEW p, Exit(p)
    PROVE  FilesIndInv'
<1>1. /\ KernelInv /\ ProcsOK /\ AllSound /\ ProcsInv /\ HandlesOK /\ IsTree(tree)
      /\ Calls(p) /\ UNCHANGED <<tree, hand, held, kthread, stage, misused>>
      /\ alive' = alive \ {p}
      /\ fd' = [fd EXCEPT ![p] = [d \in Descs |-> Null]] /\ pos' = [pos EXCEPT ![p] = [d \in Descs |-> 0]]
      /\ opened' = [opened EXCEPT ![p] = [d \in Descs |-> Null]]
      /\ delivered' = [delivered EXCEPT ![p] = [d \in Descs |-> 0]]
  BY DEF FilesIndInv, ProcsInv, KernelInv, Exit, kernel
<1>2. p \in Procs /\ stage = "run" /\ ~misused
  BY <1>1, CallsFacts
<1>3. KernelInv'
  <2>1. HandlesOK'
    BY <1>1, HandlesStep
  <2> QED BY <1>1, <1>2, <2>1, KernelRests
<1>4. ProcsOK'
  <2>1. fd' \in [Procs -> [Descs -> Handles \union {Null}]]
    BY <1>1 DEF ProcsOK
  <2>2. pos' \in [Procs -> [Descs -> 0 .. MaxPos]]
    <3>1. [d \in Descs |-> 0] \in [Descs -> 0 .. MaxPos]
      BY FilesAssumption
    <3> QED BY <1>1, <3>1 DEF ProcsOK
  <2>3. opened' \in [Procs -> [Descs -> Nat \union {Stdin, Null}]]
    BY <1>1 DEF ProcsOK
  <2>4. delivered' \in [Procs -> [Descs -> Nat]]
    BY <1>1 DEF ProcsOK
  <2> QED BY <1>1, <1>2, <2>1, <2>2, <2>3, <2>4 DEF ProcsOK
<1>5. ASSUME NEW q \in alive', NEW e \in Descs
      PROVE  Sound(tree, e, fd[q][e], hand[fd[q][e]], pos[q][e], opened[q][e], delivered[q][e])'
  <2>1. q \in alive /\ q # p /\ q \in Procs
    BY <1>1 DEF ProcsOK
  <2>2. fd'[q] = fd[q] /\ pos'[q] = pos[q] /\ opened'[q] = opened[q] /\ delivered'[q] = delivered[q]
    BY <1>1, <2>1 DEF ProcsOK
  <2>3. Sound(tree, e, fd[q][e], hand[fd[q][e]], pos[q][e], opened[q][e], delivered[q][e])
    BY <1>1, <1>2, <2>1 DEF AllSound
  <2> QED BY <1>1, <2>2, <2>3 DEF Sound
<1>6. AllSound'
  BY <1>5 DEF AllSound
<1> QED BY <1>3, <1>4, <1>6 DEF FilesIndInv, ProcsInv

\* _read of the initrd stays inside the file, unless the sum of offset and size wraps around.
LEMMA InitrdLengthFacts ==
    ASSUME NEW len \in Nat, NEW off \in Nat, NEW sz \in Nat, off <= len, sz + off < SizeRange
    PROVE  InitrdLength(len, off, sz) \in Nat /\ off + InitrdLength(len, off, sz) <= len
BY FilesAssumption DEF InitrdLength

LEMMA ReadBlkKeeps ==
    ASSUME FilesIndInv, NEW p, NEW d \in Descs, NEW sz \in ReadSizes, ReadBlk(p, d, sz)
    PROVE  FilesIndInv'
<1>1. /\ KernelInv /\ ProcsOK /\ AllSound /\ ProcsInv /\ HandlesOK /\ IsTree(tree)
      /\ Calls(p) /\ fd[p][d] # Null
      /\ UNCHANGED <<tree, hand, alive, fd, opened, held, kthread, stage, misused>>
  BY DEF FilesIndInv, ProcsInv, KernelInv, ReadBlk, kernel
<1>2. p \in alive /\ p \in Procs /\ stage = "run" /\ ~misused /\ sz \in Nat /\ sz + MaxPos < SizeRange
  BY <1>1, CallsFacts, FilesAssumption
<1>3. PICK h, x, v : h = fd[p][d] /\ x = pos[p][d] /\ v = hand[h]
  OBVIOUS
<1>4. PICK n : n = ReadLength(h, x, sz)
  OBVIOUS
<1>5. /\ x + n <= MaxPos
      /\ pos' = [pos EXCEPT ![p][d] = IF Advances(v.file) THEN x + n ELSE x]
      /\ delivered' = [delivered EXCEPT ![p][d] = IF v.file = Stdin THEN 0 ELSE delivered[p][d] + n]
  BY <1>3, <1>4 DEF ReadBlk
<1>6. Sound(tree, d, h, v, x, opened[p][d], delivered[p][d])
  BY <1>1, <1>2, <1>3 DEF AllSound
<1>7. x \in Nat /\ h \in Handles /\ v # Null /\ v.file = opened[p][d] /\ delivered[p][d] = x
      /\ v.file \in Named(tree) \union {Stdin} /\ (v.ops = "stream" <=> v.file = Stdin) /\ x <= MaxPos
  <2>1. x \in 0 .. MaxPos /\ h \in Handles
    BY <1>1, <1>2, <1>3 DEF ProcsOK
  <2> QED BY <1>1, <1>3, <1>6, <2>1 DEF Sound, HandlesOK
<1>8. v.file # Stdin => /\ v.file \in DOMAIN tree /\ File(v.file) = tree[v.file]
                        /\ tree[v.file].length \in Nat /\ Advances(v.file)
  <2> SUFFICES ASSUME v.file # Stdin
               PROVE  /\ v.file \in DOMAIN tree /\ File(v.file) = tree[v.file]
                      /\ tree[v.file].length \in Nat /\ Advances(v.file)
    OBVIOUS
  <2>1. v.file \in DOMAIN tree /\ File(v.file) = tree[v.file]
    BY <1>1, <1>7, TreeFacts DEF File
  <2>2. IsFile(tree[v.file], Len(tree)) /\ tree[v.file].kind # "stream"
    BY <1>1, <1>7, <2>1, TreeFacts DEF Named
  <2> QED BY <2>1, <2>2 DEF IsFile, Advances
<1>9. v.file = Stdin => ~Advances(v.file)
  BY StreamIsFile DEF Advances, File
<1>10. n \in Nat /\ (v.ops = "initrd" => x + n <= tree[v.file].length)
  <2>1. CASE v.ops = "initrd"
    <3>1. v.file # Stdin /\ x <= tree[v.file].length
      BY <1>1, <1>3, <1>6, <1>7, <2>1 DEF Sound
    <3>2. n = InitrdLength(tree[v.file].length, x, sz)
      BY <1>3, <1>4, <1>8, <2>1, <3>1 DEF ReadLength
    <3>3. sz + x < SizeRange
      BY <1>2, <1>7, FilesAssumption
    <3> QED BY <1>2, <1>7, <1>8, <3>1, <3>2, <3>3, InitrdLengthFacts
  <2>2. CASE v.ops \in {"zero", "stream"}
    BY <1>2, <1>3, <1>4, <2>2 DEF ReadLength
  <2>3. CASE v.ops \notin {"initrd", "zero", "stream"}
    BY <1>3, <1>4, <2>3 DEF ReadLength
  <2> QED BY <2>1, <2>2, <2>3
<1>11. KernelInv'
  <2>1. HandlesOK'
    BY <1>1, HandlesStep
  <2> QED BY <1>1, <1>2, <2>1, KernelRests
<1>12. PICK y, m : /\ y = (IF Advances(v.file) THEN x + n ELSE x)
                  /\ m = (IF v.file = Stdin THEN 0 ELSE delivered[p][d] + n)
  OBVIOUS
<1>13. y \in 0 .. MaxPos /\ m \in Nat /\ Sound(tree, d, h, v, y, opened[p][d], m)
  <2>1. x \in 0 .. MaxPos
    BY <1>1, <1>2, <1>3 DEF ProcsOK
  <2>2. CASE v.file = Stdin
    <3>1. y = x /\ m = 0 /\ x = 0
      BY <1>6, <1>7, <1>9, <1>12, <2>2, <1>1, <1>3 DEF Sound
    <3> QED BY <1>6, <2>1, <2>2, <3>1 DEF Sound
  <2>3. CASE v.file # Stdin
    <3>1. y = x + n /\ m = x + n
      BY <1>7, <1>8, <1>12, <2>3
    <3>2. y \in 0 .. MaxPos /\ m \in Nat
      BY <1>5, <1>7, <1>10, <3>1, FilesAssumption
    <3>3. d # 0
      BY <1>1, <1>3, <1>6, <2>3, <1>7 DEF Sound
    <3> QED BY <1>6, <1>7, <1>10, <2>3, <3>1, <3>2, <3>3 DEF Sound
  <2> QED BY <2>2, <2>3
<1>14. pos' = [pos EXCEPT ![p][d] = y] /\ delivered' = [delivered EXCEPT ![p][d] = m]
  BY <1>5, <1>12
<1>15. ProcsOK'
  <2>1. pos' \in [Procs -> [Descs -> 0 .. MaxPos]]
    BY <1>1, <1>13, <1>14 DEF ProcsOK
  <2>2. delivered' \in [Procs -> [Descs -> Nat]]
    BY <1>1, <1>13, <1>14 DEF ProcsOK
  <2> QED BY <1>1, <1>2, <2>1, <2>2 DEF ProcsOK
<1>16. /\ pos'[p][d] = y /\ delivered'[p][d] = m
       /\ \A q \in Procs, e \in Descs : q # p \/ e # d =>
             pos'[q][e] = pos[q][e] /\ delivered'[q][e] = delivered[q][e]
  BY <1>1, <1>2, <1>14 DEF ProcsOK
<1>17. ASSUME NEW q \in alive, NEW e \in Descs
       PROVE  Sound(tree, e, fd[q][e], hand[fd[q][e]], pos[q][e], opened[q][e], delivered[q][e])'
  <2>1. CASE q = p /\ e = d
    BY <1>1, <1>3, <1>13, <1>16, <2>1
  <2>2. CASE q # p \/ e # d
    <3>1. Sound(tree, e, fd[q][e], hand[fd[q][e]], pos[q][e], opened[q][e], delivered[q][e])
      BY <1>1, <1>2 DEF AllSound
    <3>2. q \in Procs
      BY <1>1 DEF ProcsOK
    <3> QED BY <1>1, <1>16, <2>2, <3>1, <3>2
  <2> QED BY <2>1, <2>2
<1>18. AllSound'
  BY <1>1, <1>17 DEF AllSound
<1> QED BY <1>11, <1>15, <1>18 DEF FilesIndInv, ProcsInv

\* init gets the stream as its descriptor 0, and nothing else.
LEMMA StreamsAdded ==
    ASSUME NEW t, IsTree(t), NEW u,
           u = fs_add_file(fs_add_file(fs_add_file(t, StreamFile, Root), StreamFile, Root), StreamFile, Root)
    PROVE  IsTree(u) /\ DOMAIN t \subseteq DOMAIN u /\ Named(t) \subseteq Named(u)
<1>1. PICK v, w : v = fs_add_file(t, StreamFile, Root) /\ w = fs_add_file(v, StreamFile, Root)
  OBVIOUS
<1>2. IsTree(v) /\ DOMAIN t \subseteq DOMAIN v /\ Named(t) \subseteq Named(v)
  BY <1>1, AddNames, StreamIsFile, TreeFacts
<1>3. IsTree(w) /\ DOMAIN v \subseteq DOMAIN w /\ Named(v) \subseteq Named(w)
  BY <1>1, <1>2, AddNames, StreamIsFile, TreeFacts
<1>4. u = fs_add_file(w, StreamFile, Root)
  BY <1>1
<1>5. IsTree(u) /\ DOMAIN w \subseteq DOMAIN u /\ Named(w) \subseteq Named(u)
  BY <1>3, <1>4, AddNames, StreamIsFile, TreeFacts
<1> QED BY <1>2, <1>3, <1>5

LEMMA SpawnKeeps ==
    ASSUME FilesIndInv, _spawn_init
    PROVE  FilesIndInv'
<1>1. /\ KernelInv /\ ProcsOK /\ HandlesOK /\ IsTree(tree) /\ ThreadsOK /\ Preloading /\ LockAccounted
      /\ stage = "preload" /\ kthread["kern"].at \in {"idle", "stop"} /\ stage' = "run"
      /\ alive' = {InitProc} /\ InitProc \in Procs /\ 0 \in Descs
      /\ UNCHANGED <<pos, delivered, held, kthread, misused>>
      /\ opened' = [opened EXCEPT ![InitProc][0] = Stdin]
  BY FilesAssumption DEF FilesIndInv, ProcsInv, KernelInv, _spawn_init, Descs
<1>2. PICK h, v : h = Min(FreeHandles) /\ v = [file |-> Stdin, open |-> TRUE, ops |-> "stream"]
  OBVIOUS
<1>3. hand' = [hand EXCEPT ![h] = v] /\ fd' = [fd EXCEPT ![InitProc][0] = h]
  BY <1>2 DEF _spawn_init
<1>4. h \in Handles
  <2>1. 1 \in FreeHandles
    BY <1>1, FilesAssumption DEF Preloading, FreeHandles, Handles
  <2> QED BY <1>2, <2>1, FreeHandleFacts
<1>5. v \in HandleSet(tree') /\ v.ops = "stream" /\ v.file = Stdin /\ v.open /\ v # Null
  <2>1. v \in [file : Nat \union {Stdin, Null}, open : BOOLEAN, ops : Operations]
    BY <1>2 DEF Operations
  <2> QED BY <1>2, <2>1, FilesAssumption DEF HandleSet, Operations
<1>10. IsTree(tree') /\ DOMAIN tree \subseteq DOMAIN tree' /\ Named(tree) \subseteq Named(tree)'
  BY <1>1, StreamsAdded DEF _spawn_init
<1>6. KernelInv'
  <2>1. HandlesOK'
    BY <1>1, <1>3, <1>5, <1>10, HandlesStep
  <2>2. held = {}
    <3>1. \A t \in Threads : kthread[t].at \notin {"locked", "stuck"}
      BY <1>1 DEF Preloading, Threads
    <3> QED BY <1>1, <3>1 DEF LockAccounted
  <2>3. ThreadsOK' /\ LockAccounted' /\ Preloading'
    BY <1>1, <1>10, <2>2 DEF ThreadsOK, LockAccounted, Preloading
  <2> QED BY <1>10, <2>1, <2>3 DEF KernelInv
<1>7. ProcsOK'
  <2>1. fd' \in [Procs -> [Descs -> Handles \union {Null}]]
    BY <1>1, <1>3, <1>4 DEF ProcsOK
  <2>2. opened' \in [Procs -> [Descs -> Nat \union {Stdin, Null}]]
    BY <1>1 DEF ProcsOK
  <2> QED BY <1>1, <2>1, <2>2 DEF ProcsOK
<1>8. ASSUME NEW e \in Descs
      PROVE  Sound(tree, e, fd[InitProc][e], hand[fd[InitProc][e]], pos[InitProc][e],
                   opened[InitProc][e], delivered[InitProc][e])'
  <2>1. pos'[InitProc][e] = 0 /\ delivered'[InitProc][e] = 0 /\ fd[InitProc][e] = Null
    BY <1>1 DEF ProcsOK
  <2>2. CASE e = 0
    <3>1. fd'[InitProc][e] = h /\ opened'[InitProc][e] = Stdin /\ hand'[h] = v
      BY <1>1, <1>3, <1>4, <2>2 DEF ProcsOK, HandlesOK
    <3> QED BY <1>5, <2>1, <3>1 DEF Sound
  <2>3. CASE e # 0
    <3>1. fd'[InitProc][e] = Null
      BY <1>1, <1>3, <2>1, <2>3 DEF ProcsOK
    <3> QED BY <2>3, <3>1 DEF Sound
  <2> QED BY <2>2, <2>3
<1>9. AllSound'
  BY <1>1, <1>8 DEF AllSound
<1> QED BY <1>6, <1>7, <1>9 DEF FilesIndInv, ProcsInv

\* The steps that change the program's DIR, or the links of a list, or stop the kernel.
LEMMA RestKeeps ==
    ASSUME FilesIndInv, UNCHANGED <<tree, hand, alive, tables, held, kthread, stage, misused>>
    PROVE  FilesIndInv'
<1>1. UNCHANGED <<tree, hand, alive, fd, pos, opened, delivered, held, kthread, stage, misused>>
  BY DEF tables
<1>2. KernelInv'
  BY <1>1 DEF FilesIndInv, KernelInv, ThreadsOK, Preloading, LockAccounted, HandlesOK
<1>3. ProcsInv'
  BY <1>1 DEF FilesIndInv, ProcsInv, ProcsOK, AllSound
<1> QED BY <1>2, <1>3 DEF FilesIndInv

-----------------------------------------------------------------------------
(* The invariant holds.                                                     *)

LEMMA InitKeeps == Init => FilesIndInv
<1> SUFFICES ASSUME Init PROVE FilesIndInv
  OBVIOUS
<1>1. IsTree(tree)
  BY MountIn DEF Init, Fresh
<1>2. ThreadsOK
  BY DEF Init, ThreadsOK, Idle, IsThread
<1>3. Preloading /\ LockAccounted
  BY DEF Init, Preloading, LockAccounted, Idle, Threads
<1>4. HandlesOK
  BY DEF Init, HandlesOK
<1>5. ProcsOK
  <2>1. /\ fd = [p \in Procs |-> [d \in Descs |-> Null]] /\ pos = [p \in Procs |-> [d \in Descs |-> 0]]
        /\ opened = fd /\ delivered = pos /\ alive = {} /\ misused = FALSE /\ 0 \in 0 .. MaxPos
    BY FilesAssumption DEF Init
  <2>2. \A p \in Procs, d \in Descs : fd[p][d] = Null /\ pos[p][d] = 0 /\ delivered[p][d] = 0
    BY <2>1
  <2>3. /\ fd \in [Procs -> [Descs -> Handles \union {Null}]] /\ pos \in [Procs -> [Descs -> 0 .. MaxPos]]
    BY <2>1
  <2>4. /\ opened \in [Procs -> [Descs -> Nat \union {Stdin, Null}]] /\ delivered \in [Procs -> [Descs -> Nat]]
    BY <2>1
  <2>5. alive \subseteq Procs /\ misused \in BOOLEAN /\ alive = {}
    BY <2>1
  <2> QED BY <2>2, <2>3, <2>4, <2>5 DEF ProcsOK
<1>6. AllSound
  BY DEF Init, AllSound
<1> QED BY <1>1, <1>2, <1>3, <1>4, <1>5, <1>6 DEF FilesIndInv, KernelInv, ProcsInv

LEMMA StepKeeps == FilesIndInv /\ [Next]_vars => FilesIndInv'
<1> SUFFICES ASSUME FilesIndInv, [Next]_vars PROVE FilesIndInv'
  OBVIOUS
<1>1. ASSUME NEW t \in Threads, KernelStep(t) PROVE FilesIndInv'
  <2>1. KernelInv /\ ProcsInv
    BY DEF FilesIndInv
  <2>2. CASE KLink(t) \/ HalfLinked(t)
    BY <2>2, RestKeeps DEF KLink, HalfLinked, procs, kernel
  <2>3. CASE ~(KLink(t) \/ HalfLinked(t))
    <3>1. KernelInv'
      BY <1>1, <2>1, <2>3, KOpenKeeps, KReleaseKeeps, KReadFileKeeps, KInstallKeeps, KOpsKeeps, KDoneKeeps DEF KernelStep
    <3>2. stage # "run" /\ UNCHANGED <<procs, stage, misused>>
      <4>1. Runs(t) /\ UNCHANGED <<procs, stage, misused>>
        BY <1>1, <2>3, Zenon DEF KernelStep, KOpen, KRelease, KReadFile, KInstall, KOps, KDone
      <4> QED BY <2>1, <4>1, RunsFacts DEF KernelInv
    <3> QED BY <2>1, <3>1, <3>2, NoProcs DEF FilesIndInv
  <2> QED BY <2>2, <2>3
<1>2. CASE KStream \/ fs_opendir \/ fs_readdir \/ ListDone
  <2>1. KernelInv /\ ProcsInv
    BY DEF FilesIndInv
  <2>2. stage # "run" /\ UNCHANGED <<procs, stage, misused>>
    <3>1. Runs("kterm") /\ UNCHANGED <<procs, stage, misused>>
      BY <1>2, Zenon DEF KStream, fs_opendir, fs_readdir, ListDone
    <3> QED BY <3>1 DEF Runs
  <2> QED BY <1>2, <2>1, <2>2, KStreamKeeps, ListKeeps, NoProcs DEF FilesIndInv
<1>3. CASE _spawn_init
  BY <1>3, SpawnKeeps
<1>4. ASSUME NEW p \in Procs, ProcCall(p) PROVE FilesIndInv'
  <2>1. ASSUME NEW r \in Requests, Open(p, r) PROVE FilesIndInv'
    <3>1. PICK f, chain : /\ f = Lookup(r) /\ Checked(r, f) /\ chain = Chain(f)
                          /\ \/ OpenNew(p, r, chain) \/ OpenZero(p, r, chain)
                             \/ OpenLoop(p, r, chain) \/ OpenDangling(p, r, chain)
      BY <2>1 DEF Open
    <3>2. CASE OpenLoop(p, r, chain)
      BY <3>2, RestKeeps DEF OpenLoop, kernel
    <3> QED BY <3>1, <3>2, OpenNewKeeps, OpenZeroKeeps, OpenDanglingKeeps
  <2>2. ASSUME NEW d \in Descs, Close(p, d) \/ Opendir(p, d) \/ NullPointer(p, d) PROVE FilesIndInv'
    <3>1. CASE Opendir(p, d) \/ NullPointer(p, d)
      BY <3>1, RestKeeps DEF Opendir, NullPointer, kernel
    <3> QED BY <2>2, <3>1, CloseKeeps
  <2>3. ASSUME NEW d \in Descs, NEW sz \in ReadSizes, ReadBlk(p, d, sz) PROVE FilesIndInv'
    BY <2>3, ReadBlkKeeps
  <2>4. ASSUME NEW c \in Procs, Fork(p, c) PROVE FilesIndInv'
    BY <2>4, ForkKeeps
  <2>5. CASE Exec(p) \/ proc_fs_readdir(p) \/ \E word \in Beside : StrayCall(p, word)
    BY <2>5, RestKeeps DEF Exec, proc_fs_readdir, StrayCall, kernel
  <2>6. CASE Exit(p)
    BY <2>6, ExitKeeps
  <2> QED BY <1>4, <2>1, <2>2, <2>3, <2>4, <2>5, <2>6 DEF ProcCall
<1>5. CASE UNCHANGED vars
  BY <1>5, RestKeeps DEF vars, procs, kernel
<1> QED BY <1>1, <1>2, <1>3, <1>4, <1>5 DEF Next

LEMMA FilesInvariant == Spec => []FilesIndInv
<1> QED BY InitKeeps, StepKeeps, PTL DEF Spec

\* A file's lock is taken only while a thread is inside the file's open, or has to wait
\* for it: _open releases it on all its ways out, for every archive, every list of modules
\* and every interleaving of kernel_task and kterm; and none is taken when init starts.
THEOREM LocksReturned == Spec => []LockAccounted
<1>1. FilesIndInv => LockAccounted
  BY DEF FilesIndInv, KernelInv
<1> QED BY <1>1, FilesInvariant, PTL

\* What a process has read through a descriptor is where the descriptor is, and inside the
\* file, whatever is opened, closed, inherited and read in whatever order.
THEOREM PositionsCorrect == Spec => []PositionIsRead
<1>1. FilesIndInv => PositionIsRead
  BY DEF FilesIndInv, ProcsInv, AllSound, Sound, PositionIsRead
<1> QED BY <1>1, FilesInvariant, PTL

\* Until a handle is freed that is still in a table, every descriptor leads to a live
\* handle that is open on the file it was opened on.
THEOREM DescriptorsCorrect == Spec => []DescriptorsSound
<1>1. FilesIndInv => DescriptorsSound
  BY DEF FilesIndInv, ProcsInv, AllSound, Sound, DescriptorsSound
<1> QED BY <1>1, FilesInvariant, PTL

\* The tree stays a tree, handles and descriptors have their types and only files are
\* locked, whatever paths are looked up.
THEOREM FilesTyped == Spec => []TypeOK
<1>1. ASSUME FilesIndInv PROVE TypeOK
  <2>1. \A f \in DOMAIN tree \ {Root} : tree[f].parent \in DOMAIN tree
    BY <1>1, TreeFacts DEF FilesIndInv, KernelInv, IsFile
  <2> QED BY <1>1, <2>1 DEF FilesIndInv, KernelInv, HandlesOK, HandleSet, ProcsInv, ProcsOK, ThreadsOK, TypeOK
<1> QED BY <1>1, FilesInvariant, PTL

-----------------------------------------------------------------------------
(* Links, and files read whole.                                             *)

\* The tree that is mounted; links in a tree and what they lead to.
Mounted == initrd_mount(fs_init, Archive)
LinkIn(t, f) == f # Null /\ f # Stdin /\ t[f].ops = "initrd" /\ t[f].kind = "symlink"
LinkTo(t, f) == fs_find_file(t, t[f].parent, t[f].target)

\* Tree u is t with files added, devices and no links, and perhaps links followed or
\* operations set.
Extends(t, u) ==
    /\ Len(t) <= Len(u)
    /\ \A f \in DOMAIN t :
          /\ u[f].name = t[f].name /\ u[f].parent = t[f].parent /\ u[f].kind = t[f].kind
          /\ u[f].length = t[f].length /\ u[f].target = t[f].target
          /\ u[f].ops = "initrd" <=> t[f].ops = "initrd"
    /\ \A f \in DOMAIN u \ DOMAIN t : u[f].ops # "initrd" /\ u[f].length = 0 /\ u[f].link = Null

\* Only files of the archive have a length, and a link that has been followed leads to
\* where opening it leads.
TreeInv(t) ==
    /\ Extends(Mounted, t)
    /\ \A f \in DOMAIN t : t[f].ops = "initrd" \/ t[f].length = 0
    /\ \A f \in DOMAIN t : t[f].link # Null => LinkIn(t, f) /\ t[f].link = LinkTo(t, f)

\* A link that has been followed leads to one that has not been.  That is so while
\* kernel_task k is at the second one, and when that one leads nowhere.
Dangling(t, g) == t[g].link # Null /\ LinkIn(t, t[g].link) /\ t[t[g].link].link = Null
FollowedUp(t, st, k) ==
    \A g \in DOMAIN t : Dangling(t, g) =>
        \/ st = "preload" /\ k.at \in {"locked", "stuck"} /\ k.file = t[g].link
        \/ (k.at = "stop" \/ st = "run") /\ LinkTo(t, t[g].link) = Null

\* What a kernel thread that works on a file has in hand, with handle h.
Working == {"locked", "stuck", "open", "ops", "loaded"}
InHand(t, k, h) ==
    k.at \in Working =>
        /\ k.hand \in Handles /\ h # Null /\ k.file \in DOMAIN t
        /\ k.at = "open" => h.file = k.file /\ ~LinkIn(t, k.file) /\ (h.ops = "initrd" \/ t[k.file].length = 0)
        /\ k.at = "ops" => Loads[t[k.file].name] # "list" /\ t[k.file].ops # "initrd"
        /\ k.at = "loaded" /\ Loads[t[k.file].name] = "list" =>
              h.file \in DOMAIN t /\ k.read = t[h.file].length
OwnHandles ==
    \A t, u \in Threads :
        t # u /\ kthread[t].at \in Working /\ kthread[u].at \in Working => kthread[t].hand # kthread[u].hand
Resting == stage = "run" => kthread["kern"].at \in {"idle", "stop"} /\ kthread["kterm"].at = "start"

LinksInv ==
    /\ TreeInv(tree)
    /\ stage # "kterm" => FollowedUp(tree, stage, kthread["kern"])
    /\ \A t \in Threads : InHand(tree, kthread[t], hand[kthread[t].hand])
    /\ OwnHandles /\ Resting

\* Every link of the archive is found in the root, under its name.
LinksNamed ==
    \A f \in DOMAIN Mounted :
        LinkIn(Mounted, f) => fs_find_file(Mounted, Root, <<Sep>> \o Mounted[f].name) = f

-----------------------------------------------------------------------------
(* Look-up in a tree that grows.                                            *)

\* Files that are added come after those that are there: what was found is found.
LEMMA FinddirGrows ==
    ASSUME NEW t, IsTree(t), NEW u, IsTree(u), Extends(t, u), NEW d, NEW name,
           fs_finddir(t, d, name) # Null
    PROVE  fs_finddir(u, d, name) = fs_finddir(t, d, name)
<1> DEFINE old == {f \in DOMAIN t : t[f].parent = d /\ t[f].name = name}
           new == {f \in DOMAIN u : u[f].parent = d /\ u[f].name = name}
<1>1. /\ DOMAIN t = 1..Len(t) /\ DOMAIN u = 1..Len(u) /\ Len(t) \in Nat /\ Len(u) \in Nat /\ Len(t) <= Len(u)
  BY TreeFacts DEF Extends
<1>2. old # {} /\ d # Null /\ fs_finddir(t, d, name) = Min(old)
  BY DEF fs_finddir
<1>3. old \in SUBSET Nat /\ new \in SUBSET Nat /\ old \subseteq new
  BY <1>1 DEF Extends
<1>4. ASSUME NEW y \in new PROVE y \in old \/ \A x \in old : x < y
  <2>1. CASE y \in DOMAIN t
    BY <2>1 DEF Extends
  <2>2. CASE y \notin DOMAIN t
    BY <1>1, <2>2
  <2> QED BY <2>1, <2>2
<1>5. fs_finddir(u, d, name) = Min(new)
  BY <1>2, <1>3 DEF fs_finddir
<1> HIDE DEF old, new
<1>6. Min(old) \in old /\ (\A y \in old : Min(old) <= y) /\ Min(new) \in new /\ \A y \in new : Min(new) <= y
  BY <1>2, <1>3, MinFacts
<1>7. PICK a, b : a = Min(old) /\ b = Min(new)
  OBVIOUS
<1>8. a \in Nat /\ b \in Nat /\ b <= a /\ (a <= b \/ a < b)
  BY <1>3, <1>4, <1>6, <1>7
<1> QED BY <1>2, <1>5, <1>7, <1>8

\* A call that does not end with nothing does the same.
Lost(w) == w.done /\ w.file = Null
LEMMA CallGrows ==
    ASSUME NEW t, IsTree(t), NEW u, IsTree(u), Extends(t, u), NEW path, Len(path) \in Nat,
           NEW w \in CallSet(t), ~ Lost(Call(t, path, w))
    PROVE  Call(u, path, w) = Call(t, path, w)
<1>1. CASE w.done
  BY <1>1 DEF Call
<1>2. CASE ~ w.done
  <2>1. PICK start, i : start = w.file /\ i = w.at
    OBVIOUS
  <2>2. PICK f : f = IF start = Null THEN Root ELSE start
    OBVIOUS
  <2>3. f \in DOMAIN t
    BY <2>1, <2>2, TreeFacts DEF CallSet
  <2> DEFINE end == Len(path)
             Skip(dir, j) == IF j > end THEN Found(dir)
                             ELSE GoOn(dir, IF path[j] = Sep THEN j + 1 ELSE j)
             sep == NextSep(path, i)
             name == SubSeq(path, i, sep - 1)
             Step(parent, down) ==
                 IF i > end THEN Found(Null)
                 ELSE IF path[i] = Dot /\ i < end /\ path[i + 1] = Dot
                      THEN Skip(parent, i + 2)
                 ELSE IF path[i] = Dot THEN Skip(f, i + 1)
                 ELSE IF path[i] = Sep
                      THEN IF i = end THEN Found(Root) ELSE GoOn(Root, i + 1)
                 ELSE IF sep > end \/ down = Null THEN Found(down)
                 ELSE GoOn(down, sep + 1)
  <2>4. Call(t, path, w) = Step(t[f].parent, fs_finddir(t, f, name))
    BY <1>2, <2>1, <2>2 DEF Call, FindStep
  <2>5. Call(u, path, w) = Step(u[f].parent, fs_finddir(u, f, name))
    BY <1>2, <2>1, <2>2 DEF Call, FindStep
  <2>6. u[f].parent = t[f].parent
    BY <2>3 DEF Extends
  <2>7. PICK a, b : a = fs_finddir(t, f, name) /\ b = fs_finddir(u, f, name)
    OBVIOUS
  <2>8. CASE a # Null
    <3>1. a = b
      BY <2>7, <2>8, FinddirGrows
    <3> QED BY <2>4, <2>5, <2>6, <2>7, <3>1
  <2>9. CASE a = Null
    <3>1. PICK p : p = t[f].parent
      OBVIOUS
    <3>2. Step(p, a) = Call(t, path, w) /\ Step(p, b) = Call(u, path, w)
      BY <2>4, <2>5, <2>6, <2>7, <3>1
    <3>3. Lost(Found(Null))
      BY DEF Lost, Found
    <3>4. Step(p, a) # Found(Null)
      BY <3>2, <3>3
    <3> HIDE DEF sep, Skip, end, name
    <3>5. Step(p, a) = Step(p, b)
      BY <2>9, <3>4
    <3> QED BY <3>2, <3>5
  <2> QED BY <2>8, <2>9
<1> QED BY <1>1, <1>2

LEMMA NamedGrows ==
    ASSUME NEW t, IsTree(t), NEW u, IsTree(u), Extends(t, u)
    PROVE  Named(t) \subseteq Named(u) /\ DOMAIN t \subseteq DOMAIN u
BY TreeFacts DEF Extends, Named

\* So does fs_find_file, call after call.
LEMMA FindGrows ==
    ASSUME NEW t, IsTree(t), NEW u, IsTree(u), Extends(t, u),
           NEW start \in Named(t) \union {Null}, NEW path, Len(path) \in Nat,
           fs_find_file(t, start, path) # Null
    PROVE  fs_find_file(u, start, path) = fs_find_file(t, start, path)
<1>1. start \in Named(u) \union {Null}
  BY NamedGrows
<1>2. PICK N : N = Len(path) + 1
  OBVIOUS
<1>3. PICK w : Walks(t, start, path, w) /\ fs_find_file(t, start, path) = w[N].file
  BY <1>2, WalkIs
<1>4. PICK x : Walks(u, start, path, x) /\ fs_find_file(u, start, path) = x[N].file
  BY <1>1, <1>2, WalkIs
<1>5. PICK good, yes : /\ good = [n \in 0..N |-> IF x[n] = w[n] \/ Lost(w[n]) THEN 1 ELSE 0]
                       /\ yes = {1}
  OBVIOUS
<1>6. N \in Nat /\ 0 \in 0..N /\ N \in 0..N /\ \A n \in 1..N : n \in 0..N /\ n - 1 \in 0..N
  BY <1>2
<1>7. good[0] \in yes
  BY <1>3, <1>4, <1>5, <1>6 DEF Walks
<1>8. ASSUME NEW n \in 1..N, good[n - 1] \in yes PROVE good[n] \in yes
  <2>1. /\ w[n] = Call(t, path, w[n - 1]) /\ x[n] = Call(u, path, x[n - 1]) /\ w[n - 1] \in CallSet(t)
    BY <1>2, <1>3, <1>4, <1>6 DEF Walks
  <2>2. CASE Lost(w[n - 1])
    <3>1. w[n] = w[n - 1]
      BY <2>1, <2>2 DEF Lost, Call
    <3> QED BY <1>5, <1>6, <2>2, <3>1
  <2>3. CASE x[n - 1] = w[n - 1]
    <3>1. CASE Lost(w[n])
      BY <1>5, <1>6, <3>1
    <3>2. CASE ~ Lost(w[n])
      <4>1. x[n] = w[n]
        BY <2>1, <2>3, <3>2, CallGrows
      <4> QED BY <1>5, <1>6, <4>1
    <3> QED BY <3>1, <3>2
  <2>4. x[n - 1] = w[n - 1] \/ Lost(w[n - 1])
    BY <1>5, <1>6, <1>8
  <2> QED BY <2>2, <2>3, <2>4
<1>9. good[N] \in yes
  <2>1. \A n \in 0..N : good[n] \in yes
    BY <1>6, <1>7, <1>8, Stays
  <2> QED BY <1>6, <2>1
<1>10. x[N] = w[N] \/ Lost(w[N])
  BY <1>5, <1>6, <1>9
<1> QED BY <1>3, <1>4, <1>10 DEF Lost

\* What a link leads to stays, when there is something.
LEMMA LinkToGrows ==
    ASSUME NEW t, IsTree(t), NEW u, IsTree(u), Extends(t, u), NEW f \in DOMAIN t, LinkTo(t, f) # Null
    PROVE  LinkTo(u, f) = LinkTo(t, f)
<1>1. PICK parent, target : parent = t[f].parent /\ target = t[f].target
  OBVIOUS
<1>2. parent \in Named(t) \union {Null} /\ Len(target) \in Nat
  BY <1>1, TreeFacts DEF IsFile
<1>3. u[f].parent = parent /\ u[f].target = target
  BY <1>1 DEF Extends
<1> QED BY <1>1, <1>2, <1>3, FindGrows DEF LinkTo

LEMMA LinkToIn ==
    ASSUME NEW t, IsTree(t), NEW f \in DOMAIN t
    PROVE  LinkTo(t, f) \in Named(t) \union {Null} /\ LinkTo(t, f) \in DOMAIN t \union {Null}
<1>1. t[f].parent \in Named(t) \union {Null} /\ Len(t[f].target) \in Nat
  BY TreeFacts DEF IsFile
<1> QED BY <1>1, FindFileIn DEF LinkTo

\* The tree t becomes u: files may be added and links followed.
LinkStep(t, u, f) == u[f].link = t[f].link \/ (LinkIn(t, f) /\ u[f].link = LinkTo(t, f))
LEMMA TreeSteps ==
    ASSUME NEW t, IsTree(t), NEW u, IsTree(u), TreeInv(t), Extends(t, u),
           \A f \in DOMAIN t : LinkStep(t, u, f)
    PROVE  TreeInv(u) /\ \A f \in DOMAIN t : t[f].link # Null => u[f].link = t[f].link
<1>0. /\ DOMAIN t = 1..Len(t) /\ DOMAIN u = 1..Len(u) /\ Len(t) \in Nat /\ Len(u) \in Nat
      /\ IsTree(Mounted)
  BY TreeFacts, MountIn DEF Mounted, Fresh
<1>1. Extends(Mounted, u)
  <2>1. /\ Len(Mounted) \in Nat /\ DOMAIN Mounted = 1..Len(Mounted)
    BY <1>0, TreeFacts
  <2>2. Len(Mounted) <= Len(t) /\ Len(t) <= Len(u)
    BY DEF TreeInv, Extends
  <2>3. Len(Mounted) <= Len(u) /\ DOMAIN Mounted \subseteq DOMAIN t
    BY <1>0, <2>1, <2>2
  <2>4. ASSUME NEW f \in DOMAIN Mounted
        PROVE  /\ u[f].name = Mounted[f].name /\ u[f].parent = Mounted[f].parent /\ u[f].kind = Mounted[f].kind
               /\ u[f].length = Mounted[f].length /\ u[f].target = Mounted[f].target
               /\ u[f].ops = "initrd" <=> Mounted[f].ops = "initrd"
    BY <2>3 DEF TreeInv, Extends
  <2>5. ASSUME NEW f \in DOMAIN u \ DOMAIN Mounted
        PROVE  u[f].ops # "initrd" /\ u[f].length = 0 /\ u[f].link = Null
    <3>1. CASE f \in DOMAIN t
      <4>1. t[f].ops # "initrd" /\ t[f].length = 0 /\ t[f].link = Null
        BY <3>1 DEF TreeInv, Extends
      <4>2. u[f].ops # "initrd" /\ u[f].length = 0
        BY <3>1, <4>1 DEF Extends
      <4> QED BY <3>1, <4>1, <4>2 DEF LinkStep, LinkIn
    <3>2. CASE f \notin DOMAIN t
      BY <3>2 DEF Extends
    <3> QED BY <3>1, <3>2
  <2> QED BY <2>3, <2>4, <2>5 DEF Extends
<1>2. \A f \in DOMAIN u : u[f].ops = "initrd" \/ u[f].length = 0
  BY DEF TreeInv, Extends
<1>3. ASSUME NEW f \in DOMAIN u, u[f].link # Null
      PROVE  f \in DOMAIN t /\ LinkIn(t, f) /\ LinkIn(u, f) /\ u[f].link = LinkTo(t, f) /\ u[f].link = LinkTo(u, f)
  <2>1. f \in DOMAIN t
    BY <1>3 DEF Extends
  <2>2. LinkIn(t, f) /\ u[f].link = LinkTo(t, f)
    BY <1>3, <2>1 DEF LinkStep, TreeInv
  <2>3. LinkIn(u, f)
    BY <2>1, <2>2 DEF Extends, LinkIn
  <2>4. LinkTo(u, f) = LinkTo(t, f)
    BY <1>3, <2>1, <2>2, LinkToGrows
  <2> QED BY <2>1, <2>2, <2>3, <2>4
<1>4. ASSUME NEW f \in DOMAIN t, t[f].link # Null PROVE u[f].link = t[f].link
  BY <1>4 DEF TreeInv, LinkStep
<1> QED BY <1>1, <1>2, <1>3, <1>4 DEF TreeInv

\* A tree of the same size: look-up finds the same, or nothing in both.
LEMMA LinkToSame ==
    ASSUME NEW t, IsTree(t), NEW u, IsTree(u), Extends(t, u), Len(u) = Len(t), NEW f \in DOMAIN t
    PROVE  LinkTo(u, f) = LinkTo(t, f)
<1>1. Extends(u, t) /\ f \in DOMAIN u
  BY TreeFacts DEF Extends
<1>2. CASE LinkTo(t, f) # Null
  BY <1>2, LinkToGrows
<1>3. CASE LinkTo(u, f) # Null
  BY <1>1, <1>3, LinkToGrows
<1> QED BY <1>2, <1>3

\* What leads to a link that has not been followed did so before, unless it is new.
LEMMA DanglingBefore ==
    ASSUME NEW t, IsTree(t), NEW u, IsTree(u), TreeInv(t), Extends(t, u),
           \A f \in DOMAIN t : LinkStep(t, u, f),
           NEW g \in DOMAIN u, Dangling(u, g)
    PROVE  /\ g \in DOMAIN t /\ u[g].link \in DOMAIN t /\ u[g].link = LinkTo(t, g) /\ LinkIn(t, g)
           /\ LinkIn(t, u[g].link) /\ t[u[g].link].link = Null
           /\ t[g].link # Null => t[g].link = u[g].link /\ Dangling(t, g)
<1>1. PICK n : n = u[g].link
  OBVIOUS
<1>2. n # Null /\ LinkIn(u, n) /\ u[n].link = Null
  BY <1>1 DEF Dangling
<1>3. g \in DOMAIN t
  BY <1>1, <1>2 DEF Extends
<1>4. LinkIn(t, g) /\ n = LinkTo(t, g)
  BY <1>1, <1>2, <1>3 DEF LinkStep, TreeInv
<1>5. n \in DOMAIN t
  BY <1>2, <1>3, <1>4, LinkToIn
<1>6. LinkIn(t, n)
  BY <1>2, <1>5 DEF Extends, LinkIn
<1>7. t[n].link = Null
  BY <1>2, <1>5, TreeSteps
<1>8. t[g].link # Null => t[g].link = n
  BY <1>1, <1>3, TreeSteps
<1> QED BY <1>1, <1>2, <1>3, <1>4, <1>5, <1>6, <1>7, <1>8 DEF Dangling

\* Adding a file, and changing what look-up does not see, extends a tree.
LEMMA AddExtends ==
    ASSUME NEW t, IsTree(t), NEW file, IsFile(file, Len(t)), NEW d \in Named(t),
           file.ops # "initrd", file.length = 0, file.link = Null,
           NEW u, u = fs_add_file(t, file, d)
    PROVE  /\ IsTree(u) /\ Extends(t, u) /\ Len(u) = Len(t) + 1 /\ Len(t) + 1 \in DOMAIN u
           /\ u[Len(t) + 1].name = file.name /\ u[Len(t) + 1].ops # "initrd"
           /\ \A f \in DOMAIN t : u[f] = t[f]
<1>1. /\ IsTree(u) /\ Len(u) = Len(t) + 1 /\ Len(t) + 1 \in DOMAIN u
      /\ \A f \in DOMAIN u : f \in DOMAIN t \/ f = Len(t) + 1
      /\ \A f \in DOMAIN t : u[f] = t[f]
      /\ u[Len(t) + 1] = [file EXCEPT !.parent = d]
  BY AddFileIn
<1>2. PICK e, n : e = [file EXCEPT !.parent = d] /\ n = Len(t) + 1
  OBVIOUS
<1>3. e.ops # "initrd" /\ e.length = 0 /\ e.link = Null /\ e.name = file.name
  BY <1>2 DEF IsFile, FileFields
<1>4. Len(t) <= Len(u)
  BY <1>1, TreeFacts
<1>5. Extends(t, u)
  BY <1>1, <1>2, <1>3, <1>4 DEF Extends
<1> QED BY <1>1, <1>2, <1>3, <1>5

\* Tree u is t with streams added.
Streams(t, u) ==
    /\ Extends(t, u) /\ \A f \in DOMAIN t : u[f] = t[f]
    /\ \A f \in DOMAIN u \ DOMAIN t : u[f].kind = "stream" /\ u[f].name = <<>> /\ u[f].parent = Root
LEMMA StreamAdded ==
    ASSUME NEW t, IsTree(t), NEW u, u = fs_add_file(t, StreamFile, Root)
    PROVE  IsTree(u) /\ Streams(t, u)
<1>1. /\ IsFile(StreamFile, Len(t)) /\ Root \in Named(t)
      /\ StreamFile.ops # "initrd" /\ StreamFile.length = 0 /\ StreamFile.link = Null
  BY StreamIsFile, TreeFacts DEF StreamFile, RootFile
<1>2. IsTree(u) /\ Extends(t, u) /\ \A f \in DOMAIN t : u[f] = t[f]
  BY <1>1, AddExtends
<1>3. ASSUME NEW f \in DOMAIN u, f \notin DOMAIN t PROVE u[f] = [StreamFile EXCEPT !.parent = Root]
  BY <1>1, <1>3, AddFileIn
<1>4. /\ [StreamFile EXCEPT !.parent = Root].kind = "stream" /\ [StreamFile EXCEPT !.parent = Root].name = <<>>
      /\ [StreamFile EXCEPT !.parent = Root].parent = Root
  BY DEF StreamFile, RootFile
<1> QED BY <1>2, <1>3, <1>4 DEF Streams

LEMMA StreamsJoin ==
    ASSUME NEW t, IsTree(t), NEW v, IsTree(v), NEW u, IsTree(u), Streams(t, v), Streams(v, u)
    PROVE  Streams(t, u)
<1>1. /\ Len(t) \in Nat /\ Len(v) \in Nat /\ Len(u) \in Nat
      /\ DOMAIN t = 1..Len(t) /\ DOMAIN v = 1..Len(v) /\ DOMAIN u = 1..Len(u)
  BY TreeFacts
<1>2. Len(t) <= Len(v) /\ Len(v) <= Len(u)
  BY DEF Streams, Extends
<1>3. DOMAIN t \subseteq DOMAIN v /\ DOMAIN v \subseteq DOMAIN u /\ Len(t) <= Len(u)
  BY <1>1, <1>2
<1>4. \A f \in DOMAIN t : u[f] = t[f]
  BY <1>3 DEF Streams
<1>5. ASSUME NEW f \in DOMAIN u, f \notin DOMAIN t
      PROVE  /\ u[f].kind = "stream" /\ u[f].name = <<>> /\ u[f].parent = Root
             /\ u[f].ops # "initrd" /\ u[f].length = 0 /\ u[f].link = Null
  <2>1. CASE f \in DOMAIN v
    <3>1. /\ v[f].kind = "stream" /\ v[f].name = <<>> /\ v[f].parent = Root
          /\ v[f].ops # "initrd" /\ v[f].length = 0 /\ v[f].link = Null /\ u[f] = v[f]
      BY <1>5, <2>1 DEF Streams, Extends
    <3> QED BY <3>1
  <2>2. CASE f \notin DOMAIN v
    BY <2>2 DEF Streams, Extends
  <2> QED BY <2>1, <2>2
<1>6. Extends(t, u)
  BY <1>3, <1>4, <1>5 DEF Extends
<1> QED BY <1>4, <1>5, <1>6 DEF Streams

LEMMA SpawnStreams ==
    ASSUME IsTree(tree), _spawn_init
    PROVE  IsTree(tree') /\ Streams(tree, tree')
<1>1. PICK v, w : v = fs_add_file(tree, StreamFile, Root) /\ w = fs_add_file(v, StreamFile, Root)
  OBVIOUS
<1>2. tree' = fs_add_file(w, StreamFile, Root)
  BY <1>1 DEF _spawn_init
<1>3. IsTree(v) /\ Streams(tree, v)
  BY <1>1, StreamAdded
<1>4. IsTree(w) /\ Streams(v, w)
  BY <1>1, <1>3, StreamAdded
<1>5. IsTree(tree') /\ Streams(w, tree')
  BY <1>2, <1>4, StreamAdded
<1>6. Streams(tree, w)
  BY <1>3, <1>4, StreamsJoin
<1> QED BY <1>4, <1>5, <1>6, StreamsJoin

\* Look-up does not see streams.
LEMMA NextNamed ==
    ASSUME NEW path, Len(path) \in Nat, NEW i \in Nat, i <= Len(path), path[i] # Sep
    PROVE  SubSeq(path, i, NextSep(path, i) - 1) # <<>>
<1>1. PICK sep : sep = NextSep(path, i)
  OBVIOUS
<1>2. sep \in Nat /\ sep > i
  <2> DEFINE seps == {j \in i .. Len(path) : path[j] = Sep} \union {Len(path) + 1}
  <2>1. seps \in SUBSET Nat /\ seps # {} /\ \A j \in seps : j > i
    OBVIOUS
  <2>2. Min(seps) \in seps
    <3> HIDE DEF seps
    <3> QED BY <2>1, MinFacts
  <2> QED BY <1>1, <2>1, <2>2 DEF NextSep
<1>3. PICK s : s = SubSeq(path, i, sep - 1)
  OBVIOUS
<1>4. Len(s) > 0
  BY <1>2, <1>3
<1>5. s # <<>>
  BY <1>4
<1> QED BY <1>1, <1>3, <1>5

LEMMA FinddirSame ==
    ASSUME NEW t, IsTree(t), NEW u, IsTree(u), Streams(t, u), NEW d, NEW name, name # <<>>
    PROVE  fs_finddir(u, d, name) = fs_finddir(t, d, name)
<1>1. DOMAIN t \subseteq DOMAIN u
  BY NamedGrows DEF Streams
<1>2. {f \in DOMAIN u : u[f].parent = d /\ u[f].name = name} = {f \in DOMAIN t : t[f].parent = d /\ t[f].name = name}
  BY <1>1 DEF Streams
<1> QED BY <1>2 DEF fs_finddir

LEMMA CallSame ==
    ASSUME NEW t, IsTree(t), NEW u, IsTree(u), Streams(t, u), NEW path, Len(path) \in Nat,
           NEW w \in CallSet(t)
    PROVE  Call(u, path, w) = Call(t, path, w)
<1>1. CASE w.done
  BY <1>1 DEF Call
<1>2. CASE ~ w.done
  <2>1. PICK start, i : start = w.file /\ i = w.at
    OBVIOUS
  <2>2. PICK f : f = IF start = Null THEN Root ELSE start
    OBVIOUS
  <2>3. f \in DOMAIN t /\ i \in Nat
    BY <2>1, <2>2, TreeFacts DEF CallSet
  <2> DEFINE end == Len(path)
             Skip(dir, j) == IF j > end THEN Found(dir)
                             ELSE GoOn(dir, IF path[j] = Sep THEN j + 1 ELSE j)
             sep == NextSep(path, i)
             name == SubSeq(path, i, sep - 1)
             Step(parent, down) ==
                 IF i > end THEN Found(Null)
                 ELSE IF path[i] = Dot /\ i < end /\ path[i + 1] = Dot
                      THEN Skip(parent, i + 2)
                 ELSE IF path[i] = Dot THEN Skip(f, i + 1)
                 ELSE IF path[i] = Sep
                      THEN IF i = end THEN Found(Root) ELSE GoOn(Root, i + 1)
                 ELSE IF sep > end \/ down = Null THEN Found(down)
                 ELSE GoOn(down, sep + 1)
  <2>4. Call(t, path, w) = Step(t[f].parent, fs_finddir(t, f, name))
    BY <1>2, <2>1, <2>2 DEF Call, FindStep
  <2>5. Call(u, path, w) = Step(u[f].parent, fs_finddir(u, f, name))
    BY <1>2, <2>1, <2>2 DEF Call, FindStep
  <2>6. u[f].parent = t[f].parent
    BY <2>3 DEF Streams
  <2>7. PICK a, b : a = fs_finddir(t, f, name) /\ b = fs_finddir(u, f, name)
    OBVIOUS
  <2>8. PICK p : p = t[f].parent
    OBVIOUS
  <2>9. CASE i > end \/ path[i] = Sep
    <3> HIDE DEF sep, name
    <3>1. Step(p, a) = Step(p, b)
      BY <2>9
    <3> QED BY <2>4, <2>5, <2>6, <2>7, <2>8, <3>1
  <2>10. CASE ~(i > end) /\ path[i] # Sep
    <3>0. i <= Len(path) /\ path[i] # Sep
      BY <2>3, <2>10
    <3>1. name # <<>>
      <4>1. SubSeq(path, i, NextSep(path, i) - 1) # <<>>
        BY <2>3, <3>0, NextNamed
      <4> QED BY <4>1, Zenon
    <3>2. PICK s : s = name
      OBVIOUS
    <3>3. a = fs_finddir(t, f, s) /\ b = fs_finddir(u, f, s)
      BY <2>7, <3>2, Zenon
    <3>4. s # <<>>
      BY <3>1, <3>2, Zenon
    <3> HIDE DEF name, sep
    <3>5. fs_finddir(t, f, s) = fs_finddir(u, f, s)
      BY <3>4, FinddirSame
    <3>6. a = b
      BY <3>3, <3>5, Zenon
    <3> QED BY <2>4, <2>5, <2>6, <2>7, <3>6
  <2> QED BY <2>9, <2>10
<1> QED BY <1>1, <1>2

LEMMA FindSame ==
    ASSUME NEW t, IsTree(t), NEW u, IsTree(u), Streams(t, u),
           NEW start \in Named(t) \union {Null}, NEW path, Len(path) \in Nat
    PROVE  fs_find_file(u, start, path) = fs_find_file(t, start, path)
<1>1. start \in Named(u) \union {Null}
  BY NamedGrows DEF Streams
<1>2. PICK N : N = Len(path) + 1
  OBVIOUS
<1>3. PICK w : Walks(t, start, path, w) /\ fs_find_file(t, start, path) = w[N].file
  BY <1>2, WalkIs
<1>4. PICK x : Walks(u, start, path, x) /\ fs_find_file(u, start, path) = x[N].file
  BY <1>1, <1>2, WalkIs
<1>5. PICK good, yes : good = [n \in 0..N |-> IF x[n] = w[n] THEN 1 ELSE 0] /\ yes = {1}
  OBVIOUS
<1>6. N \in Nat /\ 0 \in 0..N /\ N \in 0..N /\ \A n \in 1..N : n \in 0..N /\ n - 1 \in 0..N
  BY <1>2
<1>7. good[0] \in yes
  BY <1>3, <1>4, <1>5, <1>6 DEF Walks
<1>8. ASSUME NEW n \in 1..N, good[n - 1] \in yes PROVE good[n] \in yes
  <2>1. /\ w[n] = Call(t, path, w[n - 1]) /\ x[n] = Call(u, path, x[n - 1]) /\ w[n - 1] \in CallSet(t)
    BY <1>2, <1>3, <1>4, <1>6 DEF Walks
  <2>2. x[n - 1] = w[n - 1]
    BY <1>5, <1>6, <1>8
  <2>3. x[n] = w[n]
    BY <2>1, <2>2, CallSame
  <2> QED BY <1>5, <1>6, <2>3
<1>9. good[N] \in yes
  <2>1. \A n \in 0..N : good[n] \in yes
    BY <1>6, <1>7, <1>8, Stays
  <2> QED BY <1>6, <2>1
<1> QED BY <1>3, <1>4, <1>5, <1>6, <1>9

LEMMA IsLinkIn ==
    \A f : (IsLink(f) <=> LinkIn(tree, f)) /\ LinkTarget(f) = LinkTo(tree, f)
BY DEF IsLink, LinkIn, LinkTarget, LinkTo

\* All files of a chain but the last one are links, and each leads to the next.
Linking(c) ==
    \A i \in 1..(Len(c) - 1) : LinkIn(tree, c[i]) /\ c[i + 1] = LinkTo(tree, c[i])
LEMMA ChainLinks ==
    ASSUME IsTree(tree), NEW f \in Named(tree)
    PROVE  Linking(Chain(f))
<1>1. PICK N : N = Len(tree)
  OBVIOUS
<1>2. PICK w : Follows(f, w) /\ Chain(f) = w[N]
  BY <1>1, ChainIs
<1>3. N \in Nat /\ 0 \in 0..N /\ N \in 0..N /\ \A n \in 1..N : n \in 0..N /\ n - 1 \in 0..N
  BY <1>1, TreeFacts
<1>4. PICK good, yes : good = [n \in 0..N |-> IF Linking(w[n]) THEN 1 ELSE 0] /\ yes = {1}
  OBVIOUS
<1>5. good[0] \in yes
  <2>1. w[0] = <<f>> /\ Len(<<f>>) = 1
    BY <1>2 DEF Follows
  <2>2. Linking(w[0])
    BY <2>1 DEF Linking
  <2> QED BY <1>3, <1>4, <2>2
<1>6. ASSUME NEW n \in 1..N, good[n - 1] \in yes PROVE good[n] \in yes
  <2>1. PICK c : c = w[n - 1]
    OBVIOUS
  <2>2. Linking(c) /\ c \in ChainsFrom(f) /\ w[n] = Follow(c)
    BY <1>1, <1>2, <1>3, <1>4, <1>6, <2>1 DEF Follows
  <2>3. PICK g, k, m : g = Last(c) /\ k = LinkTo(tree, g) /\ m = Len(c)
    OBVIOUS
  <2>4. m \in Nat /\ m >= 1 /\ c \in Seq(Named(tree) \union {Null}) /\ g = c[m]
    BY <2>2, <2>3 DEF ChainsFrom, Chains, Last
  <2>5. CASE ~ LinkIn(tree, g)
    BY <1>3, <1>4, <2>2, <2>3, <2>5, IsLinkIn DEF Follow
  <2>6. CASE LinkIn(tree, g)
    <3>1. w[n] = Append(c, k)
      BY <2>2, <2>3, <2>6, IsLinkIn DEF Follow
    <3>2. c \in Seq(ToSet(c))
      BY <2>4 DEF ToSet
    <3>3. /\ Len(Append(c, k)) = m + 1 /\ Append(c, k)[m + 1] = k
          /\ \A i \in 1..m : Append(c, k)[i] = c[i]
      BY <2>3, <3>2, AppendFacts
    <3>4. PICK b : b = w[n]
      OBVIOUS
    <3>5. Len(b) = m + 1 /\ b[m + 1] = k /\ \A i \in 1..m : b[i] = c[i]
      BY <3>1, <3>3, <3>4
    <3>6. ASSUME NEW i \in 1..(Len(b) - 1) PROVE LinkIn(tree, b[i]) /\ b[i + 1] = LinkTo(tree, b[i])
      <4>1. i \in 1..m
        BY <2>4, <3>5
      <4>2. CASE i = m
        BY <2>3, <2>4, <2>6, <3>5, <4>1, <4>2
      <4>3. CASE i # m
        <5>1. i \in 1..(Len(c) - 1) /\ i + 1 \in 1..m
          BY <2>3, <2>4, <4>1, <4>3
        <5>2. LinkIn(tree, c[i]) /\ c[i + 1] = LinkTo(tree, c[i])
          BY <2>2, <5>1 DEF Linking
        <5> QED BY <3>5, <4>1, <5>1, <5>2
      <4> QED BY <4>2, <4>3
    <3>7. Linking(b)
      BY <3>6 DEF Linking
    <3> QED BY <1>3, <1>4, <3>4, <3>7
  <2> QED BY <2>5, <2>6
<1>7. good[N] \in yes
  <2>1. \A n \in 0..N : good[n] \in yes
    BY <1>3, <1>5, <1>6, Stays
  <2> QED BY <1>3, <2>1
<1> QED BY <1>2, <1>3, <1>4, <1>7

\* The files that kfstat goes through.
Ahead(g) == IF tree[g].link = Null THEN g ELSE tree[g].link
Ends(f, e) == e[0] = f /\ \A n \in 1..Len(tree) : e[n] = Ahead(e[n - 1])
LEMMA EndIs ==
    ASSUME IsTree(tree), TreeInv(tree), NEW f \in DOMAIN tree
    PROVE  \E e : Ends(f, e) /\ kfstat(f).size = tree[e[Len(tree)]].length
<1>1. PICK N, S : N = Len(tree) /\ S = DOMAIN tree
  OBVIOUS
<1> DEFINE Eq(w) == w = [n \in 0 .. N |-> IF n = 0 THEN f ELSE Ahead(w[n - 1])]
           end == CHOOSE w : Eq(w)
<1>2. kfstat(f).size = tree[end[N]].length
  BY <1>1 DEF kfstat, Ahead
<1>3. N \in Nat
  BY <1>1, TreeFacts
<1>4. \A g \in S : Ahead(g) \in S
  BY <1>1, LinkToIn DEF Ahead, TreeInv
<1>5. \E w : Eq(w)
  <2>1. PICK g : g = [n \in Nat |-> [c \in S |-> Ahead(c)]]
    OBVIOUS
  <2>2. StepsOf(S, g) /\ f \in S
    BY <1>1, <1>4, <2>1 DEF StepsOf
  <2>3. PICK w : Repeats(S, f, g, N, w)
    BY <1>3, <2>2, Repeated
  <2>4. ASSUME NEW n \in 1..N PROVE w[n] = Ahead(w[n - 1])
    <3>1. n \in Nat /\ n - 1 \in 0..N
      BY <1>3
    <3> QED BY <2>1, <2>3, <3>1 DEF Repeats
  <2>5. \A n \in 0..N : n # 0 => n \in 1..N
    BY <1>3
  <2>6. Eq(w)
    BY <2>3, <2>4, <2>5 DEF Repeats
  <2> QED BY <2>6
<1>6. Eq(end)
  BY <1>5
<1> HIDE DEF end
<1>7. end[0] = f /\ \A n \in 1..N : end[n] = Ahead(end[n - 1])
  <2>1. 0 \in 0..N /\ \A n \in 1..N : n \in 0..N /\ n # 0
    BY <1>3
  <2> QED BY <1>6, <2>1
<1>8. Ends(f, end)
  BY <1>1, <1>7 DEF Ends
<1> QED BY <1>1, <1>2, <1>8

\* The size of a file that has led nowhere is its own.
LEMMA OwnSize ==
    ASSUME IsTree(tree), TreeInv(tree), NEW f \in DOMAIN tree, tree[f].link = Null
    PROVE  kfstat(f).size = tree[f].length
<1>1. PICK e, N : Ends(f, e) /\ N = Len(tree) /\ kfstat(f).size = tree[e[N]].length
  BY EndIs
<1>2. N \in Nat
  BY <1>1, TreeFacts
<1>3. PICK S : S = {f}
  OBVIOUS
<1>4. e[0] \in S /\ \A n \in 1..N : e[n - 1] \in S => e[n] \in S
  BY <1>1, <1>3 DEF Ends, Ahead
<1>5. \A n \in 0..N : e[n] \in S
  BY <1>2, <1>4, Stays
<1>6. e[N] \in S
  BY <1>2, <1>5
<1> QED BY <1>1, <1>3, <1>6

\* When links are followed up, kfstat comes to where opening a link ends.
LEMMA SizeAtEnd ==
    ASSUME IsTree(tree), TreeInv(tree), NEW k, FollowedUp(tree, "run", k),
           NEW f \in Named(tree), tree[f].link # Null, Last(Chain(f)) # Null
    PROVE  kfstat(f).size = tree[Last(Chain(f))].length
<1>1. PICK N : N = Len(tree)
  OBVIOUS
<1>0. f \in DOMAIN tree
  BY TreeFacts
<1>2. PICK e : Ends(f, e) /\ kfstat(f).size = tree[e[N]].length
  BY <1>0, <1>1, EndIs
<1>3. PICK w : Follows(f, w) /\ Chain(f) = w[N]
  BY <1>1, ChainIs
<1>4. N \in Nat /\ 0 \in 0..N /\ N \in 0..N /\ \A n \in 1..N : n \in 0..N /\ n - 1 \in 0..N
  BY <1>1, TreeFacts
<1> DEFINE Known(c) == LinkIn(tree, c) => tree[c].link # Null \/ LinkTo(tree, c) = Null
           Agree(c, d) == d = Null \/ (c = d /\ c \in DOMAIN tree /\ Known(c))
<1>5. PICK good, yes : good = [n \in 0..N |-> IF Agree(e[n], Last(w[n])) THEN 1 ELSE 0] /\ yes = {1}
  OBVIOUS
<1>6. good[0] \in yes
  <2>1. w[0] = <<f>> /\ Last(<<f>>) = f /\ e[0] = f
    BY <1>2, <1>3 DEF Follows, Ends, Last
  <2> QED BY <1>0, <1>4, <1>5, <2>1
<1>7. ASSUME NEW n \in 1..N, good[n - 1] \in yes PROVE good[n] \in yes
  <2>1. PICK c, g, b, d : c = w[n - 1] /\ g = Last(c) /\ b = w[n] /\ d = e[n]
    OBVIOUS
  <2>2. c \in ChainsFrom(f) /\ b = Follow(c) /\ d = Ahead(e[n - 1]) /\ Agree(e[n - 1], g)
    BY <1>1, <1>2, <1>3, <1>4, <1>5, <1>7, <2>1 DEF Follows, Ends
  <2>3. Agree(d, Last(b))
    <3>1. CASE g = Null
      <4>1. b = c
        BY <2>1, <2>2, <3>1, IsLinkIn DEF Follow, LinkIn
      <4> QED BY <2>1, <3>1, <4>1
    <3>2. CASE g # Null /\ ~ LinkIn(tree, g)
      <4>1. b = c
        BY <2>1, <2>2, <3>2, IsLinkIn DEF Follow
      <4>2. e[n - 1] = g /\ g \in DOMAIN tree /\ tree[g].link = Null
        BY <2>2, <3>2 DEF TreeInv
      <4>3. d = g
        BY <2>2, <4>2 DEF Ahead
      <4> QED BY <2>1, <3>2, <4>1, <4>2, <4>3
    <3>3. CASE g # Null /\ LinkIn(tree, g)
      <4>1. PICK x : x = LinkTo(tree, g)
        OBVIOUS
      <4>2. b = Append(c, x)
        BY <2>1, <2>2, <3>3, <4>1, IsLinkIn DEF Follow
      <4>3. Last(Append(c, x)) = x
        <5>1. c \in Seq(Named(tree) \union {Null})
          BY <2>2 DEF ChainsFrom, Chains
        <5>2. c \in Seq(ToSet(c))
          BY <5>1 DEF ToSet
        <5> QED BY <5>2, AppendFacts DEF Last
      <4>4. CASE x = Null
        BY <4>2, <4>3, <4>4
      <4>5. CASE x # Null
        <5>1. e[n - 1] = g /\ g \in DOMAIN tree /\ tree[g].link = x /\ x \in DOMAIN tree
          BY <2>2, <3>3, <4>1, <4>5, LinkToIn DEF TreeInv
        <5>2. d = x
          BY <2>2, <4>5, <5>1 DEF Ahead
        <5>3. Known(x)
          BY <4>5, <5>1 DEF FollowedUp, Dangling
        <5> QED BY <4>2, <4>3, <5>1, <5>2, <5>3
      <4> QED BY <4>4, <4>5
    <3> QED BY <3>1, <3>2, <3>3
  <2> QED BY <1>4, <1>5, <2>1, <2>3
<1>8. good[N] \in yes
  <2> HIDE DEF Agree
  <2>1. \A n \in 0..N : good[n] \in yes
    BY <1>4, <1>6, <1>7, Stays
  <2> QED BY <1>4, <2>1
<1>9. e[N] = Last(w[N])
  BY <1>3, <1>4, <1>5, <1>8
<1> QED BY <1>2, <1>3, <1>9

-----------------------------------------------------------------------------
(* The steps.                                                               *)

\* What a thread has in hand it has in a tree that has grown.
LEMMA InHandGrows ==
    ASSUME NEW t, IsTree(t), NEW u, IsTree(u), Extends(t, u), NEW k, NEW h, InHand(t, k, h)
    PROVE  InHand(u, k, h)
<1> SUFFICES ASSUME k.at \in Working PROVE InHand(u, k, h)
  BY DEF InHand
<1>1. DOMAIN t \subseteq DOMAIN u
  BY TreeFacts DEF Extends
<1>2. k.hand \in Handles /\ h # Null /\ k.file \in DOMAIN t
  BY DEF InHand
<1>3. /\ u[k.file].name = t[k.file].name /\ u[k.file].length = t[k.file].length
      /\ u[k.file].ops = "initrd" <=> t[k.file].ops = "initrd"
      /\ LinkIn(u, k.file) <=> LinkIn(t, k.file)
  BY <1>2 DEF Extends, LinkIn
<1>4. h.file \in DOMAIN t => u[h.file].length = t[h.file].length
  BY DEF Extends
<1> QED BY <1>1, <1>2, <1>3, <1>4 DEF InHand

\* A kernel thread takes a step: it changes its own handle, or one that was free.
LEMMA ThreadLinks ==
    ASSUME KernelInv, KernelInv', LinksInv, NEW t \in Threads, Runs(t),
           NEW rec, IsThread(rec), Goes(t, rec), UNCHANGED stage,
           Extends(tree, tree'), \A f \in DOMAIN tree : LinkStep(tree, tree', f),
           NEW i, NEW v, hand' = hand \/ hand' = [hand EXCEPT ![i] = v],
           \/ hand[i] = Null \/ (i = kthread[t].hand /\ kthread[t].at \in Working)
           \/ UNCHANGED hand /\ rec.at \notin Working,
           InHand(tree', rec, hand'[rec.hand]),
           rec.at \in Working => rec.hand = i \/ (rec.hand = kthread[t].hand /\ kthread[t].at \in Working),
           stage = "preload" => FollowedUp(tree', "preload", rec)
    PROVE  LinksInv'
<1>1. /\ IsTree(tree) /\ IsTree(tree') /\ ThreadsOK /\ hand = [h \in Handles |-> hand[h]]
      /\ stage # "run" /\ (stage = "preload" => t = "kern") /\ stage \in {"preload", "run", "kterm"}
  BY RunsFacts DEF KernelInv, HandlesOK, ThreadsOK
<1>2. kthread'[t] = rec /\ \A k \in Threads : k # t => kthread'[k] = kthread[k]
  BY <1>1, GoesFacts
<1>3. TreeInv(tree')
  BY <1>1, TreeSteps DEF LinksInv
<1>4. stage' # "kterm" => FollowedUp(tree', stage', kthread'["kern"])
  BY <1>1, <1>2
<1>5. ASSUME NEW k \in Threads, k # t, kthread[k].at \in Working
      PROVE  /\ hand'[kthread[k].hand] = hand[kthread[k].hand]
             /\ rec.at \in Working => rec.hand # kthread[k].hand
  <2>1. kthread[k].hand \in Handles /\ hand[kthread[k].hand] # Null
    BY <1>5 DEF LinksInv, InHand
  <2>2. kthread[t].at \in Working => kthread[t].hand # kthread[k].hand
    BY <1>5 DEF LinksInv, OwnHandles
  <2>3. kthread[k].hand # i \/ (UNCHANGED hand /\ rec.at \notin Working)
    BY <2>1, <2>2
  <2>4. hand'[kthread[k].hand] = hand[kthread[k].hand]
    BY <1>1, <2>1, <2>3
  <2> QED BY <2>2, <2>3, <2>4
<1>6. ASSUME NEW k \in Threads PROVE InHand(tree', kthread'[k], hand'[kthread'[k].hand])
  <2>1. CASE k = t
    BY <1>2, <2>1
  <2>2. CASE k # t /\ kthread[k].at \in Working
    <3>1. InHand(tree, kthread[k], hand[kthread[k].hand])
      BY DEF LinksInv
    <3>2. InHand(tree', kthread[k], hand[kthread[k].hand])
      BY <1>1, <3>1, InHandGrows
    <3> QED BY <1>2, <1>5, <2>2, <3>2
  <2>3. CASE k # t /\ kthread[k].at \notin Working
    BY <1>2, <2>3 DEF InHand
  <2> QED BY <2>1, <2>2, <2>3
<1>7. OwnHandles'
  <2> SUFFICES ASSUME NEW k \in Threads, NEW j \in Threads, k # j,
                      kthread'[k].at \in Working, kthread'[j].at \in Working
               PROVE  kthread'[k].hand # kthread'[j].hand
    BY DEF OwnHandles
  <2>1. CASE k # t /\ j # t
    BY <1>2, <2>1 DEF LinksInv, OwnHandles
  <2>2. CASE k = t
    BY <1>2, <1>5, <2>2
  <2>3. CASE j = t
    BY <1>2, <1>5, <2>3
  <2> QED BY <2>1, <2>2, <2>3
<1>8. Resting'
  BY <1>1 DEF Resting
<1> QED BY <1>3, <1>4, <1>6, <1>7, <1>8 DEF LinksInv

\* A thread that was at no lock leaves no link that is not followed up.
LEMMA NoneDangling ==
    ASSUME KernelInv, IsTree(tree'), LinksInv, NEW t \in Threads, Runs(t), kthread[t].at # "locked",
           Extends(tree, tree'), \A f \in DOMAIN tree : tree'[f].link = tree[f].link, NEW rec
    PROVE  stage = "preload" => FollowedUp(tree', "preload", rec)
<1> SUFFICES ASSUME stage = "preload", NEW g \in DOMAIN tree', Dangling(tree', g) PROVE FALSE
  BY DEF FollowedUp
<1>1. /\ IsTree(tree) /\ t = "kern" /\ kthread["kern"].at \notin {"locked", "stuck", "stop"}
  BY RunsFacts DEF KernelInv, Runs
<1>2. \A f \in DOMAIN tree : LinkStep(tree, tree', f)
  BY DEF LinkStep
<1>3. TreeInv(tree) /\ FollowedUp(tree, stage, kthread["kern"])
  BY DEF LinksInv
<1>4. g \in DOMAIN tree /\ (tree[g].link # Null => Dangling(tree, g))
  BY <1>1, <1>2, <1>3, DanglingBefore
<1>5. tree'[g].link # Null
  BY DEF Dangling
<1> QED BY <1>1, <1>3, <1>4, <1>5 DEF FollowedUp

LEMMA SameTree ==
    ASSUME IsTree(tree), UNCHANGED tree
    PROVE  /\ IsTree(tree') /\ Extends(tree, tree') /\ \A f \in DOMAIN tree : LinkStep(tree, tree', f)
           /\ \A f \in DOMAIN tree : tree'[f].link = tree[f].link
<1>1. Len(tree) <= Len(tree')
  BY TreeFacts
<1> QED BY <1>1 DEF Extends, LinkStep

LEMMA KOpenLinks ==
    ASSUME KernelInv, KernelInv', LinksInv, NEW t \in Threads,
           NEW path \in KtermPaths \union Range(Preload), KOpen(t, path)
    PROVE  LinksInv'
<1>1. /\ IsTree(tree) /\ ThreadsOK /\ HandlesOK /\ UNCHANGED <<tree, stage>> /\ kthread[t].at = "idle" /\ Runs(t)
  BY DEF KernelInv, KOpen
<1>2. PICK f, h : f = fs_find_file(tree, Null, path) /\ h = Min(FreeHandles)
  OBVIOUS
<1>3. f \in Named(tree) \union {Null} /\ f \in DOMAIN tree \union {Null}
  <2>1. path \in Seq(ToSet(path))
    BY PathsAssumption DEF Range, ToSet
  <2>2. Len(path) \in Nat /\ Null \in Named(tree) \union {Null}
    BY <2>1
  <2> QED BY <1>1, <1>2, <2>2, FindFileIn
<1>4. h \in Handles /\ hand[h] = Null
  BY <1>2, FreeHandleFacts DEF KOpen
<1>5. /\ IsTree(tree') /\ Extends(tree, tree') /\ \A g \in DOMAIN tree : LinkStep(tree, tree', g)
      /\ \A g \in DOMAIN tree : tree'[g].link = tree[g].link
  BY <1>1, SameTree
<1>6. \A rec : stage = "preload" => FollowedUp(tree', "preload", rec)
  BY <1>1, <1>5, NoneDangling
<1>7. CASE f = Null
  <2>1. PICK rec : rec = [Idle(kthread[t].n + 1) EXCEPT !.at = IF t = "kern" THEN "stop" ELSE "idle"]
    OBVIOUS
  <2>4. Goes(t, rec) /\ UNCHANGED hand
    BY <1>2, <1>7, <2>1, Zenon DEF KOpen
  <2>2. IsThread(rec) /\ Goes(t, rec) /\ UNCHANGED hand /\ rec.at \notin Working
    BY <2>1, <2>4, FailedFacts DEF Working
  <2>3. InHand(tree', rec, hand'[rec.hand])
    BY <2>2 DEF InHand
  <2> QED BY <1>1, <1>4, <1>5, <1>6, <2>2, <2>3, ThreadLinks
<1>8. CASE f # Null
  <2>1. PICK rec, v : /\ rec = [kthread[t] EXCEPT !.at = IF f \in held THEN "stuck" ELSE "locked",
                                                  !.file = f, !.hand = h]
                      /\ v = [file |-> Null, open |-> FALSE, ops |-> "none"]
    OBVIOUS
  <2>2. IsThread(rec) /\ rec.at \in {"stuck", "locked"} /\ rec.file = f /\ rec.hand = h
    BY <1>1, <2>1 DEF ThreadsOK, IsThread
  <2>3. Goes(t, rec) /\ hand' = [hand EXCEPT ![h] = v]
    BY <1>2, <1>8, <2>1, Zenon DEF KOpen
  <2>4. v # Null
    <3>1. v \in [file : Nat \union {Stdin, Null}, open : BOOLEAN, ops : Operations]
      BY <2>1 DEF Operations
    <3> QED BY <3>1, FilesAssumption
  <2>5. hand'[h] = v
    BY <1>1, <1>4, <2>3 DEF HandlesOK
  <2>6. InHand(tree', rec, hand'[rec.hand])
    BY <1>1, <1>3, <1>4, <1>8, <2>2, <2>4, <2>5 DEF InHand
  <2> QED BY <1>1, <1>4, <1>5, <1>6, <2>2, <2>3, <2>6, ThreadLinks
<1> QED BY <1>7, <1>8

\* The handle that an open ends with.
LEMMA OpenedHandle ==
    ASSUME IsTree(tree), TreeInv(tree), NEW f \in DOMAIN tree
    PROVE  /\ Opened(f) # Null /\ Opened(f).file = f
           /\ Opened(f).ops = "initrd" \/ tree[f].length = 0
<1>1. f \in Nat /\ tree[f].ops \in Operations
  BY TreeFacts DEF IsFile
<1>2. Opened(f) \in [file : Nat \union {Stdin, Null}, open : BOOLEAN, ops : Operations]
  BY <1>1 DEF Opened
<1>3. Opened(f) # Null
  BY <1>2, FilesAssumption
<1> QED BY <1>3 DEF Opened, TreeInv

LEMMA KReleaseLinks ==
    ASSUME KernelInv, KernelInv', LinksInv, NEW t \in Threads, KRelease(t)
    PROVE  LinksInv'
<1>1. /\ IsTree(tree) /\ IsTree(tree') /\ ThreadsOK /\ HandlesOK /\ TreeInv(tree) /\ UNCHANGED stage
      /\ kthread[t].at = "locked" /\ Runs(t) /\ stage # "run" /\ (stage = "preload" => t = "kern")
  BY RunsFacts DEF KernelInv, KRelease, LinksInv
<1>2. PICK f, h, next, freed : f = kthread[t].file /\ h = kthread[t].hand /\ next = LinkTo(tree, f) /\ freed = tlock_release(f)
  OBVIOUS
<1>3. f \in DOMAIN tree /\ h \in Handles /\ hand[h] # Null /\ kthread[t].at \in Working
  BY <1>1, <1>2 DEF LinksInv, InHand, Working
<1>4. stage = "preload" => \A g \in DOMAIN tree : Dangling(tree, g) => tree[g].link = f
  BY <1>1, <1>2 DEF LinksInv, FollowedUp
<1>5. (IsLink(f) <=> LinkIn(tree, f)) /\ LinkTarget(f) = next
  BY <1>2, IsLinkIn
<1>6. CASE ~ LinkIn(tree, f)
  <2>1. PICK rec, v : rec = [kthread[t] EXCEPT !.at = "open"] /\ v = Opened(f)
    OBVIOUS
  <2>2. Goes(t, rec) /\ hand' = [hand EXCEPT ![h] = v] /\ UNCHANGED tree
    BY <1>2, <1>5, <1>6, <2>1 DEF KRelease
  <2>3. IsThread(rec) /\ rec.at = "open" /\ rec.hand = h /\ rec.file = f
    BY <1>1, <1>2, <2>1 DEF ThreadsOK, IsThread
  <2>4. hand'[h] = v
    BY <1>1, <1>3, <2>2 DEF HandlesOK
  <2>5. InHand(tree', rec, hand'[rec.hand])
    <3>1. v # Null /\ v.file = f /\ (v.ops = "initrd" \/ tree[f].length = 0)
      BY <1>1, <1>3, <2>1, OpenedHandle
    <3> QED BY <1>3, <1>6, <2>2, <2>3, <2>4, <3>1 DEF InHand
  <2>6. stage = "preload" => FollowedUp(tree', "preload", rec)
    BY <1>4, <1>6, <2>2 DEF FollowedUp, Dangling
  <2>7. Extends(tree, tree') /\ \A g \in DOMAIN tree : LinkStep(tree, tree', g)
    BY <1>1, <2>2, SameTree
  <2> QED BY <1>1, <1>2, <1>3, <2>2, <2>3, <2>5, <2>6, <2>7, ThreadLinks
<1>7. CASE LinkIn(tree, f) /\ next = Null
  <2>1. PICK rec : rec = [Idle(kthread[t].n + 1) EXCEPT !.at = IF t = "kern" THEN "stop" ELSE "idle"]
    OBVIOUS
  <2>2. Goes(t, rec) /\ hand' = [hand EXCEPT ![h] = Null] /\ UNCHANGED tree
    BY <1>2, <1>5, <1>7, <2>1 DEF KRelease, KFail, Failed
  <2>3. IsThread(rec) /\ rec.at = (IF t = "kern" THEN "stop" ELSE "idle")
    BY <2>1, FailedFacts
  <2>4. rec.at \notin Working
    BY <2>3 DEF Working
  <2>5. InHand(tree', rec, hand'[rec.hand])
    BY <2>4 DEF InHand
  <2>6. stage = "preload" => FollowedUp(tree', "preload", rec)
    BY <1>1, <1>2, <1>4, <1>7, <2>2, <2>3 DEF FollowedUp
  <2>7. Extends(tree, tree') /\ \A g \in DOMAIN tree : LinkStep(tree, tree', g)
    BY <1>1, <2>2, SameTree
  <2> QED BY <1>1, <1>2, <1>3, <2>2, <2>3, <2>4, <2>5, <2>6, <2>7, ThreadLinks
<1>8. CASE LinkIn(tree, f) /\ next # Null
  <2>1. PICK rec : rec = [kthread[t] EXCEPT !.at = IF next \in freed THEN "stuck" ELSE "locked",
                                            !.file = next]
    OBVIOUS
  <2>2. Goes(t, rec) /\ UNCHANGED hand /\ tree' = [tree EXCEPT ![f].link = next]
    BY <1>2, <1>5, <1>8, <2>1 DEF KRelease
  <2>3. IsThread(rec) /\ rec.at \in {"stuck", "locked"} /\ rec.hand = h /\ rec.file = next
    BY <1>1, <1>2, <2>1 DEF ThreadsOK, IsThread
  <2>4. PICK u : u = tree'
    OBVIOUS
  <2>5. ASSUME NEW g \in DOMAIN tree
        PROVE  (g # f => u[g] = tree[g]) /\ (g = f => u[g] = [tree[g] EXCEPT !.link = next])
    BY <1>1, <2>2, <2>4 DEF IsTree
  <2>6. /\ DOMAIN tree = 1..Len(tree) /\ DOMAIN u = DOMAIN tree /\ Len(u) = Len(tree) /\ Len(tree) \in Nat
        /\ next \in DOMAIN tree
    <3>1. DOMAIN u = DOMAIN tree /\ IsTree(u)
      BY <1>1, <2>2, <2>4
    <3>2. Len(u) \in Nat /\ Len(tree) \in Nat /\ DOMAIN tree = 1..Len(tree) /\ DOMAIN u = 1..Len(u)
      BY <1>1, <3>1, TreeFacts
    <3>3. Len(u) = Len(tree)
      BY <3>1, <3>2
    <3>4. next \in DOMAIN tree
      BY <1>1, <1>2, <1>3, <1>8, LinkToIn
    <3> QED BY <3>1, <3>2, <3>3, <3>4
  <2>7. u[f].link = next /\ \A g \in DOMAIN tree : g # f => u[g].link = tree[g].link
    <3>1. IsFile(tree[f], Len(tree))
      BY <1>1, <1>3, TreeFacts
    <3> QED BY <1>3, <2>5, <3>1 DEF IsFile, FileFields
  <2>8. Extends(tree, u)
    <3>1. ASSUME NEW g \in DOMAIN tree
          PROVE  /\ u[g].name = tree[g].name /\ u[g].parent = tree[g].parent /\ u[g].kind = tree[g].kind
                 /\ u[g].length = tree[g].length /\ u[g].target = tree[g].target /\ u[g].ops = tree[g].ops
      <4>1. IsFile(tree[g], Len(tree))
        BY <1>1, TreeFacts
      <4> QED BY <2>5, <4>1 DEF IsFile, FileFields
    <3> QED BY <2>6, <3>1 DEF Extends
  <2>9. \A g \in DOMAIN tree : LinkStep(tree, u, g)
    BY <1>2, <1>8, <2>7 DEF LinkStep
  <2>10. InHand(tree', rec, hand'[rec.hand])
    BY <1>3, <2>2, <2>3, <2>4, <2>6 DEF InHand
  <2>11. ASSUME stage = "preload", NEW g \in DOMAIN u, Dangling(u, g) PROVE u[g].link = next
    <3>1. g \in DOMAIN tree /\ (tree[g].link # Null => tree[g].link = u[g].link /\ Dangling(tree, g))
      BY <1>1, <2>4, <2>8, <2>9, <2>11, DanglingBefore
    <3>2. u[g].link # Null /\ u[u[g].link].link = Null
      BY <2>11 DEF Dangling
    <3>3. CASE g = f
      BY <2>7, <3>3
    <3>4. CASE g # f
      <4>1. tree[g].link = u[g].link /\ Dangling(tree, g)
        BY <2>7, <3>1, <3>2, <3>4
      <4>2. u[g].link = f
        BY <1>4, <2>11, <3>1, <4>1
      <4> QED BY <1>8, <2>7, <3>2, <4>2
    <3> QED BY <3>3, <3>4
  <2>12. stage = "preload" => FollowedUp(tree', "preload", rec)
    BY <2>3, <2>4, <2>11 DEF FollowedUp
  <2> QED BY <1>1, <1>2, <1>3, <2>2, <2>3, <2>4, <2>8, <2>9, <2>10, <2>12, ThreadLinks
<1> QED BY <1>6, <1>7, <1>8

\* What __read_file reads is all there is.
LEMMA ReadsAll ==
    ASSUME KernelInv, LinksInv, NEW t \in Threads, kthread[t].at = "open"
    PROVE  __read_file(kthread[t].hand) = tree[hand[kthread[t].hand].file].length
<1>1. PICK h, f : h = kthread[t].hand /\ f = kthread[t].file
  OBVIOUS
<1>2. /\ IsTree(tree) /\ TreeInv(tree) /\ f \in DOMAIN tree /\ hand[h].file = f
      /\ ~LinkIn(tree, f) /\ (hand[h].ops = "initrd" \/ tree[f].length = 0)
  BY <1>1 DEF KernelInv, LinksInv, InHand, Working
<1>3. tree[f].link = Null
  BY <1>2 DEF TreeInv
<1>4. PICK len : len = tree[f].length
  OBVIOUS
<1>5. kfstat(f).size = len /\ len \in Nat
  BY <1>2, <1>3, <1>4, OwnSize, TreeFacts DEF IsFile
<1>6. f # Stdin
  BY <1>2, TreeFacts, FilesAssumption
<1>7. File(f).length = len
  BY <1>4, <1>6 DEF File
<1>8. InitrdLength(len, 0, len) = len
  BY <1>5, FilesAssumption DEF InitrdLength
<1>9. ReadLength(h, 0, len) = len
  <2>1. CASE hand[h].ops = "initrd"
    BY <1>2, <1>7, <1>8, <2>1 DEF ReadLength
  <2>2. CASE hand[h].ops # "initrd"
    BY <1>2, <1>4, <2>2 DEF ReadLength
  <2> QED BY <2>1, <2>2
<1> QED BY <1>1, <1>2, <1>4, <1>5, <1>9 DEF __read_file

LEMMA KReadFileLinks ==
    ASSUME KernelInv, KernelInv', LinksInv, NEW t \in Threads, KReadFile(t)
    PROVE  LinksInv'
<1>1. PICK rec, h : h = kthread[t].hand /\ rec = [kthread[t] EXCEPT !.at = "loaded", !.read = __read_file(h)]
  OBVIOUS
<1>2. IsThread(rec) /\ rec.at = "loaded" /\ rec.hand = h /\ rec.file = kthread[t].file /\ rec.read = __read_file(h)
  BY <1>1 DEF KernelInv, ThreadsOK, IsThread
<1>3. /\ Goes(t, rec) /\ Runs(t) /\ kthread[t].at = "open" /\ UNCHANGED <<tree, hand, stage>> /\ IsTree(tree)
  BY <1>1 DEF KReadFile, KernelInv
<1>4. /\ IsTree(tree') /\ Extends(tree, tree') /\ \A g \in DOMAIN tree : LinkStep(tree, tree', g)
      /\ \A g \in DOMAIN tree : tree'[g].link = tree[g].link
  BY <1>3, SameTree
<1>5. stage = "preload" => FollowedUp(tree', "preload", rec)
  BY <1>3, <1>4, NoneDangling
<1>6. h \in Handles /\ hand[h] # Null /\ rec.file \in DOMAIN tree /\ hand[h].file = rec.file /\ kthread[t].at \in Working
  BY <1>1, <1>2, <1>3 DEF LinksInv, InHand, Working
<1>7. rec.read = tree[hand[h].file].length
  BY <1>1, <1>2, <1>3, ReadsAll
<1>8. InHand(tree', rec, hand'[rec.hand])
  BY <1>2, <1>3, <1>6, <1>7 DEF InHand
<1> QED BY <1>1, <1>2, <1>3, <1>4, <1>5, <1>6, <1>8, ThreadLinks

\* A thread lets go of its file, and of its handle or not.
LEMMA LetsGo ==
    ASSUME KernelInv, KernelInv', LinksInv, NEW t \in Threads, Runs(t), kthread[t].at \in {"open", "loaded"},
           NEW rec, IsThread(rec), Goes(t, rec), rec.at \notin Working, UNCHANGED <<tree, stage>>,
           hand' = IF t = "kern" THEN [hand EXCEPT ![kthread[t].hand] = Null] ELSE hand
    PROVE  LinksInv'
<1>1. IsTree(tree) /\ kthread[t].at \in Working
  BY DEF KernelInv, Working
<1>2. /\ IsTree(tree') /\ Extends(tree, tree') /\ \A g \in DOMAIN tree : LinkStep(tree, tree', g)
      /\ \A g \in DOMAIN tree : tree'[g].link = tree[g].link
  BY <1>1, SameTree
<1>3. stage = "preload" => FollowedUp(tree', "preload", rec)
  BY <1>2, NoneDangling
<1>4. InHand(tree', rec, hand'[rec.hand])
  BY DEF InHand
<1>5. PICK i, v : i = kthread[t].hand /\ v = Null
  OBVIOUS
<1>6. hand' = hand \/ hand' = [hand EXCEPT ![i] = v]
  BY <1>5
<1> QED BY <1>1, <1>2, <1>3, <1>4, <1>5, <1>6, ThreadLinks

LEMMA KDoneLinks ==
    ASSUME KernelInv, KernelInv', LinksInv, NEW t \in Threads, KDone(t)
    PROVE  LinksInv'
<1>1. PICK rec : rec = Idle(kthread[t].n + 1)
  OBVIOUS
<1>2. IsThread(rec) /\ rec.at \notin Working
  BY <1>1 DEF Idle, IsThread, Working
<1>3. /\ Goes(t, rec) /\ Runs(t) /\ kthread[t].at = "loaded" /\ UNCHANGED <<tree, stage>>
      /\ hand' = IF t = "kern" THEN [hand EXCEPT ![kthread[t].hand] = Null] ELSE hand
  BY <1>1 DEF KDone
<1> QED BY <1>2, <1>3, LetsGo

\* A thread goes on with its handle, in a tree that may have grown.
LEMMA GoesOn ==
    ASSUME KernelInv, KernelInv', LinksInv, NEW t \in Threads, Runs(t), kthread[t].at \in {"open", "ops"},
           NEW rec, IsThread(rec), Goes(t, rec), rec.at \in {"ops", "loaded"}, rec.hand = kthread[t].hand,
           UNCHANGED <<hand, stage>>, Extends(tree, tree'), \A f \in DOMAIN tree : tree'[f].link = tree[f].link,
           rec.file \in DOMAIN tree', Loads[tree'[rec.file].name] # "list",
           rec.at = "ops" => tree'[rec.file].ops # "initrd"
    PROVE  LinksInv'
<1>1. IsTree(tree) /\ IsTree(tree') /\ kthread[t].at \in Working
  BY DEF KernelInv, Working
<1>2. \A f \in DOMAIN tree : LinkStep(tree, tree', f)
  BY DEF LinkStep
<1>3. stage = "preload" => FollowedUp(tree', "preload", rec)
  BY <1>1, NoneDangling
<1>4. rec.hand \in Handles /\ hand[rec.hand] # Null
  BY <1>1 DEF LinksInv, InHand
<1>5. InHand(tree', rec, hand'[rec.hand])
  BY <1>4 DEF InHand
<1> QED BY <1>1, <1>2, <1>3, <1>5, ThreadLinks

LEMMA KOpsLinks ==
    ASSUME KernelInv, KernelInv', LinksInv, NEW t \in Threads, KOps(t)
    PROVE  LinksInv'
<1>1. PICK rec, f, u : rec = [kthread[t] EXCEPT !.at = "loaded"] /\ f = kthread[t].file /\ u = tree'
  OBVIOUS
<1>2. IsThread(rec) /\ rec.at = "loaded" /\ rec.hand = kthread[t].hand /\ rec.file = f
  BY <1>1 DEF KernelInv, ThreadsOK, IsThread
<1>3. /\ Goes(t, rec) /\ Runs(t) /\ kthread[t].at = "ops" /\ UNCHANGED <<hand, stage>>
      /\ u = [tree EXCEPT ![f].ops = "zero"] /\ IsTree(tree) /\ IsTree(u)
  BY <1>1 DEF KOps, KernelInv
<1>4. f \in DOMAIN tree /\ Loads[tree[f].name] # "list" /\ tree[f].ops # "initrd"
  BY <1>1, <1>3 DEF LinksInv, InHand, Working
<1>5. ASSUME NEW g \in DOMAIN tree
      PROVE  /\ u[g].name = tree[g].name /\ u[g].parent = tree[g].parent /\ u[g].kind = tree[g].kind
             /\ u[g].length = tree[g].length /\ u[g].target = tree[g].target /\ u[g].link = tree[g].link
             /\ u[g].ops = "initrd" <=> tree[g].ops = "initrd"
  <2>1. IsFile(tree[g], Len(tree))
    BY <1>3, TreeFacts
  <2>2. (g # f => u[g] = tree[g]) /\ (g = f => u[g] = [tree[g] EXCEPT !.ops = "zero"])
    BY <1>3 DEF IsTree
  <2> QED BY <1>4, <2>1, <2>2 DEF IsFile, FileFields
<1>6. DOMAIN u = DOMAIN tree /\ Len(tree) <= Len(u)
  <2>1. DOMAIN u = DOMAIN tree
    BY <1>3
  <2>2. Len(u) \in Nat /\ Len(tree) \in Nat /\ DOMAIN tree = 1..Len(tree) /\ DOMAIN u = 1..Len(u)
    BY <1>3, TreeFacts
  <2> QED BY <2>1, <2>2
<1>7. Extends(tree, u)
  BY <1>5, <1>6 DEF Extends
<1>8. /\ Extends(tree, tree') /\ f \in DOMAIN tree' /\ Loads[tree'[f].name] # "list"
      /\ \A g \in DOMAIN tree : tree'[g].link = tree[g].link
  BY <1>1, <1>4, <1>5, <1>6, <1>7
<1> QED BY <1>2, <1>3, <1>8, GoesOn

LEMMA KInstallLinks ==
    ASSUME KernelInv, KernelInv', LinksInv, NEW t \in Threads, KInstall(t)
    PROVE  LinksInv'
<1>1. /\ Runs(t) /\ kthread[t].at = "open" /\ UNCHANGED stage /\ IsTree(tree) /\ IsThread(kthread[t])
  BY DEF KInstall, KernelInv, ThreadsOK
<1>2. \A name : /\ IsFile(NewFile(name), Len(tree)) /\ NewFile(name).ops # "initrd" /\ NewFile(name).length = 0
                /\ NewFile(name).link = Null /\ NewFile(name).name = name
  BY DEF NewFile, IsFile, RootFile, FileFields, Operations
<1>3. Root \in Named(tree) /\ _dev_file \in Named(tree) \union {Null}
  <2>1. Len(DevDir) \in Nat /\ Null \in Named(tree) \union {Null}
    BY DEF DevDir
  <2> QED BY <1>1, <2>1, FindFileIn, TreeFacts DEF _dev_file
<1>4. PICK f : f = kthread[t].file
  OBVIOUS
<1>5. f \in DOMAIN tree
  BY <1>1, <1>4 DEF LinksInv, InHand, Working
<1>6. CASE /\ tree' = fs_add_file(tree, NewFile(Tail(DevDir)), Root) /\ Loads[tree[f].name] = "devfs"
           /\ Goes(t, [kthread[t] EXCEPT !.at = "loaded"]) /\ UNCHANGED hand
  <2>1. PICK rec, file : rec = [kthread[t] EXCEPT !.at = "loaded"] /\ file = NewFile(Tail(DevDir))
    OBVIOUS
  <2>2. IsThread(rec) /\ rec.at = "loaded" /\ rec.hand = kthread[t].hand /\ rec.file = f
    BY <1>1, <1>4, <2>1 DEF IsThread
  <2>3. Extends(tree, tree') /\ \A g \in DOMAIN tree : tree'[g] = tree[g]
    BY <1>1, <1>2, <1>3, <1>6, <2>1, AddExtends
  <2>4. f \in DOMAIN tree'
    BY <1>1, <1>3, <1>5, <1>6, <1>2, AddFileIn
  <2> QED BY <1>1, <1>5, <1>6, <2>1, <2>2, <2>3, <2>4, GoesOn
<1>7. CASE /\ tree' = fs_add_file(tree, NewFile(tree[f].name), _dev_file) /\ _dev_file # Null
           /\ Loads[tree[f].name] = "driver"
           /\ Goes(t, [kthread[t] EXCEPT !.at = "ops", !.file = Len(tree) + 1]) /\ UNCHANGED hand
  <2>1. PICK rec, name, file : /\ rec = [kthread[t] EXCEPT !.at = "ops", !.file = Len(tree) + 1]
                               /\ name = tree[f].name /\ file = NewFile(name)
    OBVIOUS
  <2>2. IsThread(rec) /\ rec.at = "ops" /\ rec.hand = kthread[t].hand /\ rec.file = Len(tree) + 1
    BY <1>1, <2>1 DEF IsThread
  <2>3. /\ Extends(tree, tree') /\ (\A g \in DOMAIN tree : tree'[g] = tree[g]) /\ Len(tree) + 1 \in DOMAIN tree'
        /\ tree'[Len(tree) + 1].name = file.name /\ tree'[Len(tree) + 1].ops # "initrd"
    BY <1>1, <1>2, <1>3, <1>7, <2>1, AddExtends
  <2>4. Loads[tree'[rec.file].name] # "list"
    BY <1>2, <1>7, <2>1, <2>2, <2>3
  <2> QED BY <1>1, <1>7, <2>1, <2>2, <2>3, <2>4, GoesOn
<1>8. CASE /\ hand' = IF t = "kern" THEN [hand EXCEPT ![kthread[t].hand] = Null] ELSE hand
           /\ Failed(t) /\ UNCHANGED tree
  <2>1. PICK rec : rec = [Idle(kthread[t].n + 1) EXCEPT !.at = IF t = "kern" THEN "stop" ELSE "idle"]
    OBVIOUS
  <2>2. IsThread(rec) /\ rec.at \notin Working /\ Goes(t, rec)
    BY <1>8, <2>1, FailedFacts DEF Failed, Working
  <2> QED BY <1>1, <1>8, <2>2, LetsGo
<1> QED BY <1>4, <1>6, <1>7, <1>8 DEF KInstall, Adds

LEMMA KStreamLinks ==
    ASSUME KernelInv, KernelInv', LinksInv, KStream
    PROVE  LinksInv'
<1>1. PICK t, rec : t = "kterm" /\ rec = [kthread[t] EXCEPT !.at = "idle"]
  OBVIOUS
<1>2. /\ t \in Threads /\ Runs(t) /\ kthread[t].at = "start" /\ Goes(t, rec) /\ UNCHANGED <<hand, stage>>
      /\ IsTree(tree) /\ IsThread(kthread[t]) /\ stage = "kterm"
      /\ tree' = fs_add_file(tree, StreamFile, Root)
  BY <1>1 DEF KStream, Adds, Threads, KernelInv, ThreadsOK, Runs
<1>3. IsThread(rec) /\ rec.at = "idle" /\ rec.at \notin Working
  BY <1>1, <1>2 DEF IsThread, Working
<1>4. Streams(tree, tree')
  BY <1>2, StreamAdded
<1>5. Extends(tree, tree') /\ \A g \in DOMAIN tree : LinkStep(tree, tree', g)
  BY <1>4 DEF Streams, LinkStep
<1>6. InHand(tree', rec, hand'[rec.hand])
  BY <1>3 DEF InHand
<1> QED BY <1>2, <1>3, <1>5, <1>6, ThreadLinks

LEMMA ListLinks ==
    ASSUME KernelInv, KernelInv', LinksInv, fs_opendir \/ fs_readdir \/ ListDone
    PROVE  LinksInv'
<1>1. PICK t : t = "kterm"
  OBVIOUS
<1>2. /\ t \in Threads /\ Runs(t) /\ UNCHANGED <<tree, hand, stage>> /\ IsTree(tree) /\ IsThread(kthread[t])
      /\ stage = "kterm"
  <2>1. Runs("kterm") /\ UNCHANGED <<tree, hand, stage>>
    BY Zenon DEF fs_opendir, fs_readdir, ListDone
  <2> QED BY <1>1, <2>1 DEF Threads, KernelInv, ThreadsOK, Runs
<1>3. CASE UNCHANGED kthread
  BY <1>2, <1>3 DEF LinksInv, OwnHandles, Resting
<1>4. ASSUME NEW rec, IsThread(rec), Goes(t, rec), rec.at \in {"idle", "ls", "done"} PROVE LinksInv'
  <2>1. rec.at \notin Working
    BY <1>4 DEF Working
  <2>2. InHand(tree', rec, hand'[rec.hand])
    BY <2>1 DEF InHand
  <2>3. Extends(tree, tree') /\ \A g \in DOMAIN tree : LinkStep(tree, tree', g)
    BY <1>2, SameTree
  <2> QED BY <1>2, <1>4, <2>1, <2>2, <2>3, ThreadLinks
<1>5. CASE fs_opendir /\ kthread' # kthread
  <2>1. PICK d, f : Goes(t, [kthread[t] EXCEPT !.at = "ls", !.dir = d, !.file = f])
    BY <1>1, <1>5, Zenon DEF fs_opendir
  <2>2. PICK rec : rec = [kthread[t] EXCEPT !.at = "ls", !.dir = d, !.file = f]
    OBVIOUS
  <2>3. IsThread(rec) /\ rec.at = "ls"
    BY <1>2, <2>2 DEF IsThread
  <2> QED BY <1>4, <2>1, <2>2, <2>3
<1>6. CASE fs_readdir
  <2>1. PICK seen, end, f : Goes(t, [kthread[t] EXCEPT !.seen = seen, !.at = IF end THEN "done" ELSE "ls", !.file = f])
    BY <1>1, <1>6, Zenon DEF fs_readdir
  <2>2. PICK rec : rec = [kthread[t] EXCEPT !.seen = seen, !.at = IF end THEN "done" ELSE "ls", !.file = f]
    OBVIOUS
  <2>3. IsThread(rec) /\ rec.at \in {"ls", "done"}
    BY <1>2, <2>2 DEF IsThread
  <2> QED BY <1>4, <2>1, <2>2, <2>3
<1>7. CASE ListDone
  <2>1. PICK rec : rec = Idle(kthread[t].n)
    OBVIOUS
  <2>2. IsThread(rec) /\ rec.at = "idle"
    BY <2>1 DEF Idle, IsThread
  <2> QED BY <1>1, <1>4, <1>7, <2>1, <2>2 DEF ListDone
<1> QED BY <1>3, <1>5, <1>6, <1>7

\* No kernel thread works on a file when init starts.
LEMMA SpawnLinks ==
    ASSUME KernelInv, LinksInv, _spawn_init
    PROVE  LinksInv'
<1>1. /\ UNCHANGED kthread /\ stage = "preload" /\ stage' = "run" /\ IsTree(tree)
      /\ kthread["kern"].at \in {"idle", "stop"} /\ kthread["kterm"].at = "start"
  BY DEF _spawn_init, KernelInv, Preloading
<1>0. IsTree(tree') /\ Streams(tree, tree') /\ Extends(tree, tree') /\ TreeInv(tree)
  BY <1>1, SpawnStreams DEF Streams, LinksInv
<1>2. \A t \in Threads : kthread[t].at \notin Working
  BY <1>1 DEF Threads, Working
<1>3. FollowedUp(tree, "preload", kthread["kern"])
  BY <1>1 DEF LinksInv
<1>7. \A f \in DOMAIN tree : LinkStep(tree, tree', f)
  BY <1>0 DEF Streams, LinkStep
<1>4. FollowedUp(tree', "run", kthread["kern"])
  <2> SUFFICES ASSUME NEW g \in DOMAIN tree', Dangling(tree', g) PROVE LinkTo(tree', tree'[g].link) = Null
    BY DEF FollowedUp
  <2>1. PICK n : n = tree'[g].link
    OBVIOUS
  <2>2. /\ g \in DOMAIN tree /\ n \in DOMAIN tree /\ n # Null
        /\ tree[g].link # Null => tree[g].link = n /\ Dangling(tree, g)
    BY <1>0, <1>1, <1>7, <2>1, DanglingBefore DEF Dangling
  <2>3. tree[g].link = n
    BY <1>0, <2>1, <2>2 DEF Streams
  <2>4. LinkTo(tree, n) = Null
    BY <1>1, <1>3, <2>2, <2>3 DEF FollowedUp
  <2>5. PICK start, path : start = tree[n].parent /\ path = tree[n].target
    OBVIOUS
  <2>6. start \in Named(tree) \union {Null} /\ Len(path) \in Nat /\ tree'[n] = tree[n]
    BY <1>0, <1>1, <2>2, <2>5, TreeFacts DEF IsFile, Streams
  <2>7. fs_find_file(tree', start, path) = fs_find_file(tree, start, path)
    BY <1>0, <1>1, <2>6, FindSame
  <2> QED BY <2>1, <2>4, <2>5, <2>6, <2>7 DEF LinkTo
<1>5. \A t \in Threads : InHand(tree', kthread'[t], hand'[kthread'[t].hand])
  BY <1>1, <1>2 DEF InHand
<1>6. OwnHandles' /\ Resting' /\ TreeInv(tree')
  <2>1. TreeInv(tree')
    BY <1>0, <1>1, <1>7, TreeSteps
  <2> QED BY <1>1, <1>2, <2>1 DEF OwnHandles, Resting
<1> QED BY <1>1, <1>4, <1>5, <1>6 DEF LinksInv

\* A system call that leaves the tree alone.
LEMMA CallLinks ==
    ASSUME LinksInv, stage = "run", UNCHANGED <<tree, kthread, stage>>
    PROVE  LinksInv'
<1>1. \A t \in Threads : kthread[t].at \notin Working
  BY DEF LinksInv, Resting, Threads, Working
<1>2. \A t \in Threads : InHand(tree', kthread'[t], hand'[kthread'[t].hand])
  BY <1>1 DEF InHand
<1> QED BY <1>2 DEF LinksInv, OwnHandles, Resting

\* An open follows all the links on its way.
LEMMA OpenLinks ==
    ASSUME KernelInv, IsTree(tree'), LinksInv, stage = "run", UNCHANGED <<kthread, stage>>,
           NEW f \in Named(tree), NEW chain, chain = Chain(f), tree' = Linked(chain),
           ~IsLink(Last(chain))
    PROVE  LinksInv'
<1>1. PICK u, m : u = tree' /\ m = Len(chain)
  OBVIOUS
<1>2. IsTree(tree) /\ IsTree(u) /\ TreeInv(tree) /\ FollowedUp(tree, "run", kthread["kern"])
  BY <1>1 DEF KernelInv, LinksInv
<1>3. /\ chain \in Seq(Named(tree) \union {Null}) /\ m \in Nat /\ m >= 1
      /\ ~LinkIn(tree, chain[m])
      /\ \A i \in 1..(m - 1) : LinkIn(tree, chain[i]) /\ chain[i + 1] = LinkTo(tree, chain[i])
  <2>1. chain \in Chains /\ Len(chain) >= 1
    BY <1>2, ChainIn
  <2>2. Linking(chain)
    BY <1>2, ChainLinks
  <2> QED BY <1>1, <2>1, <2>2, IsLinkIn DEF Chains, Linking, Last
<1> DEFINE Passed(g) == \E i \in 1..(m - 1) : chain[i] = g
<1>4. u = [g \in DOMAIN tree |-> IF Passed(g) THEN [tree[g] EXCEPT !.link = LinkTo(tree, g)] ELSE tree[g]]
  BY <1>1, IsLinkIn DEF Linked
<1>5. \A g \in DOMAIN tree : u[g] = IF Passed(g) THEN [tree[g] EXCEPT !.link = LinkTo(tree, g)] ELSE tree[g]
  BY <1>4
<1>6. DOMAIN u = DOMAIN tree /\ Len(u) = Len(tree) /\ Len(tree) <= Len(u)
  <2>1. DOMAIN u = DOMAIN tree
    BY <1>4
  <2>2. Len(u) \in Nat /\ Len(tree) \in Nat /\ DOMAIN tree = 1..Len(tree) /\ DOMAIN u = 1..Len(u)
    BY <1>2, TreeFacts
  <2> QED BY <2>1, <2>2
<1>7. \A g : Passed(g) => LinkIn(tree, g)
  BY <1>3
<1> HIDE DEF Passed
<1>8. ASSUME NEW g \in DOMAIN tree
      PROVE  /\ u[g].name = tree[g].name /\ u[g].parent = tree[g].parent /\ u[g].kind = tree[g].kind
             /\ u[g].length = tree[g].length /\ u[g].target = tree[g].target /\ u[g].ops = tree[g].ops
             /\ u[g].link = IF Passed(g) THEN LinkTo(tree, g) ELSE tree[g].link
  <2>1. IsFile(tree[g], Len(tree))
    BY <1>2, TreeFacts
  <2> QED BY <1>5, <2>1 DEF IsFile, FileFields
<1>9. Extends(tree, u)
  BY <1>6, <1>8 DEF Extends
<1>10. \A g \in DOMAIN tree : LinkStep(tree, u, g)
  BY <1>7, <1>8 DEF LinkStep
<1>11. TreeInv(u)
  BY <1>2, <1>9, <1>10, TreeSteps
<1>12. ASSUME NEW g \in DOMAIN u, Dangling(u, g)
       PROVE  LinkTo(u, u[g].link) = Null
  <2>1. PICK n : n = u[g].link
    OBVIOUS
  <2>2. /\ g \in DOMAIN tree /\ n \in DOMAIN tree /\ n = LinkTo(tree, g) /\ LinkIn(tree, n)
        /\ tree[g].link # Null => tree[g].link = n /\ Dangling(tree, g)
    BY <1>2, <1>9, <1>10, <1>12, <2>1, DanglingBefore
  <2>3. n # Null /\ u[n].link = Null
    BY <1>12, <2>1 DEF Dangling
  <2>6. LinkTo(u, n) = LinkTo(tree, n)
    BY <1>2, <1>6, <1>9, <2>2, LinkToSame
  <2>4. CASE tree[g].link # Null
    <3>1. LinkTo(tree, n) = Null
      BY <1>2, <2>2, <2>4 DEF FollowedUp
    <3> QED BY <2>1, <2>6, <3>1
  <2>5. CASE tree[g].link = Null
    <3>1. Passed(g)
      BY <1>8, <2>1, <2>2, <2>3, <2>5
    <3>2. PICK i \in 1..(m - 1) : chain[i] = g
      BY <3>1 DEF Passed
    <3>3. chain[i + 1] = n
      BY <1>3, <2>2, <3>2
    <3>4. i + 1 # m
      BY <1>3, <2>2, <3>3
    <3>5. i + 1 \in 1..(m - 1)
      BY <1>3, <3>4
    <3>6. Passed(n)
      BY <3>3, <3>5 DEF Passed
    <3>7. u[n].link = LinkTo(tree, n)
      BY <1>8, <2>2, <3>6
    <3> QED BY <2>1, <2>3, <2>6, <3>7
  <2> QED BY <2>4, <2>5
<1>13. FollowedUp(u, "run", kthread["kern"])
  BY <1>12 DEF FollowedUp
<1>14. \A t \in Threads : kthread[t].at \notin Working
  BY DEF LinksInv, Resting, Threads, Working
<1>15. \A t \in Threads : InHand(tree', kthread'[t], hand'[kthread'[t].hand])
  BY <1>14 DEF InHand
<1>16. OwnHandles' /\ Resting'
  BY DEF LinksInv, OwnHandles, Resting
<1> QED BY <1>1, <1>11, <1>13, <1>15, <1>16 DEF LinksInv

\* The invariant holds when the archive is mounted.
LEMMA LinksInit == Init => LinksInv
<1> SUFFICES ASSUME Init PROVE LinksInv
  OBVIOUS
<1>1. /\ tree = Mounted /\ stage # "run"
      /\ kthread = [t \in Threads |-> IF t = "kterm" THEN [Idle(0) EXCEPT !.at = "start"] ELSE Idle(0)]
  BY DEF Init, Mounted
<1>2. Fresh(Mounted)
  BY MountIn DEF Mounted
<1>3. /\ IsTree(Mounted) /\ \A f \in DOMAIN Mounted : Mounted[f].link = Null
      /\ \A f \in DOMAIN Mounted : Mounted[f].ops = "initrd" \/ Mounted[f].length = 0
  BY <1>2 DEF Fresh
<1>4. Len(Mounted) <= Len(Mounted)
  BY <1>3, TreeFacts
<1>5. Extends(Mounted, Mounted)
  BY <1>4 DEF Extends
<1>6. TreeInv(tree)
  BY <1>1, <1>3, <1>5 DEF TreeInv
<1>7. FollowedUp(tree, stage, kthread["kern"])
  BY <1>1, <1>3 DEF FollowedUp, Dangling
<1>8. \A t \in Threads : kthread[t].at \notin Working
  BY <1>1 DEF Idle, Working
<1>9. (\A t \in Threads : InHand(tree, kthread[t], hand[kthread[t].hand])) /\ OwnHandles /\ Resting
  BY <1>1, <1>8 DEF InHand, OwnHandles, Resting
<1> QED BY <1>6, <1>7, <1>9 DEF LinksInv

\* Every step keeps it.
LEMMA LinksNext == FilesIndInv /\ FilesIndInv' /\ LinksInv /\ [Next]_vars => LinksInv'
<1> SUFFICES ASSUME FilesIndInv, FilesIndInv', LinksInv, [Next]_vars PROVE LinksInv'
  OBVIOUS
<1>1. KernelInv /\ KernelInv' /\ ProcsInv
  BY DEF FilesIndInv
<1>2. ASSUME NEW t \in Threads, KernelStep(t) PROVE LinksInv'
  <2>1. CASE KLink(t) \/ HalfLinked(t)
    <3>1. UNCHANGED <<tree, hand, kthread, stage>>
      BY <2>1, Zenon DEF KLink, HalfLinked, kernel
    <3> QED BY <3>1 DEF LinksInv, OwnHandles, Resting
  <2>2. CASE ~(KLink(t) \/ HalfLinked(t))
    <3>1. CASE \E path \in KtermPaths \union Range(Preload) : KOpen(t, path)
      BY <1>1, <3>1, KOpenLinks
    <3>2. CASE KRelease(t) \/ KReadFile(t) \/ KInstall(t) \/ KOps(t) \/ KDone(t)
      BY <1>1, <3>2, KReleaseLinks, KReadFileLinks, KInstallLinks, KOpsLinks, KDoneLinks
    <3> QED BY <1>2, <2>2, <3>1, <3>2, Zenon DEF KernelStep
  <2> QED BY <2>1, <2>2
<1>3. CASE KStream \/ fs_opendir \/ fs_readdir \/ ListDone
  BY <1>1, <1>3, KStreamLinks, ListLinks
<1>4. CASE _spawn_init
  BY <1>1, <1>4, SpawnLinks
<1>5. ASSUME NEW p \in Procs, ProcCall(p) PROVE LinksInv'
  <2>1. Calls(p) => stage = "run"
    BY <1>1, CallsFacts
  <2>2. ASSUME NEW r \in Requests, Open(p, r) PROVE LinksInv'
    <3>1. PICK f, chain : /\ f = Lookup(r) /\ Checked(r, f) /\ chain = Chain(f)
                          /\ \/ OpenNew(p, r, chain) \/ OpenZero(p, r, chain)
                             \/ OpenLoop(p, r, chain) \/ OpenDangling(p, r, chain)
      BY <2>2 DEF Open
    <3>2. CASE OpenLoop(p, r, chain)
      BY <2>1, <3>2, CallLinks DEF OpenLoop, Openable, kernel
    <3>3. CASE OpenNew(p, r, chain) \/ OpenZero(p, r, chain) \/ OpenDangling(p, r, chain)
      <4>1. /\ tree' = Linked(chain) /\ ~IsLink(Last(chain)) /\ stage = "run"
            /\ UNCHANGED <<kthread, stage>>
        <5>1. CASE OpenDangling(p, r, chain)
          BY <2>1, <5>1 DEF OpenDangling, IsLink, kernel
        <5>2. CASE OpenNew(p, r, chain) \/ OpenZero(p, r, chain)
          BY <2>1, <5>2 DEF OpenNew, OpenZero, Openable, kernel
        <5> QED BY <3>3, <5>1, <5>2
      <4>2. IsTree(tree) /\ IsTree(tree')
        BY <1>1 DEF KernelInv
      <4>3. Len(r.path) \in Nat
        <5>1. r.path \in Seq(ToSet(r.path))
          BY PathsAssumption
        <5> QED BY <5>1
      <4>4. f \in Named(tree)
        BY <3>1, <4>2, <4>3, FindFileIn, TreeFacts DEF Lookup, Checked
      <4> QED BY <1>1, <3>1, <4>1, <4>2, <4>4, OpenLinks
    <3> QED BY <3>1, <3>2, <3>3
  <2>3. ASSUME NEW d \in Descs, Close(p, d) \/ Opendir(p, d) \/ NullPointer(p, d) PROVE LinksInv'
    BY <2>1, <2>3, CallLinks DEF Close, CloseHandle, Opendir, NullPointer, kernel
  <2>4. ASSUME NEW d \in Descs, NEW sz \in ReadSizes, ReadBlk(p, d, sz) PROVE LinksInv'
    BY <2>1, <2>4, CallLinks DEF ReadBlk, kernel
  <2>5. ASSUME NEW c \in Procs, Fork(p, c) PROVE LinksInv'
    BY <2>1, <2>5, CallLinks DEF Fork, kernel
  <2>6. CASE Exit(p) \/ Exec(p) \/ proc_fs_readdir(p)
    BY <2>1, <2>6, CallLinks, Zenon DEF Exit, Exec, proc_fs_readdir, kernel
  <2>7. ASSUME NEW word \in Beside, StrayCall(p, word) PROVE LinksInv'
    BY <2>1, <2>7, CallLinks DEF StrayCall, kernel
  <2> QED BY <1>5, <2>2, <2>3, <2>4, <2>5, <2>6, <2>7 DEF ProcCall
<1>6. CASE UNCHANGED vars
  <2>1. UNCHANGED <<tree, hand, kthread, stage>>
    BY <1>6 DEF vars, kernel
  <2> QED BY <2>1 DEF LinksInv, OwnHandles, Resting
<1> QED BY <1>2, <1>3, <1>4, <1>5, <1>6 DEF Next

LEMMA LinksInvariant == Spec => [](FilesIndInv /\ LinksInv)
<1>1. FilesIndInv /\ LinksInv /\ [Next]_vars => (FilesIndInv /\ LinksInv)'
  BY StepKeeps, LinksNext
<1> QED BY <1>1, InitKeeps, LinksInit, PTL DEF Spec

\* A link found by its name: stat goes to the end of what it leads to.
LEMMA LinksSuffice ==
    ASSUME LinksNamed, FilesIndInv, LinksInv
    PROVE  LinksFresh
<1> SUFFICES ASSUME NEW f \in DOMAIN tree, tree[f].link # Null
             PROVE  /\ tree[f].link = LinkTarget(f)
                    /\ stage = "run" /\ Last(Chain(f)) # Null /\ ~IsLink(Last(Chain(f))) =>
                          proc_fs_stat(<<Sep>> \o tree[f].name).size = tree[Last(Chain(f))].length
  BY DEF LinksFresh
<1>1. /\ IsTree(tree) /\ TreeInv(tree) /\ Extends(Mounted, tree) /\ Fresh(Mounted)
  BY MountIn DEF FilesIndInv, KernelInv, LinksInv, TreeInv, Mounted
<1>2. IsTree(Mounted) /\ \A g \in DOMAIN Mounted : Names(Mounted[g].name)
  BY <1>1 DEF Fresh
<1>3. tree[f].link = LinkTo(tree, f) /\ LinkIn(tree, f)
  BY <1>1 DEF TreeInv
<1>4. f \in DOMAIN Mounted
  BY <1>1, <1>3 DEF Extends, LinkIn
<1>5. LinkIn(Mounted, f) /\ tree[f].name = Mounted[f].name
  BY <1>1, <1>3, <1>4 DEF Extends, LinkIn
<1>6. PICK path : path = <<Sep>> \o Mounted[f].name
  OBVIOUS
<1>7. fs_find_file(Mounted, Root, path) = f /\ Len(path) \in Nat /\ f # Null
  BY <1>2, <1>4, <1>5, <1>6 DEF LinksNamed, LinkIn, Names
<1>8. Root \in Named(Mounted) \union {Null} /\ f \in Named(tree)
  BY <1>2, <1>3, TreeFacts DEF LinkIn, Named
<1>9. fs_find_file(tree, Root, path) = f
  BY <1>1, <1>2, <1>7, <1>8, FindGrows
<1>10. proc_fs_stat(path) = kfstat(f)
  BY <1>7, <1>9 DEF proc_fs_stat
<1>11. ASSUME stage = "run", Last(Chain(f)) # Null
       PROVE  proc_fs_stat(path).size = tree[Last(Chain(f))].length
  <2>1. FollowedUp(tree, "run", kthread["kern"])
    BY <1>11 DEF LinksInv
  <2> QED BY <1>1, <1>8, <1>10, <1>11, <2>1, SizeAtEnd
<1> QED BY <1>3, <1>5, <1>6, <1>11, IsLinkIn

\* What a kernel thread has read of the list of modules is the whole of it.
THEOREM ReadsCorrect == Spec => []ReadWhole
<1>1. LinksInv => ReadWhole
  BY DEF LinksInv, InHand, Working, ReadWhole
<1> QED BY <1>1, LinksInvariant, PTL

\* Descriptors lead to live handles on the files they were opened on, lists of modules are
\* read whole, and a link that has been followed still leads to where opening it leads, with
\* the size that stat reports; for every archive whose links are found in the root by their
\* names, whatever was opened and registered since, and in whatever order.
THEOREM FilesCorrect == LinksNamed /\ Spec => []FilesInv
<1> SUFFICES ASSUME LinksNamed PROVE Spec => []FilesInv
  OBVIOUS
<1>1. FilesIndInv /\ LinksInv => LinksFresh
  BY LinksSuffice
<1>2. Spec => []LinksFresh
  BY <1>1, LinksInvariant, PTL
<1>3. TypeOK /\ DescriptorsSound /\ LinksFresh /\ ReadWhole => FilesInv
  BY DEF FilesInv
<1> QED BY <1>2, <1>3, FilesTyped, DescriptorsCorrect, ReadsCorrect, PTL

-----------------------------------------------------------------------------
(* Listings.                                                                *)

\* The children of d, file after file.
Kept(t, d, f, s) == IF t[f].parent = d THEN Append(s, f) ELSE s
Lists(t, d, w) ==
    /\ w \in [0..Len(t) -> Seq(Nat)] /\ w[0] = <<>>
    /\ \A f \in 1..Len(t) : w[f] = Kept(t, d, f, w[f - 1])
LEMMA ChildrenIs ==
    ASSUME NEW t, IsTree(t), NEW d
    PROVE  \E w : Lists(t, d, w) /\ Children(t, d) = w[Len(t)]
<1> DEFINE N == Len(t)
           Eq(w) == w = [f \in 0 .. N |-> IF f = 0 THEN <<>>
                                          ELSE IF t[f].parent = d THEN Append(w[f - 1], f) ELSE w[f - 1]]
           listed == CHOOSE w : Eq(w)
<1>1. Children(t, d) = listed[N]
  BY DEF Children
<1>2. N \in Nat
  BY TreeFacts
<1> HIDE DEF N
<1>3. \E w : Eq(w)
  <2>0. PICK S, s0, g : /\ S = Seq(Nat) /\ s0 = <<>>
                        /\ g = [f \in Nat |-> [s \in Seq(Nat) |-> IF t[f].parent = d THEN Append(s, f) ELSE s]]
    OBVIOUS
  <2>1. StepsOf(S, g) /\ s0 \in S
    BY <2>0 DEF StepsOf
  <2>2. PICK w : Repeats(S, s0, g, N, w)
    BY <1>2, <2>1, Repeated
  <2>3. ASSUME NEW f \in 1..N
        PROVE  w[f] = IF t[f].parent = d THEN Append(w[f - 1], f) ELSE w[f - 1]
    <3>1. f \in Nat /\ f - 1 \in 0..N
      BY <1>2
    <3>2. w[f] = g[f][w[f - 1]] /\ w[f - 1] \in Seq(Nat)
      BY <2>0, <2>2, <3>1 DEF Repeats
    <3> QED BY <2>0, <3>1, <3>2
  <2>4. \A f \in 0..N : f # 0 => f \in 1..N
    BY <1>2
  <2>5. w = [f \in 0..N |-> w[f]] /\ w[0] = <<>>
    BY <2>0, <2>2 DEF Repeats
  <2>6. Eq(w)
    BY <2>3, <2>4, <2>5
  <2> QED BY <2>6
<1>4. Eq(listed)
  BY <1>3
<1> HIDE DEF listed
<1>5. 0 \in 0..N /\ \A f \in 1..N : f \in 0..N /\ f # 0 /\ f - 1 \in 0..N /\ f \in Nat
  BY <1>2
<1>6. listed[0] = <<>> /\ \A f \in 1..N : listed[f] = Kept(t, d, f, listed[f - 1])
  BY <1>4, <1>5 DEF Kept
<1>7. \A f \in 0..N : listed[f] \in Seq(Nat)
  <2>1. PICK S : S = Seq(Nat)
    OBVIOUS
  <2>2. listed[0] \in S
    BY <1>6, <2>1
  <2>3. ASSUME NEW f \in 1..N, listed[f - 1] \in S PROVE listed[f] \in S
    <3>1. PICK s : s = listed[f - 1]
      OBVIOUS
    <3>2. s \in Seq(Nat) /\ f \in Nat /\ listed[f] = Kept(t, d, f, s)
      BY <1>5, <1>6, <2>1, <2>3, <3>1
    <3>3. Append(s, f) \in Seq(Nat)
      BY <3>2
    <3> QED BY <2>1, <3>2, <3>3 DEF Kept
  <2>4. \A f \in 0..N : listed[f] \in S
    BY <1>2, <2>2, <2>3, Stays
  <2> QED BY <2>1, <2>4
<1>8. listed \in [0..N -> Seq(Nat)]
  <2>1. listed = [f \in 0..N |-> listed[f]]
    BY <1>4
  <2> HIDE DEF Eq
  <2> QED BY <1>7, <2>1
<1>9. Lists(t, d, listed)
  BY <1>6, <1>8 DEF Lists, N
<1> QED BY <1>1, <1>9 DEF N

\* They are files of the tree with the parent d, each of them once and in order.
Upward(t, d, s, n) ==
    /\ s \in Seq(Nat)
    /\ \A i \in 1..Len(s) : s[i] \in 1..n /\ t[s[i]].parent = d
    /\ \A i, j \in 1..Len(s) : i < j => s[i] < s[j]
LEMMA KeptUpward ==
    ASSUME NEW t, NEW d, NEW n \in Nat, n # 0, NEW s, Upward(t, d, s, n - 1)
    PROVE  Upward(t, d, Kept(t, d, n, s), n)
<1>1. s \in Seq(Nat) /\ Len(s) \in Nat /\ \A i \in 1..Len(s) : s[i] \in 1..(n - 1) /\ t[s[i]].parent = d
  BY DEF Upward
<1>2. CASE t[n].parent # d
  <2>1. Kept(t, d, n, s) = s
    BY <1>2 DEF Kept
  <2>2. \A i \in 1..Len(s) : s[i] \in 1..n
    BY <1>1
  <2> QED BY <2>1, <2>2 DEF Upward
<1>3. CASE t[n].parent = d
  <2>1. PICK u, m : u = Append(s, n) /\ m = Len(s)
    OBVIOUS
  <2>2. u \in Seq(Nat) /\ Len(u) = m + 1 /\ u[m + 1] = n /\ \A i \in 1..m : u[i] = s[i]
    BY <1>1, <2>1
  <2>3. m \in Nat /\ \A i \in 1..(m + 1) : i \in 1..m \/ i = m + 1
    BY <1>1, <2>1
  <2>4. \A i \in 1..(m + 1) : u[i] \in 1..n /\ t[u[i]].parent = d
    BY <1>1, <1>3, <2>1, <2>2, <2>3
  <2>5. ASSUME NEW i \in 1..(m + 1), NEW j \in 1..(m + 1), i < j PROVE u[i] < u[j]
    <3>1. i \in 1..m
      BY <2>3, <2>5
    <3>2. CASE j \in 1..m
      BY <2>1, <2>2, <2>5, <3>1, <3>2 DEF Upward
    <3>3. CASE j = m + 1
      <4>1. s[i] \in 1..(n - 1)
        BY <1>1, <2>1, <3>1
      <4> QED BY <2>2, <3>1, <3>3, <4>1
    <3> QED BY <2>3, <3>2, <3>3
  <2>6. Upward(t, d, u, n)
    BY <2>2, <2>4, <2>5 DEF Upward
  <2> QED BY <1>3, <2>1, <2>6 DEF Kept
<1> QED BY <1>2, <1>3

LEMMA ChildrenUpward ==
    ASSUME NEW t, IsTree(t), NEW d
    PROVE  Upward(t, d, Children(t, d), Len(t))
<1>1. PICK w, N : Lists(t, d, w) /\ N = Len(t) /\ Children(t, d) = w[N]
  BY ChildrenIs
<1>2. N \in Nat /\ 0 \in 0..N /\ N \in 0..N /\ \A n \in 1..N : n \in 0..N /\ n - 1 \in 0..N /\ n \in Nat /\ n # 0
  BY <1>1, TreeFacts
<1>3. PICK good, yes : good = [n \in 0..N |-> IF Upward(t, d, w[n], n) THEN 1 ELSE 0] /\ yes = {1}
  OBVIOUS
<1>4. good[0] \in yes
  <2>1. w[0] = <<>>
    BY <1>1 DEF Lists
  <2>2. Upward(t, d, <<>>, 0)
    BY DEF Upward
  <2> QED BY <1>2, <1>3, <2>1, <2>2
<1>5. ASSUME NEW n \in 1..N, good[n - 1] \in yes PROVE good[n] \in yes
  <2>1. Upward(t, d, w[n - 1], n - 1)
    BY <1>2, <1>3, <1>5
  <2>2. w[n] = Kept(t, d, n, w[n - 1])
    BY <1>1 DEF Lists
  <2>3. Upward(t, d, w[n], n)
    BY <1>2, <2>1, <2>2, KeptUpward
  <2> QED BY <1>2, <1>3, <2>3
<1>6. good[N] \in yes
  <2>1. \A n \in 0..N : good[n] \in yes
    BY <1>2, <1>4, <1>5, Stays
  <2> QED BY <1>2, <2>1
<1>7. Upward(t, d, w[N], N)
  BY <1>2, <1>3, <1>6
<1> QED BY <1>1, <1>7

\* Files that are added come last.
Wider(t, u) == Len(t) <= Len(u) /\ \A f \in DOMAIN t : u[f].parent = t[f].parent
Starts(a, b) == Len(a) <= Len(b) /\ \A i \in 1..Len(a) : b[i] = a[i]
LEMMA ChildrenGrow ==
    ASSUME NEW t, IsTree(t), NEW u, IsTree(u), Wider(t, u), NEW d
    PROVE  /\ Starts(Children(t, d), Children(u, d))
           /\ Len(u) = Len(t) => Children(u, d) = Children(t, d)
<1>1. PICK w, N : Lists(t, d, w) /\ N = Len(t) /\ Children(t, d) = w[N]
  BY ChildrenIs
<1>2. PICK x, M : Lists(u, d, x) /\ M = Len(u) /\ Children(u, d) = x[M]
  BY ChildrenIs
<1>3. /\ N \in Nat /\ M \in Nat /\ N <= M /\ 0 \in 0..M /\ M \in 0..M /\ N \in 0..M /\ N \in 0..N
      /\ \A n \in 1..M : n \in 0..M /\ n - 1 \in 0..M /\ n \in Nat
  BY <1>1, <1>2, TreeFacts DEF Wider
<1> DEFINE Agree(n) == IF n <= N THEN x[n] = w[n] ELSE Starts(w[N], x[n])
<1>4. PICK good, yes : good = [n \in 0..M |-> IF Agree(n) THEN 1 ELSE 0] /\ yes = {1}
  OBVIOUS
<1>5. Agree(0)
  BY <1>1, <1>2, <1>3 DEF Lists
<1>6. w[N] \in Seq(Nat) /\ Starts(w[N], w[N]) /\ \A n \in 0..M : x[n] \in Seq(Nat)
  <2>1. w[N] \in Seq(Nat) /\ \A n \in 0..M : x[n] \in Seq(Nat)
    BY <1>1, <1>2, <1>3 DEF Lists
  <2> QED BY <2>1 DEF Starts
<1>7. ASSUME NEW n \in 1..M, Agree(n - 1) PROVE Agree(n)
  <2>1. x[n] = Kept(u, d, n, x[n - 1])
    BY <1>2 DEF Lists
  <2>2. CASE n <= N
    <3>1. n \in 1..N /\ n \in DOMAIN t /\ n - 1 <= N
      BY <1>1, <1>3, <2>2, TreeFacts
    <3>2. w[n] = Kept(t, d, n, w[n - 1]) /\ u[n].parent = t[n].parent /\ x[n - 1] = w[n - 1]
      BY <1>1, <1>7, <3>1 DEF Lists, Wider
    <3> QED BY <2>1, <2>2, <3>2 DEF Kept
  <2>3. CASE ~ (n <= N)
    <3>1. Starts(w[N], x[n - 1])
      <4>1. n - 1 = N \/ ~ (n - 1 <= N)
        BY <1>3, <2>3
      <4> QED BY <1>3, <1>6, <1>7, <4>1
    <3>2. PICK a, b : a = w[N] /\ b = x[n - 1]
      OBVIOUS
    <3>3. a \in Seq(Nat) /\ b \in Seq(Nat) /\ n \in Nat /\ Starts(a, b)
      BY <1>3, <1>6, <3>1, <3>2
    <3>4. Starts(a, Append(b, n))
      BY <3>3 DEF Starts
    <3>5. x[n] = b \/ x[n] = Append(b, n)
      BY <2>1, <3>2 DEF Kept
    <3>6. Starts(a, x[n])
      BY <3>3, <3>4, <3>5
    <3> QED BY <2>3, <3>2, <3>6
  <2> QED BY <2>2, <2>3
<1> HIDE DEF Agree
<1>8. good[0] \in yes /\ \A n \in 1..M : good[n - 1] \in yes => good[n] \in yes
  BY <1>3, <1>4, <1>5, <1>7
<1>9. good[M] \in yes
  <2>1. \A n \in 0..M : good[n] \in yes
    BY <1>3, <1>8, Stays
  <2> QED BY <1>3, <2>1
<1>10. Agree(M)
  BY <1>3, <1>4, <1>9
<1>11. CASE M <= N
  <2>1. M = N /\ x[M] = w[M]
    BY <1>3, <1>10, <1>11 DEF Agree
  <2> QED BY <1>1, <1>2, <1>6, <2>1
<1>12. CASE ~ (M <= N)
  <2>1. M # N /\ Starts(w[N], x[M])
    BY <1>3, <1>10, <1>12 DEF Agree
  <2> QED BY <1>1, <1>2, <2>1
<1> QED BY <1>11, <1>12

\* Every file of a directory is found in it by its name, when names are plain: no
\* separator, and no dot at the beginning.
PlainName(s) == s \in Seq(ToSet(s)) /\ Len(s) >= 1 /\ s[1] # Dot /\ \A i \in 1..Len(s) : s[i] # Sep
LEMMA FoundByName ==
    ASSUME NEW t, IsTree(t), NEW d \in Named(t), NEW g \in DOMAIN t, t[g].parent = d, PlainName(t[g].name)
    PROVE  fs_find_file(t, d, t[g].name) # Null
<1>1. PICK path, N : path = t[g].name /\ N = Len(path) + 1
  OBVIOUS
<1>2. path \in Seq(ToSet(path)) /\ Len(path) \in Nat /\ Len(path) >= 1 /\ path[1] # Dot /\ path[1] # Sep
  BY <1>1 DEF PlainName
<1>3. d # Null /\ d \in Nat /\ g \in Nat
  BY TreeFacts, FilesAssumption
<1>4. PICK w : Walks(t, d, path, w) /\ fs_find_file(t, d, path) = w[N].file
  BY <1>1, <1>2, WalkIs
<1>5. /\ N \in Nat /\ 0 \in 0..N /\ 1 \in 1..N /\ N \in 0..N /\ 1 - 1 = 0
      /\ \A n \in 1..N : n \in 0..N /\ n - 1 \in 0..N
  BY <1>1, <1>2
<1>6. NextSep(path, 1) = Len(path) + 1
  <2>1. {j \in 1 .. Len(path) : path[j] = Sep} \union {Len(path) + 1} = {Len(path) + 1}
    BY <1>1 DEF PlainName
  <2>2. PICK S, m : S = {Len(path) + 1} /\ m = Len(path) + 1
    OBVIOUS
  <2>3. S \in SUBSET Nat /\ S # {}
    BY <1>2, <2>2
  <2>4. Min(S) \in S
    BY <2>3, MinFacts
  <2> QED BY <2>1, <2>2, <2>4 DEF NextSep
<1>7. SubSeq(path, 1, Len(path)) = path
  BY <1>2
<1>8. fs_finddir(t, d, path) # Null
  <2> DEFINE named == {f \in DOMAIN t : t[f].parent = d /\ t[f].name = path}
  <2>1. named \in SUBSET Nat /\ named # {}
    BY <1>1, TreeFacts
  <2>2. Min(named) \in named
    <3> HIDE DEF named
    <3> QED BY <2>1, MinFacts
  <2>3. fs_finddir(t, d, path) = Min(named)
    BY <1>3, <2>1 DEF fs_finddir
  <2> QED BY <2>1, <2>2, <2>3, FilesAssumption
<1>9. PICK r : r = fs_finddir(t, d, path)
  OBVIOUS
<1>10. FindStep(t, d, path, 1) = Found(r)
  <2>1. Len(path) + 1 - 1 = Len(path) /\ Len(path) + 1 > Len(path) /\ ~ (1 > Len(path))
    BY <1>2
  <2>2. fs_finddir(t, d, SubSeq(path, 1, NextSep(path, 1) - 1)) = r
    <3>1. PICK e : e = NextSep(path, 1) - 1
      OBVIOUS
    <3>2. e = Len(path)
      BY <1>6, <2>1, <3>1
    <3>3. SubSeq(path, 1, e) = path
      BY <1>7, <3>2, Zenon
    <3>4. fs_finddir(t, d, SubSeq(path, 1, e)) = r
      BY <1>9, <3>3, Zenon
    <3> QED BY <3>1, <3>4, Zenon
  <2> QED BY <1>2, <1>3, <1>6, <2>1, <2>2 DEF FindStep
<1>11. w[1] = Found(r)
  <2>1. w[0] = GoOn(d, 1) /\ w[1] = Call(t, path, w[0])
    BY <1>1, <1>4, <1>5 DEF Walks
  <2>2. Call(t, path, GoOn(d, 1)) = FindStep(t, d, path, 1)
    BY DEF Call, GoOn
  <2> QED BY <1>10, <2>1, <2>2
<1>12. PICK S, x : S = {Found(r)} /\ x = [n \in 0..N |-> IF n = 0 THEN Found(r) ELSE w[n]]
  OBVIOUS
<1>13. ASSUME NEW n \in 1..N, x[n - 1] \in S PROVE x[n] \in S
  <2>1. CASE n = 1
    BY <1>5, <1>11, <1>12, <2>1
  <2>2. CASE n # 1
    <3>1. n - 1 # 0 /\ n # 0 /\ n - 1 \in 0..N /\ n \in 0..N
      BY <1>5, <2>2
    <3>2. w[n - 1] = Found(r) /\ x[n] = w[n]
      BY <1>12, <1>13, <3>1
    <3>3. w[n] = Call(t, path, w[n - 1])
      BY <1>1, <1>4 DEF Walks
    <3>4. Call(t, path, Found(r)) = Found(r)
      BY DEF Call, Found
    <3> QED BY <1>12, <3>2, <3>3, <3>4
  <2> QED BY <2>1, <2>2
<1>14. x[0] \in S
  BY <1>5, <1>12
<1>15. x[N] \in S
  <2>1. \A n \in 0..N : x[n] \in S
    BY <1>5, <1>13, <1>14, Stays
  <2> QED BY <1>5, <2>1
<1>16. w[N] = Found(r)
  BY <1>1, <1>2, <1>5, <1>12, <1>15
<1> QED BY <1>1, <1>4, <1>8, <1>9, <1>16 DEF Found

\* ".", ".." and the children, in tree t.
Entries(t, f) == <<f, IF t[f].parent = Null THEN f ELSE t[f].parent>> \o Children(t, f)
LEMMA EntriesFacts ==
    ASSUME NEW t, IsTree(t), NEW f \in DOMAIN t, NEW cs, cs = Children(t, f), NEW es, es = Entries(t, f)
    PROVE  /\ cs \in Seq(Nat) /\ es \in Seq(Nat) /\ Len(es) = Len(cs) + 2
           /\ es[1] = f /\ es[2] = IF t[f].parent = Null THEN f ELSE t[f].parent
           /\ \A i \in 1..Len(cs) : es[i + 2] = cs[i]
<1>1. cs \in Seq(Nat)
  BY ChildrenUpward DEF Upward
<1>2. PICK q : q = IF t[f].parent = Null THEN f ELSE t[f].parent
  OBVIOUS
<1>3. f \in Nat /\ q \in Nat
  BY <1>2, TreeFacts DEF IsFile
<1>4. es = <<f, q>> \o cs
  BY <1>2 DEF Entries
<1>5. PICK a : a = <<f, q>>
  OBVIOUS
<1>6. a \in Seq(Nat) /\ Len(a) = 2 /\ a[1] = f /\ a[2] = q
  BY <1>3, <1>5
<1>7. es \in Seq(Nat) /\ Len(es) = 2 + Len(cs) /\ es[1] = a[1] /\ es[2] = a[2]
  BY <1>1, <1>4, <1>5, <1>6
<1>8. \A i \in 1..Len(cs) : es[i + 2] = cs[i]
  BY <1>1, <1>4, <1>5, <1>6
<1>9. Len(cs) \in Nat
  BY <1>1
<1> QED BY <1>1, <1>2, <1>6, <1>7, <1>8, <1>9

\* What a program's DIR k says, with its table and what its descriptors were opened on:
\* since an opendir at index 0 it has seen the entries of the directory up to its index.
DirSet == [fd : Descs \union {Null}, idx : Nat, seen : Seq(Nat), fresh : BOOLEAN, ended : BOOLEAN]
DirOK(t, k, table, on) ==
    k.fd # Null =>
        /\ table[k.fd] # Null /\ on[k.fd] \in DOMAIN t
        /\ k.fresh => Len(k.seen) = k.idx /\ Starts(k.seen, Entries(t, on[k.fd]))
DirsInv ==
    ~misused =>
        /\ dirp \in [Procs -> DirSet]
        /\ \A p \in Procs : DirOK(tree, dirp[p], fd[p], opened[p])
        /\ \A p \in Procs \ alive : dirp[p] = NoDir

\* kterm's ls, in thread k, has seen the children up to the current one.
LsOK(t, k) ==
    /\ k.at \notin {"ls", "done"} => k.seen = <<>>
    /\ k.at = "ls" => /\ k.seen \in Seq(Nat) /\ Starts(k.seen, Children(t, k.dir))
                      /\ Len(k.seen) < Len(Children(t, k.dir))
                      /\ k.file = Children(t, k.dir)[Len(k.seen) + 1]

\* The root has no parent, and every file that has a name has a plain one.
PlainTree(t) ==
    t[Root].parent = Null /\ \A f \in DOMAIN t : t[f].name # <<>> => PlainName(t[f].name)

ListsInv == PlainTree(tree) /\ DirsInv /\ LsOK(tree, kthread["kterm"])

\* The files of the archive have plain names.
NamesPlain == \A f \in DOMAIN Mounted : Mounted[f].name # <<>> => PlainName(Mounted[f].name)

LEMMA NoDirFacts == NoDir \in DirSet /\ NoDir.fd = Null
BY DEF NoDir, DirSet

LEMMA StartsSame ==
    ASSUME NEW a, a \in Seq(Nat), NEW b, b \in Seq(Nat), Starts(a, b), Len(b) <= Len(a)
    PROVE  a = b
<1>1. Len(a) = Len(b)
  BY DEF Starts
<1> QED BY <1>1 DEF Starts

LEMMA StartsOn ==
    ASSUME NEW a, a \in Seq(Nat), NEW b, b \in Seq(Nat), NEW c, c \in Seq(Nat), Starts(a, b), Starts(b, c)
    PROVE  Starts(a, c)
BY DEF Starts

LEMMA StartsMore ==
    ASSUME NEW a, a \in Seq(Nat), NEW b, b \in Seq(Nat), Starts(a, b), Len(a) < Len(b)
    PROVE  /\ Starts(Append(a, b[Len(a) + 1]), b) /\ Append(a, b[Len(a) + 1]) \in Seq(Nat)
           /\ Len(Append(a, b[Len(a) + 1])) = Len(a) + 1
<1>1. PICK n, x : n = Len(a) + 1 /\ x = b[n]
  OBVIOUS
<1>2. n \in Nat /\ n \in 1..Len(b) /\ x \in Nat /\ n <= Len(b)
  BY <1>1
<1>3. PICK c : c = Append(a, x)
  OBVIOUS
<1>4. c \in Seq(Nat) /\ Len(c) = n /\ c[n] = x /\ \A i \in 1..Len(a) : c[i] = a[i]
  BY <1>1, <1>2, <1>3
<1>5. \A i \in 1..n : i = n \/ i \in 1..Len(a)
  BY <1>1, <1>2
<1>6. Starts(c, b)
  BY <1>1, <1>2, <1>4, <1>5 DEF Starts
<1> QED BY <1>1, <1>3, <1>4, <1>6

\* A tree of the same size has the same listings.
LEMMA DirSame ==
    ASSUME NEW t, IsTree(t), NEW u, IsTree(u), Wider(t, u), Len(u) = Len(t),
           NEW k, NEW table, NEW on, DirOK(t, k, table, on), NEW table2, NEW on2,
           k.fd # Null => table2[k.fd] = table[k.fd] /\ on2[k.fd] = on[k.fd]
    PROVE  DirOK(u, k, table2, on2)
<1> SUFFICES ASSUME k.fd # Null PROVE DirOK(u, k, table2, on2)
  BY DEF DirOK
<1>1. PICK f : f = on[k.fd]
  OBVIOUS
<1>2. f \in DOMAIN t /\ f \in DOMAIN u
  BY <1>1, TreeFacts DEF DirOK
<1>3. Children(u, f) = Children(t, f) /\ u[f].parent = t[f].parent
  BY <1>2, ChildrenGrow DEF Wider
<1>4. Entries(u, f) = Entries(t, f)
  BY <1>3 DEF Entries
<1> QED BY <1>1, <1>2, <1>4 DEF DirOK

LEMMA LsGrows ==
    ASSUME NEW t, IsTree(t), NEW u, IsTree(u), Wider(t, u), NEW k, LsOK(t, k)
    PROVE  LsOK(u, k)
<1> SUFFICES ASSUME k.at = "ls" PROVE LsOK(u, k)
  BY DEF LsOK
<1>1. PICK a, b, c : a = k.seen /\ b = Children(t, k.dir) /\ c = Children(u, k.dir)
  OBVIOUS
<1>2. /\ a \in Seq(Nat) /\ b \in Seq(Nat) /\ c \in Seq(Nat) /\ Starts(a, b) /\ Starts(b, c) /\ Len(a) < Len(b)
      /\ k.file = b[Len(a) + 1]
  BY <1>1, ChildrenUpward, ChildrenGrow DEF Upward, LsOK
<1>3. Starts(a, c)
  BY <1>2, StartsOn
<1>4. Len(a) < Len(c) /\ k.file = c[Len(a) + 1]
  BY <1>2 DEF Starts
<1> QED BY <1>1, <1>2, <1>3, <1>4 DEF LsOK

\* Changing fields of files leaves listings and names.
LEMMA SamePlaces ==
    ASSUME NEW t, IsTree(t), NEW u, IsTree(u), DOMAIN u = DOMAIN t,
           \A f \in DOMAIN t : u[f].parent = t[f].parent /\ u[f].name = t[f].name
    PROVE  Wider(t, u) /\ Len(u) = Len(t) /\ (PlainTree(t) => PlainTree(u))
<1>1. Len(t) \in Nat /\ Len(u) \in Nat /\ DOMAIN t = 1..Len(t) /\ DOMAIN u = 1..Len(u) /\ Root \in DOMAIN t
  BY TreeFacts
<1>2. Len(u) = Len(t)
  BY <1>1
<1>3. Len(t) <= Len(u)
  BY <1>1, <1>2
<1> QED BY <1>1, <1>2, <1>3 DEF Wider, PlainTree

\* A file with a plain name, or without one, comes to the end.
LEMMA AddPlaces ==
    ASSUME NEW t, IsTree(t), PlainTree(t), NEW name, name # <<>> => PlainName(name), NEW d \in Named(t),
           NEW u, u = fs_add_file(t, NewFile(name), d)
    PROVE  Wider(t, u) /\ PlainTree(u)
<1>1. PICK file : file = NewFile(name)
  OBVIOUS
<1>2. /\ IsFile(file, Len(t)) /\ file.ops # "initrd" /\ file.length = 0 /\ file.link = Null /\ file.name = name
  BY <1>1 DEF NewFile, IsFile, RootFile, FileFields, Operations
<1>3. u = fs_add_file(t, file, d)
  BY <1>1
<1>4. /\ IsTree(u) /\ Extends(t, u) /\ Len(u) = Len(t) + 1 /\ u[Len(t) + 1].name = name
      /\ \A f \in DOMAIN t : u[f] = t[f]
  BY <1>2, <1>3, AddExtends
<1>5. Wider(t, u)
  BY <1>4 DEF Wider, Extends
<1>6. \A f \in DOMAIN u : f \in DOMAIN t \/ f = Len(t) + 1
  BY <1>4, TreeFacts
<1>7. Root \in DOMAIN t
  BY TreeFacts
<1>8. PlainTree(u)
  BY <1>4, <1>6, <1>7 DEF PlainTree
<1> QED BY <1>5, <1>8

LEMMA StreamPlaces ==
    ASSUME NEW t, IsTree(t), PlainTree(t), NEW u, Streams(t, u)
    PROVE  Wider(t, u) /\ PlainTree(u)
<1>1. Wider(t, u)
  BY DEF Streams, Wider, Extends
<1>2. Root \in DOMAIN t
  BY TreeFacts
<1>3. PlainTree(u)
  BY <1>2 DEF Streams, PlainTree
<1> QED BY <1>1, <1>3

\* The steps of the kernel threads only add files.
LEMMA KernelPlaces ==
    ASSUME NamesPlain, KernelInv, KernelInv', LinksInv, PlainTree(tree), NEW t \in Threads, KernelStep(t)
    PROVE  Wider(tree, tree') /\ PlainTree(tree')
<1>1. IsTree(tree) /\ IsTree(tree') /\ Root \in Named(tree)
  BY TreeFacts DEF KernelInv
<1>2. PICK u : u = tree'
  OBVIOUS
<1>3. CASE UNCHANGED tree
  BY <1>1, <1>3, SamePlaces
<1>4. CASE KRelease(t) /\ tree' # tree
  <2>1. PICK f, next : u = [tree EXCEPT ![f].link = next]
    BY <1>2, <1>4 DEF KRelease
  <2>2. DOMAIN u = DOMAIN tree
    BY <2>1
  <2>3. ASSUME NEW g \in DOMAIN tree PROVE u[g].parent = tree[g].parent /\ u[g].name = tree[g].name
    <3>1. IsFile(tree[g], Len(tree))
      BY <1>1, TreeFacts
    <3> QED BY <2>1, <3>1 DEF IsFile, FileFields
  <2> QED BY <1>1, <1>2, <2>2, <2>3, SamePlaces
<1>5. CASE KOps(t)
  <2>1. PICK f : u = [tree EXCEPT ![f].ops = "zero"]
    BY <1>2, <1>5 DEF KOps
  <2>2. DOMAIN u = DOMAIN tree
    BY <2>1
  <2>3. ASSUME NEW g \in DOMAIN tree PROVE u[g].parent = tree[g].parent /\ u[g].name = tree[g].name
    <3>1. IsFile(tree[g], Len(tree))
      BY <1>1, TreeFacts
    <3> QED BY <2>1, <3>1 DEF IsFile, FileFields
  <2> QED BY <1>1, <1>2, <2>2, <2>3, SamePlaces
<1>6. CASE KInstall(t) /\ tree' # tree
  <2>1. kthread[t].at = "open" /\ kthread[t].file \in DOMAIN tree
    BY <1>6 DEF KInstall, LinksInv, InHand, Working
  <2>2. \/ u = fs_add_file(tree, NewFile(Tail(DevDir)), Root)
        \/ /\ u = fs_add_file(tree, NewFile(tree[kthread[t].file].name), _dev_file)
           /\ Loads[tree[kthread[t].file].name] = "driver" /\ _dev_file # Null
    BY <1>2, <1>6 DEF KInstall, Adds
  <2>3. CASE u = fs_add_file(tree, NewFile(Tail(DevDir)), Root)
    <3>1. PICK s : s = <<"dev">>
      OBVIOUS
    <3>2. u = fs_add_file(tree, NewFile(s), Root)
      <4>1. Tail(DevDir) = s
        BY <3>1 DEF DevDir
      <4> QED BY <2>3, <4>1
    <3>3. s \in Seq(ToSet(s)) /\ Len(s) = 1 /\ s[1] = "dev"
      BY <3>1 DEF ToSet
    <3>4. PlainName(s)
      BY <3>3 DEF PlainName, Dot, Sep
    <3> QED BY <1>1, <1>2, <3>2, <3>4, AddPlaces
  <2>4. CASE /\ u = fs_add_file(tree, NewFile(tree[kthread[t].file].name), _dev_file)
             /\ Loads[tree[kthread[t].file].name] = "driver" /\ _dev_file # Null
    <3>0. PICK name, d : name = tree[kthread[t].file].name /\ d = _dev_file
      OBVIOUS
    <3>3. name # <<>> => PlainName(name)
      BY <2>1, <3>0 DEF PlainTree
    <3>4. d \in Named(tree)
      <4>1. Len(DevDir) \in Nat /\ Null \in Named(tree) \union {Null}
        BY DEF DevDir
      <4>2. _dev_file \in Named(tree) \union {Null}
        BY <1>1, <4>1, FindFileIn DEF _dev_file
      <4> QED BY <2>4, <3>0, <4>2
    <3>5. u = fs_add_file(tree, NewFile(name), d)
      BY <2>4, <3>0
    <3> QED BY <1>1, <1>2, <3>3, <3>4, <3>5, AddPlaces
  <2> QED BY <2>2, <2>3, <2>4
<1>7. CASE (\E path \in KtermPaths \union Range(Preload) : KOpen(t, path)) \/ KReadFile(t) \/ KDone(t)
  <2>1. UNCHANGED tree
    BY <1>7, Zenon DEF KOpen, KReadFile, KDone
  <2> QED BY <1>3, <2>1
<1>8. CASE KLink(t) \/ HalfLinked(t)
  <2>1. UNCHANGED tree
    BY <1>8, Zenon DEF KLink, HalfLinked
  <2> QED BY <1>3, <2>1
<1> QED BY <1>3, <1>4, <1>5, <1>6, <1>7, <1>8, Zenon DEF KernelStep

\* They list nothing.
LEMMA KernelSeen ==
    ASSUME KernelInv, NEW t \in Threads, KernelStep(t), ~(KLink(t) \/ HalfLinked(t))
    PROVE  /\ \A k \in Threads : k # t => kthread'[k] = kthread[k]
           /\ kthread[t].at \notin {"ls", "done"} /\ kthread'[t].at \notin {"ls", "done"}
           /\ kthread'[t].seen \in {<<>>, kthread[t].seen}
<1>1. kthread = [k \in Threads |-> kthread[k]] /\ IsThread(kthread[t])
  BY DEF KernelInv, ThreadsOK
<1>2. kthread[t].at \notin {"ls", "done"}
  <2>1. kthread[t].at \in {"idle", "locked", "open", "ops", "loaded"}
    <3>1. CASE \E path \in KtermPaths \union Range(Preload) : KOpen(t, path)
      BY <3>1, Zenon DEF KOpen
    <3>2. CASE KRelease(t) \/ KReadFile(t) \/ KInstall(t) \/ KOps(t) \/ KDone(t)
      BY <3>2, Zenon DEF KRelease, KReadFile, KInstall, KOps, KDone
    <3> QED BY <3>1, <3>2, Zenon DEF KernelStep
  <2> QED BY <2>1
<1>3. ASSUME NEW rec, Goes(t, rec), rec.at \notin {"ls", "done"}, rec.seen \in {<<>>, kthread[t].seen}
      PROVE  /\ \A k \in Threads : k # t => kthread'[k] = kthread[k]
             /\ kthread'[t].at \notin {"ls", "done"} /\ kthread'[t].seen \in {<<>>, kthread[t].seen}
  BY <1>1, <1>3 DEF Goes
<1> DEFINE Rest(n, at) == [Idle(n) EXCEPT !.at = at]
           On(at, f, h, r) == [kthread[t] EXCEPT !.at = at, !.file = f, !.hand = h, !.read = r]
<1>4. \A n, at : at \in {"idle", "stop"} => Rest(n, at).at = at /\ Rest(n, at).seen = <<>>
  BY DEF Idle
<1>5. \A at, f, h, r : On(at, f, h, r).at = at /\ On(at, f, h, r).seen = kthread[t].seen
  BY <1>1 DEF IsThread
<1>6. \A n, at : at \in {"idle", "stop"} /\ Goes(t, Rest(n, at)) =>
          /\ \A k \in Threads : k # t => kthread'[k] = kthread[k]
          /\ kthread'[t].at \notin {"ls", "done"} /\ kthread'[t].seen \in {<<>>, kthread[t].seen}
  <2> TAKE n, at
  <2> HAVE at \in {"idle", "stop"} /\ Goes(t, Rest(n, at))
  <2>1. PICK rec : rec = Rest(n, at)
    OBVIOUS
  <2>2. rec.at = at /\ rec.seen = <<>> /\ Goes(t, rec)
    BY <1>4, <2>1
  <2> HIDE DEF Rest
  <2>3. rec.at \notin {"ls", "done"} /\ rec.seen \in {<<>>, kthread[t].seen}
    BY <2>2
  <2> QED BY <1>3, <2>2, <2>3
<1>7. \A at, f, h, r : at \notin {"ls", "done"} /\ Goes(t, On(at, f, h, r)) =>
          /\ \A k \in Threads : k # t => kthread'[k] = kthread[k]
          /\ kthread'[t].at \notin {"ls", "done"} /\ kthread'[t].seen \in {<<>>, kthread[t].seen}
  <2> TAKE at, f, h, r
  <2> HAVE at \notin {"ls", "done"} /\ Goes(t, On(at, f, h, r))
  <2>1. PICK rec : rec = On(at, f, h, r)
    OBVIOUS
  <2>2. rec.at = at /\ rec.seen = kthread[t].seen /\ Goes(t, rec)
    BY <1>5, <2>1
  <2> HIDE DEF On
  <2>3. rec.at \notin {"ls", "done"} /\ rec.seen \in {<<>>, kthread[t].seen}
    BY <2>2
  <2> QED BY <1>3, <2>2, <2>3
<1>8. \/ \E n, at : at \in {"idle", "stop"} /\ Goes(t, Rest(n, at))
      \/ \E at, f, h, r : at \notin {"ls", "done"} /\ Goes(t, On(at, f, h, r))
  <2> DEFINE k == kthread[t]
  <2>1. \A at : [k EXCEPT !.at = at] = On(at, k.file, k.hand, k.read)
    BY <1>1 DEF IsThread
  <2>2. \A at, f : [k EXCEPT !.at = at, !.file = f] = On(at, f, k.hand, k.read)
    BY <1>1 DEF IsThread
  <2>3. \A at, f, h : [k EXCEPT !.at = at, !.file = f, !.hand = h] = On(at, f, h, k.read)
    BY <1>1 DEF IsThread
  <2>4. \A at, r : [k EXCEPT !.at = at, !.read = r] = On(at, k.file, k.hand, r)
    BY <1>1 DEF IsThread
  <2>5. \A n : Idle(n) = Rest(n, "idle")
    BY DEF Idle
  <2> HIDE DEF Rest, On
  <2>6. ASSUME NEW path, KOpen(t, path)
        PROVE  \/ \E n, at : at \in {"idle", "stop"} /\ Goes(t, Rest(n, at))
               \/ \E at, f, h, r : at \notin {"ls", "done"} /\ Goes(t, On(at, f, h, r))
    <3>1. PICK c, f, h : \/ Goes(t, [Idle(kthread[t].n + 1) EXCEPT !.at = IF c THEN "stop" ELSE "idle"])
                         \/ Goes(t, [k EXCEPT !.at = IF c THEN "stuck" ELSE "locked", !.file = f, !.hand = h])
      BY <2>6, Zenon DEF KOpen
    <3>2. PICK at : at = IF c THEN "stop" ELSE "idle"
      OBVIOUS
    <3>3. PICK on : on = IF c THEN "stuck" ELSE "locked"
      OBVIOUS
    <3>4. CASE Goes(t, [Idle(kthread[t].n + 1) EXCEPT !.at = IF c THEN "stop" ELSE "idle"])
      <4>1. at \in {"idle", "stop"} /\ Goes(t, Rest(kthread[t].n + 1, at))
        BY <3>2, <3>4 DEF Rest
      <4> QED BY <4>1
    <3>5. CASE Goes(t, [k EXCEPT !.at = IF c THEN "stuck" ELSE "locked", !.file = f, !.hand = h])
      <4>1. on \notin {"ls", "done"} /\ Goes(t, On(on, f, h, k.read))
        BY <2>3, <3>3, <3>5
      <4> QED BY <4>1
    <3> QED BY <3>1, <3>4, <3>5
  <2>7. CASE Failed(t)
    BY <2>7 DEF Failed, Rest
  <2>8. CASE KRelease(t)
    <3>1. PICK c, f : \/ Goes(t, [k EXCEPT !.at = "open"]) \/ Failed(t)
                      \/ Goes(t, [k EXCEPT !.at = IF c THEN "stuck" ELSE "locked", !.file = f])
      BY <2>8 DEF KRelease, KFail
    <3>2. CASE Goes(t, [k EXCEPT !.at = "open"])
      <4>1. Goes(t, On("open", k.file, k.hand, k.read))
        BY <2>1, <3>2
      <4> QED BY <4>1
    <3>3. CASE Goes(t, [k EXCEPT !.at = IF c THEN "stuck" ELSE "locked", !.file = f])
      <4>1. PICK on : on = IF c THEN "stuck" ELSE "locked"
        OBVIOUS
      <4>2. on \notin {"ls", "done"} /\ Goes(t, On(on, f, k.hand, k.read))
        BY <2>2, <3>3, <4>1
      <4> QED BY <4>2
    <3> QED BY <2>7, <3>1, <3>2, <3>3
  <2>9. CASE KReadFile(t)
    <3>1. PICK r : Goes(t, [k EXCEPT !.at = "loaded", !.read = r])
      BY <2>9 DEF KReadFile
    <3>2. Goes(t, On("loaded", k.file, k.hand, r))
      BY <2>4, <3>1
    <3> QED BY <3>2
  <2>10. CASE KInstall(t)
    <3>1. PICK f : \/ Goes(t, [k EXCEPT !.at = "loaded"]) \/ Failed(t)
                   \/ Goes(t, [k EXCEPT !.at = "ops", !.file = f])
      BY <2>10 DEF KInstall
    <3>2. CASE Goes(t, [k EXCEPT !.at = "loaded"])
      <4>1. Goes(t, On("loaded", k.file, k.hand, k.read))
        BY <2>1, <3>2
      <4> QED BY <4>1
    <3>3. CASE Goes(t, [k EXCEPT !.at = "ops", !.file = f])
      <4>1. Goes(t, On("ops", f, k.hand, k.read))
        BY <2>2, <3>3
      <4> QED BY <4>1
    <3> QED BY <2>7, <3>1, <3>2, <3>3
  <2>11. CASE KOps(t)
    BY <2>1, <2>11 DEF KOps
  <2>12. CASE KDone(t)
    BY <2>5, <2>12 DEF KDone
  <2> QED BY <2>6, <2>8, <2>9, <2>10, <2>11, <2>12, Zenon DEF KernelStep
<1> HIDE DEF Rest, On
<1> QED BY <1>2, <1>6, <1>7, <1>8

-----------------------------------------------------------------------------
(* What a step does to the listings.                                        *)

\* A program has come to the end of a directory; kterm's ls has.
EndsRight(p) ==
    dirp'[p].ended /\ ~dirp[p].ended =>
        /\ SubSeq(dirp[p].seen, 3, Len(dirp[p].seen)) = Children(tree, ListedDir(p))
        /\ \A g \in Range(Children(tree, ListedDir(p))) : tree[g].name # <<>> =>
              proc_fs_access(p, dirp[p].fd, tree[g].name)
        /\ dirp[p].seen[1] = ListedDir(p)
        /\ dirp[p].seen[2] = Enter(tree, ListedDir(p), <<Dot, Dot>>)
LsRight ==
    kthread'["kterm"].at = "done" /\ kthread["kterm"].at # "done" =>
        kthread'["kterm"].seen = Children(tree, kthread["kterm"].dir)
ListsEnd == (\A p \in alive : EndsRight(p)) /\ LsRight

LEMMA ListsInit == NamesPlain /\ Init => ListsInv
<1> SUFFICES ASSUME NamesPlain, Init PROVE ListsInv
  OBVIOUS
<1>1. /\ tree = Mounted /\ dirp = [p \in Procs |-> NoDir]
      /\ kthread = [t \in Threads |-> IF t = "kterm" THEN [Idle(0) EXCEPT !.at = "start"] ELSE Idle(0)]
  BY DEF Init, Mounted
<1>2. Mounted[Root] = RootFile
  BY MountIn DEF Fresh, Mounted
<1>3. PlainTree(tree)
  BY <1>1, <1>2 DEF PlainTree, NamesPlain, RootFile
<1>4. DirsInv
  <2>1. dirp \in [Procs -> DirSet] /\ \A p \in Procs : dirp[p] = NoDir
    BY <1>1, NoDirFacts
  <2>2. \A p \in Procs : DirOK(tree, dirp[p], fd[p], opened[p])
    BY <2>1, NoDirFacts DEF DirOK
  <2> QED BY <2>1, <2>2 DEF DirsInv
<1>5. LsOK(tree, kthread["kterm"])
  BY <1>1 DEF LsOK, Idle, Threads
<1> QED BY <1>3, <1>4, <1>5 DEF ListsInv

\* Before init runs, no program lists anything.
LEMMA NoPrograms ==
    ASSUME ProcsInv, ListsInv, stage # "run", UNCHANGED <<procs, misused>>
    PROVE  DirsInv' /\ \A p \in alive : EndsRight(p)
<1>1. alive = {} /\ UNCHANGED <<alive, dirp>>
  BY DEF ProcsInv, ProcsOK, procs
<1>2. DirsInv'
  <2> SUFFICES ASSUME ~misused' PROVE DirsInv'
    BY DEF DirsInv
  <2>1. dirp' \in [Procs -> DirSet] /\ \A p \in Procs : dirp'[p] = NoDir
    BY <1>1 DEF ListsInv, DirsInv
  <2>2. \A p \in Procs : DirOK(tree', dirp'[p], fd'[p], opened'[p])
    BY <2>1, NoDirFacts DEF DirOK
  <2> QED BY <2>1, <2>2 DEF DirsInv
<1> QED BY <1>1, <1>2

\* Calls that neither list nor change the tree or the tables.
LEMMA StillLists ==
    ASSUME ListsInv, UNCHANGED <<tree, alive, fd, opened, dirp, kthread, misused>>
    PROVE  ListsInv' /\ ListsEnd
BY DEF ListsInv, DirsInv, ListsEnd, EndsRight, LsRight

LEMMA KernelLists ==
    ASSUME NamesPlain, FilesIndInv, FilesIndInv', LinksInv, ListsInv, NEW t \in Threads, KernelStep(t)
    PROVE  ListsInv' /\ ListsEnd
<1>0. CASE KLink(t) \/ HalfLinked(t)
  <2>1. UNCHANGED <<tree, alive, fd, opened, dirp, kthread, misused>>
    BY <1>0, Zenon DEF KLink, HalfLinked, procs, tables, kernel
  <2> QED BY <2>1, StillLists
<1> SUFFICES ASSUME ~(KLink(t) \/ HalfLinked(t)) PROVE ListsInv' /\ ListsEnd
  BY <1>0
<1>1. KernelInv /\ KernelInv' /\ ProcsInv /\ IsTree(tree) /\ IsTree(tree')
  BY DEF FilesIndInv, KernelInv
<1>2. stage # "run" /\ UNCHANGED <<procs, misused>>
  <2>1. Runs(t) /\ UNCHANGED <<procs, misused>>
    <3>1. CASE \E path \in KtermPaths \union Range(Preload) : KOpen(t, path)
      BY <3>1, Zenon DEF KOpen
    <3>2. CASE KRelease(t) \/ KReadFile(t) \/ KInstall(t) \/ KOps(t) \/ KDone(t)
      BY <3>2, Zenon DEF KRelease, KReadFile, KInstall, KOps, KDone
    <3> QED BY <3>1, <3>2, Zenon DEF KernelStep
  <2> QED BY <1>1, <2>1, RunsFacts DEF KernelInv
<1>3. DirsInv' /\ \A p \in alive : EndsRight(p)
  BY <1>1, <1>2, NoPrograms
<1>4. Wider(tree, tree') /\ PlainTree(tree')
  BY <1>1, KernelPlaces DEF ListsInv
<1>5. PICK k, j : k = kthread["kterm"] /\ j = kthread'["kterm"]
  OBVIOUS
<1>6. "kterm" \in Threads
  BY DEF Threads
<1>7. LsOK(tree, k)
  BY <1>5 DEF ListsInv
<1>8. j = k \/ (j.at \notin {"ls", "done"} /\ j.seen \in {<<>>, k.seen} /\ k.at \notin {"ls", "done"})
  BY <1>1, <1>5, <1>6, KernelSeen
<1>9. LsOK(tree', j)
  <2>1. CASE j = k
    BY <1>1, <1>4, <1>7, <2>1, LsGrows
  <2>2. CASE j.at \notin {"ls", "done"} /\ j.seen \in {<<>>, k.seen} /\ k.at \notin {"ls", "done"}
    BY <1>7, <2>2 DEF LsOK
  <2> QED BY <1>8, <2>1, <2>2
<1>10. LsRight
  BY <1>5, <1>8 DEF LsRight
<1> QED BY <1>3, <1>4, <1>5, <1>9, <1>10 DEF ListsInv, ListsEnd

\* kterm's stream.
LEMMA StreamLists ==
    ASSUME FilesIndInv, FilesIndInv', ListsInv, KStream
    PROVE  ListsInv' /\ ListsEnd
<1>1. /\ KernelInv /\ ProcsInv /\ IsTree(tree) /\ IsTree(tree') /\ kthread = [x \in Threads |-> kthread[x]]
      /\ "kterm" \in Threads /\ IsThread(kthread["kterm"])
  BY DEF FilesIndInv, KernelInv, ThreadsOK, Threads
<1>2. /\ stage # "run" /\ UNCHANGED <<procs, misused>> /\ kthread["kterm"].at = "start"
      /\ tree' = fs_add_file(tree, StreamFile, Root)
      /\ Goes("kterm", [kthread["kterm"] EXCEPT !.at = "idle"])
  BY DEF KStream, Adds, Runs
<1>3. DirsInv' /\ \A p \in alive : EndsRight(p)
  BY <1>1, <1>2, NoPrograms
<1>4. Wider(tree, tree') /\ PlainTree(tree')
  BY <1>1, <1>2, StreamAdded, StreamPlaces DEF ListsInv
<1>5. kthread'["kterm"] = [kthread["kterm"] EXCEPT !.at = "idle"]
  BY <1>1, <1>2 DEF Goes
<1>6. kthread'["kterm"].at = "idle" /\ kthread'["kterm"].seen = kthread["kterm"].seen
  BY <1>1, <1>5 DEF IsThread
<1>7. kthread["kterm"].seen = <<>>
  BY <1>2 DEF ListsInv, LsOK
<1>8. LsOK(tree', kthread'["kterm"]) /\ LsRight
  BY <1>6, <1>7 DEF LsOK, LsRight
<1> QED BY <1>3, <1>4, <1>8 DEF ListsInv, ListsEnd

\* kterm's ls.
LEMMA LsLists ==
    ASSUME FilesIndInv, ListsInv, fs_opendir \/ fs_readdir \/ ListDone
    PROVE  ListsInv' /\ ListsEnd
<1>1. KernelInv /\ ProcsInv /\ IsTree(tree)
  BY DEF FilesIndInv, KernelInv
<1>2. stage # "run" /\ UNCHANGED <<procs, misused, tree>>
  <2>1. Runs("kterm") /\ UNCHANGED <<procs, misused, tree>>
    BY Zenon DEF fs_opendir, fs_readdir, ListDone
  <2> QED BY <2>1 DEF Runs
<1>3. DirsInv' /\ \A p \in alive : EndsRight(p)
  BY <1>1, <1>2, NoPrograms
<1>4. PICK k, j : k = kthread["kterm"] /\ j = kthread'["kterm"]
  OBVIOUS
<1>5. /\ kthread = [x \in Threads |-> kthread[x]] /\ "kterm" \in Threads /\ IsThread(k) /\ LsOK(tree, k)
  BY <1>1, <1>4 DEF KernelInv, ThreadsOK, ListsInv, Threads
<1>6. \A rec : Goes("kterm", rec) => j = rec
  BY <1>4, <1>5 DEF Goes
<1>7. SUFFICES LsOK(tree, j) /\ LsRight
  BY <1>2, <1>3, <1>4 DEF ListsInv, ListsEnd
<1>8. CASE UNCHANGED kthread
  BY <1>4, <1>5, <1>8 DEF LsRight
<1>9. CASE ListDone
  <2>1. j = Idle(k.n)
    BY <1>4, <1>6, <1>9 DEF ListDone
  <2>2. j.at = "idle" /\ j.seen = <<>>
    BY <2>1 DEF Idle
  <2> QED BY <1>4, <2>2 DEF LsOK, LsRight
<1>10. CASE fs_opendir /\ kthread' # kthread
  <2>1. k.at = "idle"
    BY <1>4, <1>10, Zenon DEF fs_opendir
  <2>2. PICK d, cs : /\ cs = Children(tree, d) /\ cs # <<>>
                     /\ Goes("kterm", [k EXCEPT !.at = "ls", !.dir = d, !.file = Head(cs)])
    BY <1>4, <1>10, Zenon DEF fs_opendir
  <2>3. cs \in Seq(Nat)
    BY <1>1, <2>2, ChildrenUpward DEF Upward
  <2>4. PICK f : f = Head(cs)
    OBVIOUS
  <2>5. f = cs[1] /\ Len(cs) > 0 /\ Len(cs) \in Nat
    BY <2>2, <2>3, <2>4
  <2>6. j = [k EXCEPT !.at = "ls", !.dir = d, !.file = f]
    BY <1>6, <2>2, <2>4
  <2>7. j.at = "ls" /\ j.dir = d /\ j.file = f /\ j.seen = k.seen
    BY <1>5, <2>6 DEF IsThread
  <2>8. j.seen = <<>>
    BY <1>5, <2>1, <2>7 DEF LsOK
  <2>9. Starts(<<>>, cs) /\ Len(<<>>) = 0 /\ <<>> \in Seq(Nat)
    BY <2>5 DEF Starts
  <2>10. LsOK(tree, j)
    BY <2>2, <2>5, <2>7, <2>8, <2>9 DEF LsOK
  <2> QED BY <1>4, <2>7, <2>10 DEF LsRight
<1>11. CASE fs_readdir
  <2>1. PICK cs, a : cs = Children(tree, k.dir) /\ a = k.seen
    OBVIOUS
  <2>2. PICK n : n = Len(a) + 1
    OBVIOUS
  <2>3. k.at = "ls"
    BY <1>4, <1>11, Zenon DEF fs_readdir
  <2>4. /\ a \in Seq(Nat) /\ Starts(a, cs) /\ Len(a) < Len(cs) /\ k.file = cs[n]
    BY <1>5, <2>1, <2>2, <2>3 DEF LsOK
  <2>5. Upward(tree, k.dir, cs, Len(tree))
    BY <1>1, <2>1, ChildrenUpward
  <2>6. cs \in Seq(Nat) /\ n \in 1..Len(cs) /\ n \in Nat /\ Len(cs) \in Nat /\ DOMAIN cs = 1..Len(cs) /\ Len(a) \in Nat
    BY <2>2, <2>4, <2>5 DEF Upward
  <2>7. \A i \in 1..Len(cs) : cs[i] = cs[n] => i = n
    <3> TAKE i \in 1..Len(cs)
    <3>1. cs[i] \in Nat /\ cs[n] \in Nat
      BY <2>6
    <3>2. i < n => cs[i] < cs[n]
      BY <2>5, <2>6 DEF Upward
    <3>3. n < i => cs[n] < cs[i]
      BY <2>5, <2>6 DEF Upward
    <3> QED BY <2>6, <3>1, <3>2, <3>3
  <2>8. PICK m : m = CHOOSE i \in DOMAIN cs : cs[i] = k.file
    OBVIOUS
  <2>9. m = n
    BY <2>4, <2>6, <2>7, <2>8
  <2>10. /\ j.seen = Append(a, k.file) /\ j.at = (IF m = Len(cs) THEN "done" ELSE "ls") /\ j.dir = k.dir
         /\ j.file = IF m = Len(cs) THEN Null ELSE cs[m + 1]
    <3> DEFINE K == kthread["kterm"]
               C == Children(tree, K.dir)
               I == CHOOSE i \in DOMAIN C : C[i] = K.file
    <3>1. Goes("kterm", [K EXCEPT !.seen = Append(@, K.file), !.at = IF I = Len(C) THEN "done" ELSE "ls",
                                  !.file = IF I = Len(C) THEN Null ELSE C[I + 1]])
      BY <1>11, Zenon DEF fs_readdir
    <3>2. K = k /\ C = cs
      BY <1>4, <2>1
    <3>3. I = m
      BY <2>8, <3>2
    <3> HIDE DEF K, C, I
    <3>4. j = [K EXCEPT !.seen = Append(@, K.file), !.at = IF I = Len(C) THEN "done" ELSE "ls",
                        !.file = IF I = Len(C) THEN Null ELSE C[I + 1]]
      BY <1>6, <3>1
    <3> QED BY <1>5, <2>1, <3>2, <3>3, <3>4 DEF IsThread
  <2>11. PICK b : b = Append(a, cs[n])
    OBVIOUS
  <2>12. b \in Seq(Nat) /\ Starts(b, cs) /\ Len(b) = n
    BY <2>2, <2>4, <2>6, <2>11, StartsMore
  <2>13. /\ j.seen = b /\ j.at = (IF n = Len(cs) THEN "done" ELSE "ls") /\ j.dir = k.dir
         /\ j.file = IF n = Len(cs) THEN Null ELSE cs[n + 1]
    BY <2>4, <2>9, <2>10, <2>11
  <2>14. CASE n = Len(cs)
    <3>1. b = cs
      <4>1. Len(cs) <= Len(b)
        BY <2>6, <2>12, <2>14
      <4> QED BY <2>6, <2>12, <4>1, StartsSame
    <3>2. j.at = "done" /\ j.seen = cs
      BY <2>13, <2>14, <3>1
    <3> QED BY <1>4, <2>1, <3>2 DEF LsOK, LsRight
  <2>15. CASE n # Len(cs)
    <3>1. n < Len(cs)
      <4>1. PICK M : M = Len(cs)
        OBVIOUS
      <4>2. n \in 1..M /\ n # M /\ M \in Nat
        BY <2>6, <2>15, <4>1
      <4>3. n < M
        BY <4>2
      <4> QED BY <4>1, <4>3
    <3>2. j.at = "ls" /\ j.seen = b /\ j.dir = k.dir /\ j.file = cs[n + 1]
      BY <2>13, <2>15
    <3>3. LsOK(tree, j)
      BY <2>1, <2>12, <3>1, <3>2 DEF LsOK
    <3> QED BY <1>4, <3>2, <3>3 DEF LsRight
  <2> QED BY <2>14, <2>15
<1> QED BY <1>8, <1>9, <1>10, <1>11

\* What a listing that is complete contains.
LEMMA EndFacts ==
    ASSUME NEW t, IsTree(t), PlainTree(t), NEW f \in Named(t), NEW es, es = Entries(t, f)
    PROVE  /\ SubSeq(es, 3, Len(es)) = Children(t, f)
           /\ es[1] = f /\ es[2] = Enter(t, f, <<Dot, Dot>>)
           /\ \A g \in Range(Children(t, f)) : t[g].name # <<>> => fs_find_file(t, f, t[g].name) # Null
<1>0. f \in DOMAIN t
  BY TreeFacts
<1>1. PICK cs : cs = Children(t, f)
  OBVIOUS
<1>2. /\ cs \in Seq(Nat) /\ es \in Seq(Nat) /\ Len(es) = Len(cs) + 2
      /\ es[1] = f /\ es[2] = IF t[f].parent = Null THEN f ELSE t[f].parent
      /\ \A i \in 1..Len(cs) : es[i + 2] = cs[i]
  BY <1>0, <1>1, EntriesFacts
<1>3. SubSeq(es, 3, Len(es)) = cs
  <2>1. PICK s, n : s = SubSeq(es, 3, n + 2) /\ n = Len(cs)
    OBVIOUS
  <2>2. n \in Nat /\ Len(es) = n + 2
    BY <1>2, <2>1
  <2>3. s \in Seq(Nat) /\ Len(s) = n /\ \A i \in 1..n : s[i] = es[i + 2]
    <3>1. es \in Seq(Nat) /\ 3 \in Int /\ n + 2 \in Int
      BY <1>2, <2>2
    <3>2. s \in Seq(Nat)
      BY <1>2, <2>1, <2>2, <3>1
    <3>3. Len(s) = n
      BY <2>1, <2>2, <3>1
    <3>4. ASSUME NEW i \in 1..n PROVE s[i] = es[i + 2]
      <4>1. 3 + i - 1 = i + 2 /\ i \in 1..((n + 2) - 3 + 1)
        BY <2>2
      <4>2. s[i] = es[3 + i - 1]
        BY <2>1, <2>2, <3>1, <4>1
      <4> QED BY <4>1, <4>2
    <3> QED BY <3>2, <3>3, <3>4
  <2>4. \A i \in 1..n : s[i] = cs[i]
    BY <1>2, <2>1, <2>3
  <2>5. s = cs
    BY <1>2, <2>1, <2>2, <2>3, <2>4
  <2> QED BY <2>1, <2>2, <2>5
<1>4. f # Null
  BY <1>0, TreeFacts, FilesAssumption
<1>5. (f = Root <=> t[f].parent = Null)
  BY <1>0, TreeFacts DEF PlainTree
<1>6. es[2] = Enter(t, f, <<Dot, Dot>>)
  <2>1. Enter(t, f, <<Dot, Dot>>) = IF f = Root THEN Root ELSE t[f].parent
    <3>1. <<Dot, Dot>> # <<>> /\ <<Dot, Dot>> # <<Dot>>
      OBVIOUS
    <3> QED BY <1>4, <3>1 DEF Enter
  <2> QED BY <1>2, <1>5, <2>1
<1>7. ASSUME NEW g \in Range(cs), t[g].name # <<>> PROVE fs_find_file(t, f, t[g].name) # Null
  <2>1. PICK i \in 1..Len(cs) : g = cs[i]
    BY <1>2 DEF Range
  <2>2. Upward(t, f, cs, Len(t))
    BY <1>1, ChildrenUpward
  <2>3. g \in 1..Len(t) /\ t[g].parent = f
    BY <2>1, <2>2 DEF Upward
  <2>4. g \in DOMAIN t
    BY <2>3, TreeFacts
  <2>5. PlainName(t[g].name)
    BY <1>7, <2>4 DEF PlainTree
  <2> QED BY <2>3, <2>4, <2>5, FoundByName
<1> QED BY <1>1, <1>2, <1>3, <1>6, <1>7

\* A call of process p: the DIR of p becomes k.
LEMMA DirsStep ==
    ASSUME FilesIndInv, ListsInv, ~misused, IsTree(tree'), Wider(tree, tree'), Len(tree') = Len(tree),
           PlainTree(tree'), UNCHANGED kthread,
           NEW p \in Procs, NEW k, k \in DirSet, dirp' = [dirp EXCEPT ![p] = k],
           \A q \in Procs \ {p} : fd'[q] = fd[q] /\ opened'[q] = opened[q],
           DirOK(tree', k, fd'[p], opened'[p]),
           \A q \in Procs \ alive' : q # p => q \notin alive,
           p \notin alive' => k = NoDir,
           p \in alive => EndsRight(p)
    PROVE  ListsInv' /\ ListsEnd
<1>1. IsTree(tree) /\ alive \subseteq Procs
  BY DEF FilesIndInv, KernelInv, ProcsInv, ProcsOK
<1>2. dirp \in [Procs -> DirSet] /\ \A q \in Procs : DirOK(tree, dirp[q], fd[q], opened[q])
  BY DEF ListsInv, DirsInv
<1>3. dirp' \in [Procs -> DirSet] /\ dirp'[p] = k /\ \A q \in Procs : q # p => dirp'[q] = dirp[q]
  BY <1>2
<1>4. ASSUME NEW q \in Procs PROVE DirOK(tree', dirp'[q], fd'[q], opened'[q])
  <2>1. CASE q = p
    BY <1>3, <2>1
  <2>2. CASE q # p
    <3>1. dirp'[q] = dirp[q] /\ fd'[q] = fd[q] /\ opened'[q] = opened[q]
      BY <1>3, <2>2
    <3>2. DirOK(tree, dirp[q], fd[q], opened[q])
      BY <1>2
    <3>3. DirOK(tree', dirp[q], fd[q], opened[q])
      BY <1>1, <3>2, DirSame
    <3> QED BY <3>1, <3>3
  <2> QED BY <2>1, <2>2
<1>5. ASSUME NEW q \in Procs \ alive' PROVE dirp'[q] = NoDir
  BY <1>3, <1>5 DEF ListsInv, DirsInv
<1>6. DirsInv'
  BY <1>3, <1>4, <1>5 DEF DirsInv
<1>7. LsOK(tree', kthread'["kterm"])
  <2>1. PICK j : j = kthread["kterm"]
    OBVIOUS
  <2>2. LsOK(tree, j) /\ kthread'["kterm"] = j
    BY <2>1 DEF ListsInv
  <2>3. LsOK(tree', j)
    BY <1>1, <2>2, LsGrows
  <2> QED BY <2>2, <2>3
<1>8. ASSUME NEW q \in alive PROVE EndsRight(q)
  <2>1. CASE q = p
    BY <2>1
  <2>2. CASE q # p
    <3>1. dirp'[q] = dirp[q]
      BY <1>1, <1>3, <2>2
    <3> QED BY <3>1 DEF EndsRight
  <2> QED BY <2>1, <2>2
<1>9. LsRight
  BY DEF LsRight
<1> QED BY <1>6, <1>7, <1>8, <1>9 DEF ListsInv, ListsEnd

\* init starts.
LEMMA SpawnLists ==
    ASSUME FilesIndInv, ListsInv, _spawn_init
    PROVE  ListsInv' /\ ListsEnd
<1>1. /\ alive = {} /\ UNCHANGED <<dirp, kthread, misused>> /\ IsTree(tree)
  BY DEF FilesIndInv, ProcsInv, ProcsOK, KernelInv, _spawn_init
<1>3. IsTree(tree') /\ Wider(tree, tree') /\ PlainTree(tree')
  BY <1>1, SpawnStreams, StreamPlaces DEF ListsInv
<1>4. LsOK(tree', kthread'["kterm"])
  <2>1. PICK j : j = kthread["kterm"]
    OBVIOUS
  <2>2. LsOK(tree, j) /\ kthread'["kterm"] = j
    BY <1>1, <2>1 DEF ListsInv
  <2>3. LsOK(tree', j)
    BY <1>1, <1>3, <2>2, LsGrows
  <2> QED BY <2>2, <2>3
<1>2. DirsInv'
  <2> SUFFICES ASSUME ~misused' PROVE DirsInv'
    BY DEF DirsInv
  <2>1. dirp' \in [Procs -> DirSet] /\ \A p \in Procs : dirp'[p] = NoDir
    BY <1>1 DEF ListsInv, DirsInv
  <2>2. \A p \in Procs : DirOK(tree', dirp'[p], fd'[p], opened'[p])
    BY <2>1, NoDirFacts DEF DirOK
  <2> QED BY <2>1, <2>2 DEF DirsInv
<1> QED BY <1>1, <1>2, <1>3, <1>4 DEF ListsInv, ListsEnd, LsRight

\* Nobody follows what happens after a freed handle has stayed in a table.
LEMMA MisusedLists ==
    ASSUME FilesIndInv, ListsInv, IsTree(tree'), Wider(tree, tree'), PlainTree(tree'), UNCHANGED kthread, misused',
           \A q \in alive : dirp'[q].ended => dirp[q].ended
    PROVE  ListsInv' /\ ListsEnd
<1>1. PICK j : j = kthread["kterm"]
  OBVIOUS
<1>2. LsOK(tree, j) /\ kthread'["kterm"] = j /\ IsTree(tree)
  BY <1>1 DEF ListsInv, FilesIndInv, KernelInv
<1>3. LsOK(tree', j)
  BY <1>2, LsGrows
<1>4. LsOK(tree', kthread'["kterm"])
  BY <1>2, <1>3
<1> QED BY <1>4 DEF ListsInv, DirsInv, ListsEnd, EndsRight, LsRight

-----------------------------------------------------------------------------
(* The calls of the processes.                                              *)

LEMMA LinkedPlaces ==
    ASSUME IsTree(tree), PlainTree(tree), NEW chain, NEW u, u = Linked(chain)
    PROVE  IsTree(u) /\ Wider(tree, u) /\ Len(u) = Len(tree) /\ PlainTree(u)
<1>1. IsTree(u) /\ DOMAIN u = DOMAIN tree
  BY LinkedFacts
<1>2. ASSUME NEW f \in DOMAIN tree PROVE u[f].parent = tree[f].parent /\ u[f].name = tree[f].name
  <2>1. IsFile(tree[f], Len(tree))
    BY TreeFacts
  <2>2. u[f] = tree[f] \/ u[f] = [tree[f] EXCEPT !.link = LinkTarget(f)]
    BY DEF Linked
  <2> QED BY <2>1, <2>2 DEF IsFile, FileFields
<1> QED BY <1>1, <1>2, SamePlaces

LEMMA SamePlace ==
    ASSUME FilesIndInv, ListsInv, UNCHANGED tree
    PROVE  IsTree(tree') /\ Wider(tree, tree') /\ Len(tree') = Len(tree) /\ PlainTree(tree')
<1>1. IsTree(tree) /\ PlainTree(tree)
  BY DEF FilesIndInv, KernelInv, ListsInv
<1> QED BY <1>1, SamePlaces

\* What is known of p's DIR when p makes a call.
LEMMA DirFacts ==
    ASSUME FilesIndInv, ListsInv, NEW p, Calls(p)
    PROVE  /\ p \in alive /\ p \in Procs /\ ~misused
           /\ dirp \in [Procs -> DirSet] /\ dirp[p] \in DirSet /\ DirOK(tree, dirp[p], fd[p], opened[p])
           /\ fd \in [Procs -> [Descs -> Handles \union {Null}]]
           /\ opened \in [Procs -> [Descs -> Nat \union {Stdin, Null}]]
           /\ \A d \in Descs : fd[p][d] # Null =>
                 hand[fd[p][d]].file = opened[p][d] /\ opened[p][d] \in Named(tree) \union {Stdin}
<1>1. p \in alive /\ p \in Procs /\ ~misused
  BY CallsFacts DEF FilesIndInv
<1>2. dirp \in [Procs -> DirSet] /\ dirp[p] \in DirSet /\ DirOK(tree, dirp[p], fd[p], opened[p])
  BY <1>1 DEF ListsInv, DirsInv
<1>3. \A d \in Descs : Sound(tree, d, fd[p][d], hand[fd[p][d]], pos[p][d], opened[p][d], delivered[p][d])
  BY <1>1 DEF FilesIndInv, ProcsInv, AllSound
<1>4. \A d \in Descs : fd[p][d] # Null =>
          hand[fd[p][d]].file = opened[p][d] /\ opened[p][d] \in Named(tree) \union {Stdin}
  BY <1>3 DEF Sound
<1> QED BY <1>1, <1>2, <1>4 DEF FilesIndInv, ProcsInv, ProcsOK

LEMMA OpenLists ==
    ASSUME FilesIndInv, ListsInv, NEW p \in Procs, NEW r, NEW chain,
           OpenNew(p, r, chain) \/ OpenZero(p, r, chain) \/ OpenDangling(p, r, chain)
    PROVE  ListsInv' /\ ListsEnd
<1>1. /\ IsTree(tree') /\ Wider(tree, tree') /\ Len(tree') = Len(tree) /\ PlainTree(tree')
  <2>1. IsTree(tree) /\ PlainTree(tree) /\ tree' = Linked(chain)
    BY DEF FilesIndInv, KernelInv, ListsInv, OpenNew, OpenZero, OpenDangling
  <2>2. PICK u : u = tree'
    OBVIOUS
  <2>3. u = Linked(chain)
    BY <2>1, <2>2
  <2> QED BY <2>1, <2>2, <2>3, LinkedPlaces
<1>2. Calls(p) /\ UNCHANGED <<kthread, dirp, alive>>
  BY DEF OpenNew, OpenZero, OpenDangling, Openable, kernel
<1>5. CASE OpenDangling(p, r, chain)
  <2>1. PICK k : k = dirp[p]
    OBVIOUS
  <2>2. /\ p \in alive /\ ~misused /\ dirp \in [Procs -> DirSet] /\ k \in DirSet
        /\ DirOK(tree, k, fd[p], opened[p])
    BY <1>2, <2>1, DirFacts
  <2>3. UNCHANGED <<fd, opened>> /\ IsTree(tree)
    BY <1>5 DEF OpenDangling, tables, FilesIndInv, KernelInv
  <2>4. DirOK(tree', k, fd'[p], opened'[p])
    BY <1>1, <2>2, <2>3, DirSame
  <2>5. dirp' = [dirp EXCEPT ![p] = k] /\ EndsRight(p)
    BY <1>2, <2>1, <2>2 DEF EndsRight
  <2> QED BY <1>1, <1>2, <2>2, <2>3, <2>4, <2>5, DirsStep
<1>3. CASE OpenZero(p, r, chain)
  BY <1>1, <1>2, <1>3, MisusedLists DEF OpenZero
<1>4. CASE OpenNew(p, r, chain)
  <2>1. PICK k, d, h, g : k = dirp[p] /\ d = Min(FreeDescs(p)) /\ h = Min(FreeHandles) /\ g = Last(chain)
    OBVIOUS
  <2>2. /\ p \in alive /\ ~misused /\ dirp \in [Procs -> DirSet] /\ k \in DirSet
        /\ DirOK(tree, k, fd[p], opened[p])
        /\ fd \in [Procs -> [Descs -> Handles \union {Null}]]
        /\ opened \in [Procs -> [Descs -> Nat \union {Stdin, Null}]]
    BY <1>2, <2>1, DirFacts
  <2>3. fd' = [fd EXCEPT ![p][d] = h] /\ opened' = [opened EXCEPT ![p][d] = g]
    BY <1>4, <2>1 DEF OpenNew, proc_add_file
  <2>4. d \in Descs /\ fd[p][d] = Null
    BY <1>4, <2>1, FreeDescFacts DEF OpenNew
  <2>5. \A q \in Procs \ {p} : fd'[q] = fd[q] /\ opened'[q] = opened[q]
    BY <2>2, <2>3
  <2>6. k.fd # Null => fd'[p][k.fd] = fd[p][k.fd] /\ opened'[p][k.fd] = opened[p][k.fd]
    <3> SUFFICES ASSUME k.fd # Null PROVE fd'[p][k.fd] = fd[p][k.fd] /\ opened'[p][k.fd] = opened[p][k.fd]
      OBVIOUS
    <3>1. k.fd \in Descs /\ k.fd # d
      BY <2>2, <2>4 DEF DirSet, DirOK
    <3> QED BY <2>2, <2>3, <3>1
  <2>7. PICK a, b, c, e : a = fd[p] /\ b = opened[p] /\ c = fd'[p] /\ e = opened'[p]
    OBVIOUS
  <2>8. IsTree(tree) /\ DirOK(tree, k, a, b) /\ (k.fd # Null => c[k.fd] = a[k.fd] /\ e[k.fd] = b[k.fd])
    BY <2>2, <2>6, <2>7 DEF FilesIndInv, KernelInv
  <2>9. DirOK(tree', k, c, e)
    BY <1>1, <2>8, DirSame
  <2>10. dirp' = [dirp EXCEPT ![p] = k] /\ EndsRight(p)
    BY <1>2, <2>1, <2>2 DEF EndsRight
  <2>11. DirOK(tree', k, fd'[p], opened'[p])
    BY <2>7, <2>9
  <2> QED BY <1>1, <1>2, <2>2, <2>5, <2>10, <2>11, DirsStep
<1> QED BY <1>3, <1>4, <1>5

\* A DIR that is open on nothing.
LEMMA ClosedDir ==
    ASSUME FilesIndInv, ListsInv, UNCHANGED <<tree, kthread>>, NEW p, Calls(p),
           NEW k, k \in DirSet, k.fd = Null, ~k.ended, dirp' = [dirp EXCEPT ![p] = k],
           \A q \in Procs \ {p} : fd'[q] = fd[q] /\ opened'[q] = opened[q],
           \A q \in Procs \ alive' : q # p => q \notin alive,
           p \notin alive' => k = NoDir
    PROVE  ListsInv' /\ ListsEnd
<1>1. p \in Procs /\ ~misused /\ dirp \in [Procs -> DirSet]
  BY DirFacts
<1>2. DirOK(tree', k, fd'[p], opened'[p])
  BY DEF DirOK
<1>3. EndsRight(p)
  BY <1>1 DEF EndsRight
<1>4. IsTree(tree') /\ Wider(tree, tree') /\ Len(tree') = Len(tree) /\ PlainTree(tree')
  BY SamePlace
<1> QED BY <1>1, <1>2, <1>3, <1>4, DirsStep

LEMMA CloseLists ==
    ASSUME FilesIndInv, ListsInv, NEW p \in Procs, NEW d \in Descs, Close(p, d)
    PROVE  ListsInv' /\ ListsEnd
<1>1. PICK k : k = dirp[p]
  OBVIOUS
<1>2. /\ Calls(p) /\ UNCHANGED <<tree, alive, kthread>> /\ fd' = [fd EXCEPT ![p][d] = Null]
      /\ opened' = [opened EXCEPT ![p][d] = Null]
      /\ dirp' = IF k.fd = d THEN [dirp EXCEPT ![p] = [NoDir EXCEPT !.idx = k.idx]] ELSE dirp
  BY <1>1 DEF Close, CloseHandle, kernel
<1>3. /\ p \in alive /\ ~misused /\ dirp \in [Procs -> DirSet] /\ k \in DirSet
      /\ DirOK(tree, k, fd[p], opened[p])
      /\ fd \in [Procs -> [Descs -> Handles \union {Null}]]
      /\ opened \in [Procs -> [Descs -> Nat \union {Stdin, Null}]]
  BY <1>1, <1>2, DirFacts
<1>4. \A q \in Procs \ {p} : fd'[q] = fd[q] /\ opened'[q] = opened[q]
  BY <1>2, <1>3
<1>5. CASE k.fd = d
  <2>1. PICK j : j = [NoDir EXCEPT !.idx = k.idx]
    OBVIOUS
  <2>2. j \in DirSet /\ j.fd = Null /\ ~j.ended
    <3>1. k.idx \in Nat
      BY <1>3 DEF DirSet
    <3>2. j = [fd |-> Null, idx |-> k.idx, seen |-> <<>>, fresh |-> FALSE, ended |-> FALSE]
      BY <2>1 DEF NoDir
    <3> QED BY <3>1, <3>2 DEF DirSet
  <2>3. dirp' = [dirp EXCEPT ![p] = j]
    BY <1>2, <1>5, <2>1
  <2> QED BY <1>2, <1>3, <1>4, <2>2, <2>3, ClosedDir
<1>6. CASE k.fd # d
  <2>1. dirp' = [dirp EXCEPT ![p] = k] /\ EndsRight(p)
    BY <1>1, <1>2, <1>3, <1>6 DEF EndsRight
  <2>2. k.fd # Null => fd'[p][k.fd] = fd[p][k.fd] /\ opened'[p][k.fd] = opened[p][k.fd]
    <3> SUFFICES ASSUME k.fd # Null PROVE fd'[p][k.fd] = fd[p][k.fd] /\ opened'[p][k.fd] = opened[p][k.fd]
      OBVIOUS
    <3>1. k.fd \in Descs
      BY <1>3 DEF DirSet
    <3> QED BY <1>2, <1>3, <1>6, <3>1
  <2>3. DirOK(tree', k, fd'[p], opened'[p])
    BY <1>2, <1>3, <2>2 DEF DirOK
  <2>4. IsTree(tree') /\ Wider(tree, tree') /\ Len(tree') = Len(tree) /\ PlainTree(tree')
    BY <1>2, SamePlace
  <2> QED BY <1>2, <1>3, <1>4, <2>1, <2>3, <2>4, DirsStep
<1> QED BY <1>5, <1>6

LEMMA ForkLists ==
    ASSUME FilesIndInv, ListsInv, NEW p \in Procs, NEW c \in Procs, Fork(p, c)
    PROVE  ListsInv' /\ ListsEnd
<1>1. PICK k : k = IF c \in Readers THEN dirp[p] ELSE NoDir
  OBVIOUS
<1>2. /\ Calls(p) /\ c \notin alive /\ alive' = alive \union {c} /\ UNCHANGED <<tree, kthread>>
      /\ fd' = [fd EXCEPT ![c] = fd[p]] /\ opened' = [opened EXCEPT ![c] = opened[p]]
      /\ dirp' = [dirp EXCEPT ![c] = k]
  BY <1>1 DEF Fork, kernel
<1>3. /\ ~misused /\ dirp[p] \in DirSet /\ DirOK(tree, dirp[p], fd[p], opened[p])
      /\ fd \in [Procs -> [Descs -> Handles \union {Null}]]
      /\ opened \in [Procs -> [Descs -> Nat \union {Stdin, Null}]]
  BY <1>2, DirFacts
<1>4. \A q \in Procs \ {c} : fd'[q] = fd[q] /\ opened'[q] = opened[q]
  BY <1>2, <1>3
<1>5. fd'[c] = fd[p] /\ opened'[c] = opened[p]
  BY <1>2, <1>3
<1>6. k \in DirSet
  BY <1>1, <1>3, NoDirFacts
<1>7. DirOK(tree', k, fd'[c], opened'[c])
  <2>1. CASE k = NoDir
    BY <2>1, NoDirFacts DEF DirOK
  <2>2. CASE k = dirp[p]
    BY <1>2, <1>3, <1>5, <2>2
  <2> QED BY <1>1, <2>1, <2>2
<1>8. IsTree(tree') /\ Wider(tree, tree') /\ Len(tree') = Len(tree) /\ PlainTree(tree')
  BY <1>2, SamePlace
<1>9. /\ \A q \in Procs \ alive' : q # c => q \notin alive
      /\ c \in alive' /\ c \notin alive
  BY <1>2
<1> QED BY <1>2, <1>3, <1>4, <1>6, <1>7, <1>8, <1>9, DirsStep

LEMMA LeaveLists ==
    ASSUME FilesIndInv, ListsInv, NEW p \in Procs, Exit(p) \/ Exec(p)
    PROVE  ListsInv' /\ ListsEnd
<1>1. NoDir \in DirSet /\ NoDir.fd = Null /\ ~NoDir.ended
  BY DEF NoDir, DirSet
<1>2. Calls(p) /\ UNCHANGED <<tree, kthread>> /\ dirp' = [dirp EXCEPT ![p] = NoDir]
  BY DEF Exit, Exec, kernel
<1>3. /\ fd \in [Procs -> [Descs -> Handles \union {Null}]]
      /\ opened \in [Procs -> [Descs -> Nat \union {Stdin, Null}]]
  BY <1>2, DirFacts
<1>4. /\ \A q \in Procs \ {p} : fd'[q] = fd[q] /\ opened'[q] = opened[q]
      /\ \A q \in Procs \ alive' : q # p => q \notin alive
  <2>1. CASE Exit(p)
    BY <1>3, <2>1 DEF Exit
  <2>2. CASE Exec(p)
    BY <2>2 DEF Exec, tables
  <2> QED BY <2>1, <2>2
<1> QED BY <1>1, <1>2, <1>4, ClosedDir

LEMMA OpendirLists ==
    ASSUME FilesIndInv, ListsInv, NEW p \in Procs, NEW d \in Descs, Opendir(p, d)
    PROVE  ListsInv' /\ ListsEnd
<1>1. PICK n : n = dirp[p].idx
  OBVIOUS
<1>2. PICK k : k = [NoDir EXCEPT !.fd = d, !.idx = n, !.fresh = (n = 0)]
  OBVIOUS
<1>3. /\ Calls(p) /\ fd[p][d] # Null /\ File(hand[fd[p][d]].file).kind = "dir"
      /\ dirp' = [dirp EXCEPT ![p] = k] /\ UNCHANGED <<tree, kthread, alive, fd, opened>>
  BY <1>1, <1>2 DEF Opendir, kernel, tables
<1>4. /\ p \in alive /\ ~misused /\ dirp \in [Procs -> DirSet] /\ n \in Nat
      /\ hand[fd[p][d]].file = opened[p][d] /\ opened[p][d] \in Named(tree) \union {Stdin}
  BY <1>1, <1>3, DirFacts DEF DirSet
<1>5. k = [fd |-> d, idx |-> n, seen |-> <<>>, fresh |-> (n = 0), ended |-> FALSE]
  BY <1>2 DEF NoDir
<1>6. k \in DirSet /\ k.fd = d /\ k.idx = n /\ k.seen = <<>> /\ k.fresh = (n = 0) /\ ~k.ended
  BY <1>4, <1>5 DEF DirSet
<1>7. opened[p][d] # Stdin
  BY <1>3, <1>4 DEF File, StreamFile, RootFile
<1>8. PICK f, es : f = opened[p][d] /\ es = Entries(tree, f)
  OBVIOUS
<1>9. f \in DOMAIN tree /\ IsTree(tree)
  BY <1>4, <1>7, <1>8, TreeFacts DEF FilesIndInv, KernelInv
<1>10. es \in Seq(Nat)
  BY <1>8, <1>9, EntriesFacts
<1>11. Starts(<<>>, es) /\ Len(<<>>) = 0
  BY <1>10 DEF Starts
<1>12. DirOK(tree', k, fd'[p], opened'[p])
  BY <1>3, <1>6, <1>8, <1>9, <1>11 DEF DirOK
<1>13. EndsRight(p)
  BY <1>3, <1>4, <1>6 DEF EndsRight
<1>14. IsTree(tree') /\ Wider(tree, tree') /\ Len(tree') = Len(tree) /\ PlainTree(tree')
  BY <1>3, SamePlace
<1> QED BY <1>3, <1>4, <1>6, <1>12, <1>13, <1>14, DirsStep

LEMMA ReaddirLists ==
    ASSUME FilesIndInv, ListsInv, NEW p \in Procs, proc_fs_readdir(p)
    PROVE  ListsInv' /\ ListsEnd
<1>1. PICK k, f, a, n : k = dirp[p] /\ f = ListedDir(p) /\ a = k.seen /\ n = k.idx
  OBVIOUS
<1>2. PICK es : es = Entries(tree, f)
  OBVIOUS
<1>3. Calls(p) /\ Listing(p) /\ ~k.ended /\ UNCHANGED <<tree, kthread, alive, fd, opened>>
  BY <1>1, Zenon DEF proc_fs_readdir, kernel, tables
<1>4. /\ p \in alive /\ ~misused /\ dirp \in [Procs -> DirSet] /\ k \in DirSet
      /\ DirOK(tree, k, fd[p], opened[p])
      /\ \A d \in Descs : fd[p][d] # Null =>
            hand[fd[p][d]].file = opened[p][d] /\ opened[p][d] \in Named(tree) \union {Stdin}
  BY <1>1, <1>3, DirFacts
<1>5. k.fd # Null /\ k.fd \in Descs /\ fd[p][k.fd] # Null /\ k.fresh /\ f = opened[p][k.fd]
  BY <1>1, <1>3, <1>4 DEF Listing, ListedDir, DirSet
<1>6. f \in DOMAIN tree /\ IsTree(tree) /\ PlainTree(tree)
  BY <1>4, <1>5 DEF DirOK, FilesIndInv, KernelInv, ListsInv
<1>12. f \in Named(tree)
  BY <1>4, <1>5, <1>6, TreeFacts, FilesAssumption
<1>7. a \in Seq(Nat) /\ n \in Nat /\ Len(a) = n /\ Starts(a, es) /\ es \in Seq(Nat)
  BY <1>1, <1>2, <1>4, <1>5, <1>6, EntriesFacts DEF DirOK, DirSet
<1>8. IsTree(tree') /\ Wider(tree, tree') /\ Len(tree') = Len(tree) /\ PlainTree(tree')
  BY <1>3, SamePlace
<1>9. PICK j : /\ dirp' = [dirp EXCEPT ![p] = j]
               /\ j = IF n + 1 > Len(es) THEN [k EXCEPT !.ended = TRUE]
                      ELSE [k EXCEPT !.idx = n + 1, !.seen = Append(a, es[n + 1])]
  <2>1. es = DirEntries(ListedDir(p))
    BY <1>1, <1>2 DEF Entries, DirEntries
  <2>2. PICK j : j = IF n + 1 > Len(es) THEN [k EXCEPT !.ended = TRUE]
                     ELSE [k EXCEPT !.idx = n + 1, !.seen = Append(a, es[n + 1])]
    OBVIOUS
  <2>3. dirp' = [dirp EXCEPT ![p] = j]
    <3> DEFINE e == DirEntries(ListedDir(p))
               i == dirp[p].idx + 1
    <3>1. dirp' = [dirp EXCEPT ![p] = IF i > Len(e) THEN [dirp[p] EXCEPT !.ended = TRUE]
                                      ELSE [dirp[p] EXCEPT !.idx = i, !.seen = Append(@, e[i])]]
      BY DEF proc_fs_readdir
    <3>2. e = es /\ i = n + 1
      BY <1>1, <2>1
    <3> HIDE DEF e, i
    <3>3. PICK x : x = IF i > Len(e) THEN [dirp[p] EXCEPT !.ended = TRUE]
                       ELSE [dirp[p] EXCEPT !.idx = i, !.seen = Append(@, e[i])]
      OBVIOUS
    <3>4. dirp' = [dirp EXCEPT ![p] = x]
      BY <3>1, <3>3
    <3>5. x = IF n + 1 > Len(es) THEN [k EXCEPT !.ended = TRUE]
              ELSE [k EXCEPT !.idx = n + 1, !.seen = Append(@, es[n + 1])]
      BY <1>1, <3>2, <3>3
    <3>6. x = j
      BY <1>1, <1>4, <2>2, <3>5 DEF DirSet
    <3> QED BY <3>4, <3>6
  <2> QED BY <2>2, <2>3
<1>10. CASE n + 1 > Len(es)
  <2>1. j = [k EXCEPT !.ended = TRUE]
    BY <1>9, <1>10
  <2>2. /\ j \in DirSet /\ j.fd = k.fd /\ j.fresh = k.fresh /\ j.seen = k.seen /\ j.idx = k.idx
    BY <1>4, <2>1 DEF DirSet
  <2>3. DirOK(tree', j, fd'[p], opened'[p])
    BY <1>3, <1>4, <2>2 DEF DirOK
  <2>4. a = es
    <3>1. Len(es) <= Len(a)
      BY <1>7, <1>10
    <3> QED BY <1>7, <3>1, StartsSame
  <2>5. /\ SubSeq(es, 3, Len(es)) = Children(tree, f)
        /\ es[1] = f /\ es[2] = Enter(tree, f, <<Dot, Dot>>)
        /\ \A g \in Range(Children(tree, f)) :
              tree[g].name # <<>> => fs_find_file(tree, f, tree[g].name) # Null
    BY <1>2, <1>6, <1>12, EndFacts
  <2>6. ASSUME NEW g, fs_find_file(tree, f, tree[g].name) # Null
        PROVE  proc_fs_access(p, dirp[p].fd, tree[g].name)
    BY <1>1, <1>4, <1>5, <2>6 DEF proc_fs_access
  <2>7. EndsRight(p)
    BY <1>1, <2>4, <2>5, <2>6 DEF EndsRight
  <2> QED BY <1>3, <1>4, <1>8, <1>9, <2>2, <2>3, <2>7, DirsStep
<1>11. CASE ~ (n + 1 > Len(es))
  <2>1. PICK b, m : b = Append(a, es[n + 1]) /\ m = n + 1
    OBVIOUS
  <2>2. Len(a) < Len(es)
    BY <1>7, <1>11
  <2>3. Starts(b, es) /\ b \in Seq(Nat) /\ Len(b) = m /\ m \in Nat
    BY <1>7, <2>1, <2>2, StartsMore
  <2>4. j = [k EXCEPT !.idx = m, !.seen = b]
    BY <1>9, <1>11, <2>1
  <2>5. /\ j \in DirSet /\ j.fd = k.fd /\ j.fresh = k.fresh /\ j.seen = b /\ j.idx = m /\ j.ended = k.ended
    BY <1>4, <2>3, <2>4 DEF DirSet
  <2>6. DirOK(tree', j, fd'[p], opened'[p])
    BY <1>2, <1>3, <1>5, <1>6, <2>3, <2>5 DEF DirOK
  <2>7. EndsRight(p)
    BY <1>1, <1>3, <1>4, <1>9, <2>5 DEF EndsRight
  <2> QED BY <1>3, <1>4, <1>8, <1>9, <2>5, <2>6, <2>7, DirsStep
<1> QED BY <1>10, <1>11

-----------------------------------------------------------------------------
(* Every step keeps the listings right.                                     *)

LEMMA ListsNext ==
    ASSUME NamesPlain, FilesIndInv, FilesIndInv', LinksInv, ListsInv, [Next]_vars
    PROVE  ListsInv' /\ ListsEnd
<1>1. ASSUME NEW t \in Threads, KernelStep(t) PROVE ListsInv' /\ ListsEnd
  BY <1>1, KernelLists
<1>2. CASE KStream \/ fs_opendir \/ fs_readdir \/ ListDone
  BY <1>2, StreamLists, LsLists
<1>3. CASE _spawn_init
  BY <1>3, SpawnLists
<1>4. ASSUME NEW p \in Procs, ProcCall(p) PROVE ListsInv' /\ ListsEnd
  <2>1. ASSUME NEW r \in Requests, Open(p, r) PROVE ListsInv' /\ ListsEnd
    <3>1. PICK chain : \/ OpenNew(p, r, chain) \/ OpenZero(p, r, chain)
                       \/ OpenLoop(p, r, chain) \/ OpenDangling(p, r, chain)
      BY <2>1 DEF Open
    <3>2. CASE OpenLoop(p, r, chain)
      BY <3>2, StillLists DEF OpenLoop, kernel, tables
    <3> QED BY <3>1, <3>2, OpenLists
  <2>2. ASSUME NEW d \in Descs, Close(p, d) \/ Opendir(p, d) PROVE ListsInv' /\ ListsEnd
    BY <2>2, CloseLists, OpendirLists
  <2>3. ASSUME NEW d \in Descs, NullPointer(p, d) PROVE ListsInv' /\ ListsEnd
    BY <2>3, StillLists DEF NullPointer, kernel, tables
  <2>4. ASSUME NEW d \in Descs, NEW sz \in ReadSizes, ReadBlk(p, d, sz) PROVE ListsInv' /\ ListsEnd
    BY <2>4, StillLists DEF ReadBlk, kernel
  <2>5. ASSUME NEW c \in Procs, Fork(p, c) PROVE ListsInv' /\ ListsEnd
    BY <2>5, ForkLists
  <2>6. CASE Exit(p) \/ Exec(p) \/ proc_fs_readdir(p)
    BY <2>6, LeaveLists, ReaddirLists
  <2>7. ASSUME NEW word \in Beside, StrayCall(p, word) PROVE ListsInv' /\ ListsEnd
    BY <2>7, StillLists DEF StrayCall, kernel, tables
  <2> QED BY <1>4, <2>1, <2>2, <2>3, <2>4, <2>5, <2>6, <2>7 DEF ProcCall
<1>5. CASE UNCHANGED vars
  BY <1>5, StillLists DEF vars, procs, tables, kernel
<1> QED BY <1>1, <1>2, <1>3, <1>4, <1>5 DEF Next

\* A program that has read a directory to its end has seen ".", ".." and every file in it
\* once and in order, the streams of the root among them, and finds each that has a name by
\* its name.  kterm's ls, when it gets to the end, has seen every file, whatever devices
\* kernel_task registers meanwhile; that it gets there is not claimed, for it may meet a
\* file whose own link is not stored yet (HalfLinked).  This holds for every archive whose
\* files have plain names: the code takes a name that starts with a dot for a path.
THEOREM ListingsCorrect == NamesPlain /\ Spec => ListingsComplete
<1> SUFFICES ASSUME NamesPlain PROVE Spec => ListingsComplete
  OBVIOUS
<1>1. Init => ListsInv
  BY ListsInit
<1>2. FilesIndInv /\ FilesIndInv' /\ LinksInv /\ ListsInv /\ [Next]_vars => ListsInv' /\ [ListsEnd]_vars
  BY ListsNext
<1>3. Spec => [][ListsEnd]_vars
  BY <1>1, <1>2, LinksInvariant, PTL DEF Spec
<1> QED BY <1>3, PTL DEF ListingsComplete, ListsEnd, EndsRight, LsRight
=============================================================================
