--------------------------- MODULE AddrSpaceProofs ---------------------------
(* Proofs about the memory of processes of AddrSpace, for any number of      *)
(* processes and frames and any sequence of calls.                           *)
EXTENDS AddrSpace, WellFoundedInduction, TLAPS

-----------------------------------------------------------------------------
(* Repeated steps.                                                           *)

\* A set of naturals that is not empty has a least element.
LEMMA LeastNat ==
    ASSUME NEW S \in SUBSET Nat, S # {}
    PROVE  \E x \in S : \A y \in S : x <= y
<1>1. PICK x \in S : \A y \in S : ~ (<<y, x>> \in OpToRel(<, Nat))
  BY NatLessThanWellFounded, WFMin, Zenon
<1>2. \A y \in S : x <= y
  <2> TAKE y \in S
  <2>1. ~ (y < x)
    BY <1>1 DEF OpToRel
  <2> QED BY <2>1
<1> QED BY <1>2

\* What the first value has, and every step keeps, the last value has.
LEMMA Stays ==
    ASSUME NEW S, NEW N \in Nat, NEW f, f[0] \in S,
           \A n \in 1..N : f[n - 1] \in S => f[n] \in S
    PROVE  \A n \in 0..N : f[n] \in S
<1> DEFINE bad == {n \in 0..N : f[n] \notin S}
<1> SUFFICES ASSUME bad # {} PROVE FALSE
  OBVIOUS
<1>1. bad \in SUBSET Nat
  OBVIOUS
<1>2. PICK m \in bad : \A y \in bad : m <= y
  <2> HIDE DEF bad
  <2> QED BY <1>1, LeastNat
<1>3. m \in 1..N /\ m - 1 \in 0..N /\ ~ (m <= m - 1)
  BY <1>2
<1>4. m - 1 \notin bad
  <2> HIDE DEF bad
  <2> QED BY <1>2, <1>3
<1> QED BY <1>2, <1>3, <1>4

-----------------------------------------------------------------------------
(* Tables and copies.                                                        *)

EntrySet == [frame : 0 .. MaxFrames, write : BOOLEAN, user : BOOLEAN]
TableSet == [Pages -> EntrySet]

\* A machine on which nothing has failed.
IsMachine(m) ==
    /\ m = [tabs |-> m.tabs, mem |-> m.mem, failed |-> FALSE]
    /\ m.tabs \in [Procs -> TableSet] /\ m.mem \in [Frames -> Values]

LEMMA Numbers ==
    /\ MaxFrames \in Nat /\ 1 \in Frames /\ 1 \in Procs /\ Frames \subseteq Pages /\ Frames \subseteq Nat
    /\ Pages \subseteq Nat /\ 0 \notin Pages
    /\ Code \in Pages /\ Cell \in Pages /\ Top \in Pages /\ Fixed \in Pages
    /\ Code \notin Frames /\ Cell \notin Frames /\ Top \notin Frames /\ Fixed \notin Frames
    /\ Code # Cell /\ Code # Top /\ Code # Fixed /\ Cell # Top /\ Cell # Fixed /\ Top # Fixed
    /\ Top = Cell + 1 /\ Cell \in Nat
    /\ \A f \in 0 .. MaxFrames : f # 0 => f \in Frames
    /\ \A f \in Frames : f \in 0 .. MaxFrames /\ f # 0
BY FrameBound, ProcsBound DEF Frames, Procs, Pages, Code, Cell, Top, Fixed

\* A table with one page, or the two of the stack, mapped.
LEMMA MapFacts ==
    ASSUME NEW t \in TableSet, NEW v \in Pages, NEW f \in Frames, NEW w, NEW u, Entry(f, w, u) \in EntrySet
    PROVE  /\ mmu_map_table(t, v, f, 1, w, u) \in TableSet
           /\ mmu_map_table(t, v, f, 1, w, u) = [t EXCEPT ![v] = Entry(f, w, u)]
<1>1. ASSUME NEW x \in Pages
      PROVE  (x \in v .. v + 1 - 1 <=> x = v) /\ f + (v - v) = f
  BY Numbers
<1>2. mmu_map_table(t, v, f, 1, w, u) = [x \in Pages |-> IF x = v THEN Entry(f, w, u) ELSE t[x]]
  BY <1>1 DEF mmu_map_table
<1> QED BY <1>2 DEF TableSet

LEMMA OpenFacts ==
    ASSUME NEW t \in TableSet, NEW f \in Frames, NEW w \in {TRUE, FALSE}
    PROVE  mmu_map(t, f, w) \in TableSet /\ mmu_map(t, f, w) = [t EXCEPT ![f] = Entry(f, w, TRUE)]
<1>1. PICK u : u = TRUE
  OBVIOUS
<1>2. Entry(f, w, u) \in EntrySet /\ f \in Pages
  BY <1>1, Numbers DEF Entry, EntrySet
<1>3. /\ mmu_map_table(t, f, f, 1, w, u) \in TableSet
      /\ mmu_map_table(t, f, f, 1, w, u) = [t EXCEPT ![f] = Entry(f, w, u)]
  BY <1>2, MapFacts
<1> QED BY <1>1, <1>3 DEF mmu_map

LEMMA MapStackFacts ==
    ASSUME NEW t \in TableSet, NEW f \in Frames, f + 1 \in Frames, NEW u \in BOOLEAN
    PROVE  /\ mmu_map_table(t, Cell, f, 2, TRUE, u) \in TableSet
           /\ mmu_map_table(t, Cell, f, 2, TRUE, u) =
                [x \in Pages |-> IF x = Cell THEN Entry(f, TRUE, u)
                                 ELSE IF x = Top THEN Entry(f + 1, TRUE, u) ELSE t[x]]
<1>1. ASSUME NEW x \in Pages
      PROVE  /\ x \in Cell .. Cell + 2 - 1 <=> (x = Cell \/ x = Top)
             /\ f + (Cell - Cell) = f /\ f + (Top - Cell) = f + 1
  BY Numbers
<1>2. Entry(f, TRUE, u) \in EntrySet /\ Entry(f + 1, TRUE, u) \in EntrySet
  BY Numbers DEF Entry, EntrySet
<1>3. mmu_map_table(t, Cell, f, 2, TRUE, u) =
                [x \in Pages |-> IF x = Cell THEN Entry(f, TRUE, u)
                                 ELSE IF x = Top THEN Entry(f + 1, TRUE, u) ELSE t[x]]
  BY <1>1, Numbers DEF mmu_map_table
<1> QED BY <1>2, <1>3 DEF TableSet

\* An entry that was there is put back.
LEMMA RestoreFacts ==
    ASSUME NEW t \in TableSet, NEW v \in Frames, NEW e \in EntrySet, e.frame # 0
    PROVE  mmu_map_restore(t, v, e) \in TableSet /\ mmu_map_restore(t, v, e) = [t EXCEPT ![v] = e]
<1>1. e.frame \in Frames /\ e.write \in BOOLEAN /\ e.user \in BOOLEAN /\ e = Entry(e.frame, e.write, e.user)
  BY Numbers DEF EntrySet, Entry
<1>2. mmu_map_restore(t, v, e) = mmu_map_table(t, v, e.frame, 1, e.write, e.user)
  BY DEF mmu_map_restore
<1>3. v \in Pages
  BY Numbers
<1>4. /\ mmu_map_table(t, v, e.frame, 1, e.write, e.user) \in TableSet
      /\ mmu_map_table(t, v, e.frame, 1, e.write, e.user) = [t EXCEPT ![v] = Entry(e.frame, e.write, e.user)]
  BY <1>1, <1>3, MapFacts
<1> QED BY <1>1, <1>2, <1>4

\* The kernel finds something at the address of every frame.
AllMapped(T) == \A f \in Frames : T[f].frame # 0

\* In a table that has every frame mapped, the pages opened for a copy are closed again.
LEMMA CopyPageFacts ==
    ASSUME NEW m, IsMachine(m), NEW p \in Procs, NEW c \in Procs, NEW v \in Pages,
           Readable(m.tabs[p], v), Writable(m.tabs[c], v), AllMapped(m.tabs[p]),
           NEW y, y = CopyPage(m, p, c, p, v)
    PROVE  /\ IsMachine(y) /\ y.tabs = m.tabs
           /\ y.mem[m.tabs[c][v].frame] = m.mem[m.tabs[p][v].frame]
           /\ \A f \in Frames : f # m.tabs[c][v].frame => y.mem[f] = m.mem[f]
<1>0. /\ m.tabs[p][v].frame # 0 /\ m.tabs[c][v].frame # 0 /\ m.tabs[c][v].write
      /\ \A f \in Frames : m.tabs[p][f].frame # 0
  BY DEF Readable, Writable, AllMapped
<1>1. PICK from, to, here : from = m.tabs[p][v].frame /\ to = m.tabs[c][v].frame /\ here = m.tabs[p]
  OBVIOUS
<1>2. here \in TableSet /\ from \in Frames /\ to \in Frames /\ from \in Pages /\ to \in Pages
  <2>1. m.tabs[p][v] \in EntrySet /\ m.tabs[c][v] \in EntrySet /\ here \in TableSet
    BY <1>1 DEF IsMachine, TableSet
  <2> QED BY <1>0, <1>1, <2>1, Numbers DEF EntrySet
<1>3. PICK first, open : first = mmu_map(here, from, FALSE) /\ open = mmu_map(first, to, TRUE)
  OBVIOUS
<1>4. first \in TableSet /\ first = [here EXCEPT ![from] = Entry(from, FALSE, TRUE)]
  BY <1>2, <1>3, OpenFacts
<1>5. open \in TableSet /\ open = [first EXCEPT ![to] = Entry(to, TRUE, TRUE)]
  BY <1>2, <1>3, <1>4, OpenFacts
<1>6. here[from] \in EntrySet /\ here[from].frame # 0 /\ here[to] \in EntrySet /\ here[to].frame # 0
  BY <1>0, <1>1, <1>2 DEF TableSet
<1>7. PICK half, closed : half = mmu_map_restore(open, from, here[from]) /\ closed = mmu_map_restore(half, to, here[to])
  OBVIOUS
<1>8. half \in TableSet /\ half = [open EXCEPT ![from] = here[from]]
  BY <1>2, <1>5, <1>6, <1>7, RestoreFacts
<1>9. closed \in TableSet /\ closed = [half EXCEPT ![to] = here[to]]
  <2>1. half \in TableSet
    BY <1>8
  <2> QED BY <1>2, <1>6, <1>7, <2>1, RestoreFacts
<1>10. closed = here
  <2>1. \A x \in Pages : closed[x] = here[x]
    BY <1>2, <1>4, <1>5, <1>8, <1>9 DEF TableSet
  <2> QED BY <1>2, <1>9, <2>1 DEF TableSet
<1>11. from # to => open[to].frame = to /\ open[from].frame = from
  BY <1>2, <1>4, <1>5 DEF TableSet, Entry
<1>12. m.failed = FALSE /\ m.tabs \in [Procs -> TableSet] /\ m.mem \in [Frames -> Values]
  BY DEF IsMachine
<1>13. CopyPage(m, p, c, p, v) =
          IF from = to THEN m
          ELSE [m EXCEPT !.mem[open[to].frame] = m.mem[open[from].frame], !.tabs[p] = closed]
  BY <1>0, <1>1, <1>3, <1>7, <1>12 DEF CopyPage, Readable, Writable
<1>14. CASE from = to
  BY <1>1, <1>2, <1>12, <1>13, <1>14
<1>15. CASE from # to
  <2>1. PICK k : k = CopyPage(m, p, c, p, v)
    OBVIOUS
  <2>2. k = [m EXCEPT !.mem[to] = m.mem[from], !.tabs[p] = here]
    BY <1>10, <1>11, <1>13, <1>15, <2>1
  <2>3. /\ k.mem = [m.mem EXCEPT ![to] = m.mem[from]] /\ k.tabs = [m.tabs EXCEPT ![p] = here]
        /\ k = [tabs |-> k.tabs, mem |-> k.mem, failed |-> FALSE]
    <3>1. DOMAIN m = {"tabs", "mem", "failed"} /\ m.failed = FALSE
      BY DEF IsMachine
    <3>2. DOMAIN k = {"tabs", "mem", "failed"} /\ k.failed = FALSE
      BY <2>2, <3>1
    <3>3. k.mem = [m.mem EXCEPT ![to] = m.mem[from]]
      BY <2>2, <3>1
    <3>4. k.tabs = [m.tabs EXCEPT ![p] = here]
      BY <2>2, <3>1
    <3>5. k = [x \in {"tabs", "mem", "failed"} |-> k[x]]
      BY <2>2, <3>1
    <3> QED BY <3>2, <3>3, <3>4, <3>5
  <2>4. k.tabs = m.tabs
    BY <1>1, <1>12, <2>3
  <2>5. k.mem \in [Frames -> Values]
    BY <1>2, <1>12, <2>3
  <2> QED BY <1>1, <1>12, <2>1, <2>3, <2>4, <2>5 DEF IsMachine
<1> QED BY <1>14, <1>15

-----------------------------------------------------------------------------
(* The inductive invariant.                                                  *)

\* Why nothing is followed any more.
Reasons == {"list", "taken", "null", "heap"}

SpaceTypes ==
    /\ status \in [Procs -> {"none", "kernel", "live", "zombie"}]
    /\ tables \in [Procs -> TableSet]
    /\ maps \in [Procs -> Seq(MapEntry)]
    /\ ended \in [Procs -> BOOLEAN]
    /\ arguments \in [Procs -> 0 .. MaxFrames]
    /\ mem \in [Frames -> Values]
    /\ next \in 4 .. MaxFrames + 1
    /\ stores \in 0 .. MaxStores
    /\ fault \in {"no"} \union Reasons

\* The kernel's part of table T, when frame n is the next.
KernelPart(T, n) == \A f \in {KernelHeap} \union (n .. MaxFrames) : T[f] = Entry(f, TRUE, FALSE)

\* The program's part of table T, with the memory map M and the arguments at a.  The kernel
\* finds something mapped at every frame, so that what it opens for a copy it also closes.
Latest(M, k) == \A j \in k + 1 .. Len(M) : M[j].virt # M[k].virt
UserPart(T, M, a, n) ==
    /\ \A f \in Frames : T[f].frame # 0
    /\ a \in 2 .. n - 1
    /\ \A k \in DOMAIN M : M[k].virt \in {Code, Fixed} \union (2 .. n - 1) /\ M[k].virt # a
    /\ \A v \in Pages : T[v].user <=> (v = a \/ v \in StackPages \/ \E k \in DOMAIN M : M[k].virt = v)
    /\ \A v \in Pages : T[v].user => T[v].frame \in 2 .. n - 1
    /\ T[Cell].write /\ T[Top].write
    /\ \A k \in DOMAIN M : Latest(M, k) => T[M[k].virt].frame = M[k].phys
    /\ \A v, w \in Pages : T[v].user /\ T[w].user /\ v # w => T[v].frame # T[w].frame

\* The pages of table T, but for its arguments at a, are in no frame of table U.
Apart(T, a, U) == \A v, w \in Pages : T[v].user /\ v # a /\ U[w].user => T[v].frame # U[w].frame

SpaceInv ==
    /\ SpaceTypes
    /\ \A p \in Procs : status[p] # "none" => KernelPart(tables[p], next)
    /\ \A p \in Procs : status[p] = "live" => UserPart(tables[p], maps[p], arguments[p], next)
    /\ \A p, q \in Procs : status[p] = "live" /\ status[q] = "live" /\ p # q =>
          Apart(tables[p], arguments[p], tables[q])

-----------------------------------------------------------------------------
(* What fork copies.                                                         *)

\* After n entries of the memory map M, which go to the frames from f on, the machine x
\* differs from m in the child's table, where the latest entry for a page has it, and in the
\* new frames, which hold what the parent's pages do.
CopiedMem(x, n, m, T, M, f) ==
    /\ \A g \in Frames : g \notin f .. f + n - 1 => x.mem[g] = m.mem[g]
    /\ \A k \in 1 .. n : x.mem[f + k - 1] = m.mem[T[M[k].virt].frame]
Copied(x, n, m, p, c, M, f) ==
    /\ IsMachine(x)
    /\ \A q \in Procs : q # c => x.tabs[q] = m.tabs[q]
    /\ \A v \in Pages : (\A k \in 1 .. n : M[k].virt # v) => x.tabs[c][v] = m.tabs[c][v]
    /\ \A k \in 1 .. n : (\A j \in k + 1 .. n : M[j].virt # M[k].virt) =>
          x.tabs[c][M[k].virt] = Entry(f + k - 1, TRUE, TRUE)
    /\ \A k \in 1 .. n : \E j \in 1 .. n :
          M[j].virt = M[k].virt /\ x.tabs[c][M[k].virt] = Entry(f + j - 1, TRUE, TRUE)
    /\ CopiedMem(x, n, m, m.tabs[p], M, f)

\* The pages of the memory map M are in frames below f.
Below(T, M, f) == \A k \in 1 .. Len(M) : T[M[k].virt].frame \in 1 .. f - 1

IsEntry(e, v, g) == e = [virt |-> v, phys |-> g]
EntryCopied(x, y, p, c, v, g) ==
    /\ y.mem[g] = x.mem[x.tabs[p][v].frame] /\ \A h \in Frames : h # g => y.mem[h] = x.mem[h]
    /\ IsMachine(y) /\ \A q \in Procs : q # c => y.tabs[q] = x.tabs[q]
    /\ y.tabs[c][v] = Entry(g, TRUE, TRUE)
    /\ \A w \in Pages : w # v => y.tabs[c][w] = x.tabs[c][w]
LEMMA CopyEntryFacts ==
    ASSUME NEW x, IsMachine(x), NEW p \in Procs, NEW c \in Procs, p # c, NEW v \in Pages, NEW g \in Frames,
           Readable(x.tabs[p], v), AllMapped(x.tabs[p]), NEW me, IsEntry(me, v, g),
           NEW y, y = CopyEntry(x, c, p, me)
    PROVE  EntryCopied(x, y, p, c, v, g)
<1>1. PICK t, e : t = TRUE /\ e = Entry(g, t, t)
  OBVIOUS
<1>2. x.tabs \in [Procs -> TableSet] /\ x.mem \in [Frames -> Values] /\ x.tabs[c] \in TableSet
  BY DEF IsMachine
<1>3. e \in EntrySet /\ e.frame = g /\ e.write /\ g # 0
  BY <1>1, Numbers DEF Entry, EntrySet
<1>4. PICK T : T = mmu_map_table(x.tabs[c], v, g, 1, t, t)
  OBVIOUS
<1>5. T \in TableSet /\ T = [x.tabs[c] EXCEPT ![v] = e]
  <2>1. Entry(g, t, t) \in EntrySet
    BY <1>1, <1>3
  <2>2. T \in TableSet /\ T = [x.tabs[c] EXCEPT ![v] = Entry(g, t, t)]
    BY <1>2, <1>4, <2>1, MapFacts
  <2> QED BY <1>1, <2>2
<1>6. PICK z : z = [x EXCEPT !.tabs[c] = T]
  OBVIOUS
<1>7. /\ IsMachine(z) /\ z.tabs = [x.tabs EXCEPT ![c] = T] /\ z.mem = x.mem
  <2>1. DOMAIN x = {"tabs", "mem", "failed"} /\ x.failed = FALSE
    BY DEF IsMachine
  <2>2. z.tabs = [x.tabs EXCEPT ![c] = T] /\ z.mem = x.mem /\ z.failed = FALSE
    BY <1>6, <2>1
  <2>3. z = [k \in {"tabs", "mem", "failed"} |-> z[k]]
    BY <1>6, <2>1
  <2>4. z.tabs \in [Procs -> TableSet]
    BY <1>2, <1>5, <2>2
  <2> QED BY <1>2, <2>2, <2>3, <2>4 DEF IsMachine
<1>8. z.tabs[c] = T /\ \A q \in Procs : q # c => z.tabs[q] = x.tabs[q]
  BY <1>2, <1>7
<1>9. z.tabs[c][v] = e
  BY <1>2, <1>5, <1>8 DEF TableSet
<1>10. y = CopyPage(z, p, c, p, v)
  BY <1>1, <1>4, <1>6 DEF CopyEntry, IsEntry
<1>11. /\ IsMachine(y) /\ y.tabs = z.tabs /\ y.mem[z.tabs[c][v].frame] = z.mem[z.tabs[p][v].frame]
       /\ \A h \in Frames : h # z.tabs[c][v].frame => y.mem[h] = z.mem[h]
  <2>1. Readable(z.tabs[p], v) /\ AllMapped(z.tabs[p])
    BY <1>8
  <2>2. Writable(z.tabs[c], v)
    BY <1>3, <1>9 DEF Writable
  <2>3. IsMachine(z)
    BY <1>7
  <2> QED BY <1>10, <2>1, <2>2, <2>3, CopyPageFacts
<1>12. \A w \in Pages : w # v => z.tabs[c][w] = x.tabs[c][w]
  BY <1>2, <1>5, <1>8 DEF TableSet
<1>13. z.tabs[c][v].frame = g /\ z.tabs[p] = x.tabs[p] /\ z.mem = x.mem
  BY <1>3, <1>7, <1>8, <1>9
<1>14. y.mem[g] = x.mem[x.tabs[p][v].frame] /\ \A h \in Frames : h # g => y.mem[h] = x.mem[h]
  BY <1>11, <1>13
<1> QED BY <1>1, <1>8, <1>9, <1>11, <1>12, <1>14 DEF EntryCopied

LEMMA CopiedStep ==
    ASSUME NEW m, NEW p \in Procs, NEW c \in Procs, p # c, NEW M \in Seq(MapEntry), NEW f \in Nat,
           NEW n \in 1 .. Len(M), f + n - 1 \in Frames,
           AllMapped(m.tabs[p]), Readable(m.tabs[p], M[n].virt), Below(m.tabs[p], M, f),
           NEW x, Copied(x, n - 1, m, p, c, M, f),
           NEW me, IsEntry(me, M[n].virt, f + n - 1), NEW y, y = CopyEntry(x, c, p, me)
    PROVE  Copied(y, n, m, p, c, M, f)
<1>1. PICK v, g, e : v = M[n].virt /\ g = f + n - 1 /\ e = Entry(g, TRUE, TRUE)
  OBVIOUS
<1>0. \A k \in 1 .. Len(M) : M[k] \in MapEntry
  OBVIOUS
<1>2. v \in Pages /\ x.tabs[p] = m.tabs[p] /\ IsMachine(x)
  <2>1. v \in Pages
    BY <1>0, <1>1 DEF MapEntry
  <2> QED BY <2>1 DEF Copied
<1>3. /\ IsMachine(y) /\ \A q \in Procs : q # c => y.tabs[q] = x.tabs[q]
      /\ y.tabs[c][v] = e /\ \A w \in Pages : w # v => y.tabs[c][w] = x.tabs[c][w]
      /\ y.mem[g] = x.mem[x.tabs[p][v].frame] /\ \A h \in Frames : h # g => y.mem[h] = x.mem[h]
  <2>1. /\ g \in Frames /\ Readable(x.tabs[p], v) /\ AllMapped(x.tabs[p])
        /\ IsEntry(me, v, g) /\ v \in Pages /\ IsMachine(x)
    BY <1>1, <1>2
  <2>2. EntryCopied(x, y, p, c, v, g)
    BY <2>1, CopyEntryFacts
  <2> QED BY <1>1, <2>2 DEF EntryCopied
<1>4. y.tabs[c][v] = e /\ \A w \in Pages : w # v => y.tabs[c][w] = x.tabs[c][w]
  BY <1>3
<1>5. /\ n \in Nat /\ n \in 1 .. n /\ \A k \in 1 .. n - 1 : k \in 1 .. n
      /\ \A k \in 1 .. n : k = n \/ (k \in 1 .. n - 1 /\ n \in k + 1 .. n)
      /\ \A k \in 1 .. n - 1 : \A j \in k + 1 .. n - 1 : j \in k + 1 .. n
  OBVIOUS
<1>6. \A k \in 1 .. n : M[k].virt \in Pages
  <2>1. \A k \in 1 .. n : k \in 1 .. Len(M)
    OBVIOUS
  <2> QED BY <1>0, <2>1 DEF MapEntry
<1>7. ASSUME NEW w \in Pages, \A k \in 1 .. n : M[k].virt # w PROVE y.tabs[c][w] = m.tabs[c][w]
  <2>1. w # v /\ \A k \in 1 .. n - 1 : M[k].virt # w
    BY <1>1, <1>5, <1>7
  <2> QED BY <1>4, <2>1 DEF Copied
<1>8. ASSUME NEW k \in 1 .. n, \A j \in k + 1 .. n : M[j].virt # M[k].virt
      PROVE  y.tabs[c][M[k].virt] = Entry(f + k - 1, TRUE, TRUE)
  <2>1. CASE k = n
    BY <1>1, <1>4, <2>1
  <2>2. CASE k # n
    <3>1. k \in 1 .. n - 1 /\ M[k].virt # v
      BY <1>1, <1>5, <1>8, <2>2
    <3>2. x.tabs[c][M[k].virt] = Entry(f + k - 1, TRUE, TRUE)
      BY <1>5, <1>8, <3>1 DEF Copied
    <3> QED BY <1>4, <1>6, <3>1, <3>2
  <2> QED BY <2>1, <2>2
<1>9. ASSUME NEW k \in 1 .. n
      PROVE  \E j \in 1 .. n :
                M[j].virt = M[k].virt /\ y.tabs[c][M[k].virt] = Entry(f + j - 1, TRUE, TRUE)
  <2>1. CASE M[k].virt = v
    BY <1>1, <1>4, <1>5, <2>1
  <2>2. CASE M[k].virt # v
    <3>1. k \in 1 .. n - 1
      BY <1>1, <1>5, <2>2
    <3>2. PICK j \in 1 .. n - 1 :
                M[j].virt = M[k].virt /\ x.tabs[c][M[k].virt] = Entry(f + j - 1, TRUE, TRUE)
      BY <3>1 DEF Copied
    <3> QED BY <1>4, <1>5, <1>6, <2>2, <3>2
  <2> QED BY <2>1, <2>2
<1>10. \A q \in Procs : q # c => y.tabs[q] = m.tabs[q]
  BY <1>3 DEF Copied
<1>11. CopiedMem(y, n, m, m.tabs[p], M, f)
  <2>1. /\ \A h \in Frames : h \notin f .. f + (n - 1) - 1 => x.mem[h] = m.mem[h]
        /\ \A k \in 1 .. n - 1 : x.mem[f + k - 1] = m.mem[m.tabs[p][M[k].virt].frame]
    BY DEF Copied, CopiedMem
  <2>2. ASSUME NEW h \in Frames, h \notin f .. f + n - 1 PROVE y.mem[h] = m.mem[h]
    <3>1. h # g /\ h \notin f .. f + (n - 1) - 1
      BY <1>1, <2>2
    <3> QED BY <1>3, <2>1, <3>1
  <2>3. ASSUME NEW k \in 1 .. n PROVE y.mem[f + k - 1] = m.mem[m.tabs[p][M[k].virt].frame]
    <3>1. CASE k = n
      <4>1. PICK h : h = m.tabs[p][v].frame
        OBVIOUS
      <4>2. h \in 1 .. f - 1
        BY <1>1, <4>1 DEF Below
      <4>3. h \in Frames /\ h \notin f .. f + (n - 1) - 1
        BY <4>2, FrameBound DEF Frames
      <4>4. y.mem[g] = m.mem[h]
        BY <1>2, <1>3, <2>1, <4>1, <4>3
      <4> QED BY <1>1, <3>1, <4>1, <4>4
    <3>2. CASE k # n
      <4>1. k \in 1 .. n - 1 /\ f + k - 1 \in Frames /\ f + k - 1 # g
        <5>1. k \in 1 .. n - 1
          BY <1>5, <3>2
        <5>2. f >= 1
          <6>1. m.tabs[p][M[n].virt].frame \in 1 .. f - 1
            BY DEF Below
          <6> QED BY <6>1
        <5> QED BY <1>1, <5>1, <5>2, FrameBound DEF Frames
      <4> QED BY <1>3, <2>1, <4>1
    <3> QED BY <3>1, <3>2
  <2> QED BY <2>2, <2>3 DEF CopiedMem
<1> QED BY <1>3, <1>7, <1>8, <1>9, <1>10, <1>11 DEF Copied

LEMMA CopyDataFacts ==
    ASSUME NEW m, IsMachine(m), NEW p \in Procs, NEW c \in Procs, p # c, maps[p] \in Seq(MapEntry), NEW f \in Nat,
           AllMapped(m.tabs[p]), Below(m.tabs[p], maps[p], f),
           \A n \in 1 .. Len(maps[p]) : f + n - 1 \in Frames /\ Readable(m.tabs[p], maps[p][n].virt)
    PROVE  Copied(proc_copy_data(m, c, p, f), Len(maps[p]), m, p, c, maps[p], f)
<1> DEFINE N == Len(maps[p])
           Eq(w, k) == w = [n \in 0 .. k |->
                              IF n = 0 THEN m ELSE CopyEntry(w[n - 1], c, p, CopiedMap(p, f)[n])]
           copied == CHOOSE w : Eq(w, N)
           none == {k \in Nat : ~ \E w : Eq(w, k)}
<1>1. proc_copy_data(m, c, p, f) = copied[N]
  BY DEF proc_copy_data
<1>2. N \in Nat /\ DOMAIN maps[p] = 1 .. N
  OBVIOUS
<1>3. none = {}
  <2> SUFFICES ASSUME none # {} PROVE FALSE
    OBVIOUS
  <2>1. none \in SUBSET Nat
    OBVIOUS
  <2>2. PICK k \in none : \A y \in none : k <= y
    <3> HIDE DEF none
    <3> QED BY <2>1, LeastNat
  <2>3. k \in Nat /\ ~ \E w : Eq(w, k)
    BY <2>2
  <2>4. k # 0
    <3> SUFFICES ASSUME k = 0 PROVE FALSE
      OBVIOUS
    <3>1. Eq([n \in 0 .. 0 |-> m], 0)
      OBVIOUS
    <3> QED BY <3>1, <2>3
  <2>5. k - 1 \in Nat /\ k - 1 \notin none
    <3>1. k - 1 \in Nat /\ ~ (k <= k - 1)
      BY <2>3, <2>4
    <3> HIDE DEF none
    <3> QED BY <2>2, <3>1
  <2>6. PICK w : Eq(w, k - 1)
    BY <2>5
  <2>7. PICK last : last = CopyEntry(w[k - 1], c, p, CopiedMap(p, f)[k])
    OBVIOUS
  <2>8. PICK h : h = [n \in 0 .. k |-> IF n = k THEN last ELSE w[n]]
    OBVIOUS
  <2>9. ASSUME NEW n \in 0 .. k
        PROVE  h[n] = IF n = 0 THEN m ELSE CopyEntry(h[n - 1], c, p, CopiedMap(p, f)[n])
    <3>1. n # 0 => n - 1 \in 0 .. k /\ n - 1 # k
      BY <2>3
    <3>2. CASE n = k
      BY <2>4, <2>7, <2>8, <3>1, <3>2
    <3>3. CASE n # k
      <4>1. n \in 0 .. (k - 1)
        BY <2>3, <3>3
      <4>2. w[n] = IF n = 0 THEN m ELSE CopyEntry(w[n - 1], c, p, CopiedMap(p, f)[n])
        BY <2>6, <4>1
      <4> QED BY <2>8, <3>1, <3>3, <4>2
    <3> QED BY <3>2, <3>3
  <2>10. Eq(h, k)
    BY <2>8, <2>9
  <2> QED BY <2>3, <2>10
<1>4. Eq(copied, N)
  BY <1>2, <1>3
<1> HIDE DEF copied, none
<1>5. PICK M : M = maps[p]
  OBVIOUS
<1>6. PICK good : good = [n \in 0 .. N |-> IF Copied(copied[n], n, m, p, c, M, f) THEN 1 ELSE 0]
  OBVIOUS
<1>7. 0 \in 0 .. N /\ \A n \in 1 .. N : n \in 0 .. N /\ n # 0 /\ n - 1 \in 0 .. N
  BY <1>2
<1>8. good[0] = 1
  <2>1. copied[0] = m
    BY <1>4, <1>7
  <2>2. Copied(m, 0, m, p, c, M, f)
    BY DEF Copied, CopiedMem
  <2> QED BY <1>6, <1>7, <2>1, <2>2
<1>9. ASSUME NEW n \in 1 .. N, good[n - 1] = 1 PROVE good[n] = 1
  <2>1. PICK x, y, me : x = copied[n - 1] /\ y = copied[n] /\ me = CopiedMap(p, f)[n]
    OBVIOUS
  <2>2. y = CopyEntry(x, c, p, me)
    BY <1>4, <1>7, <2>1
  <2>3. Copied(x, n - 1, m, p, c, M, f)
    BY <1>6, <1>7, <1>9, <2>1
  <2>4. IsEntry(me, M[n].virt, f + n - 1)
    BY <1>2, <1>5, <2>1 DEF CopiedMap, IsEntry
  <2>5. /\ M \in Seq(MapEntry) /\ n \in 1 .. Len(M) /\ f + n - 1 \in Frames
        /\ Readable(m.tabs[p], M[n].virt) /\ Below(m.tabs[p], M, f)
    BY <1>5
  <2>6. Copied(y, n, m, p, c, M, f)
    BY <2>2, <2>3, <2>4, <2>5, CopiedStep
  <2> QED BY <1>6, <1>7, <2>1, <2>6
<1>10. good[N] = 1
  <2> HIDE DEF Eq, N
  <2>1. PICK yes : yes = {1}
    OBVIOUS
  <2>2. good[0] \in yes /\ \A n \in 1 .. N : good[n - 1] \in yes => good[n] \in yes
    BY <1>8, <1>9, <2>1
  <2>3. \A n \in 0 .. N : good[n] \in yes
    BY <1>2, <2>2, Stays
  <2> QED BY <1>2, <2>1, <2>3
<1> QED BY <1>1, <1>2, <1>5, <1>6, <1>10

\* A table is replaced, or a frame written.
TableIs(z, x, c, T) == z = [x EXCEPT !.tabs[c] = T]
LEMMA SetTable ==
    ASSUME NEW x, IsMachine(x), NEW c \in Procs, NEW T \in TableSet, NEW z, TableIs(z, x, c, T)
    PROVE  IsMachine(z) /\ z.tabs[c] = T /\ z.mem = x.mem /\ \A q \in Procs : q # c => z.tabs[q] = x.tabs[q]
<1>1. DOMAIN x = {"tabs", "mem", "failed"} /\ x.failed = FALSE /\ x.tabs \in [Procs -> TableSet]
      /\ x.mem \in [Frames -> Values]
  BY DEF IsMachine
<1>2. z.tabs = [x.tabs EXCEPT ![c] = T] /\ z.mem = x.mem /\ z.failed = FALSE
  BY <1>1 DEF TableIs
<1>3. z = [k \in {"tabs", "mem", "failed"} |-> z[k]]
  BY <1>1 DEF TableIs
<1>4. z.tabs \in [Procs -> TableSet] /\ z.tabs[c] = T /\ \A q \in Procs : q # c => z.tabs[q] = x.tabs[q]
  BY <1>1, <1>2
<1> QED BY <1>1, <1>2, <1>3, <1>4 DEF IsMachine

Written(z, x, f, b) ==
    /\ f \in Frames => z.mem[f] = b
    /\ \A g \in Frames : g # f => z.mem[g] = x.mem[g]
LEMMA SetFrame ==
    ASSUME NEW x, IsMachine(x), NEW f, NEW b \in Values, NEW z, z = [x EXCEPT !.mem[f] = b]
    PROVE  IsMachine(z) /\ z.tabs = x.tabs /\ Written(z, x, f, b)
<1>1. DOMAIN x = {"tabs", "mem", "failed"} /\ x.failed = FALSE /\ x.tabs \in [Procs -> TableSet]
      /\ x.mem \in [Frames -> Values]
  BY DEF IsMachine
<1>2. z.tabs = x.tabs /\ z.mem = [x.mem EXCEPT ![f] = b] /\ z.failed = FALSE
  BY <1>1
<1>3. z = [k \in {"tabs", "mem", "failed"} |-> z[k]]
  BY <1>1
<1>4. z.mem \in [Frames -> Values] /\ Written(z, x, f, b)
  BY <1>1, <1>2 DEF Written
<1> QED BY <1>1, <1>2, <1>3, <1>4 DEF IsMachine

\* mmu_write_data closes what it opened.
LEMMA WriteDataFacts ==
    ASSUME NEW m, IsMachine(m), NEW p \in Procs, NEW c \in Procs, NEW v \in Pages, NEW b \in Values,
           Writable(m.tabs[c], v), AllMapped(m.tabs[p]), NEW y, y = mmu_write_data(m, p, c, v, b)
    PROVE  IsMachine(y) /\ y.tabs = m.tabs /\ Written(y, m, m.tabs[c][v].frame, b)
<1>1. PICK to, here : to = m.tabs[c][v].frame /\ here = m.tabs[p]
  OBVIOUS
<1>2. here \in TableSet /\ to \in Frames /\ m.tabs \in [Procs -> TableSet]
  <2>1. m.tabs[c][v] \in EntrySet /\ here \in TableSet /\ to # 0 /\ m.tabs \in [Procs -> TableSet]
    BY <1>1 DEF IsMachine, TableSet, Writable
  <2> QED BY <1>1, <2>1, Numbers DEF EntrySet
<1>3. PICK open : open = mmu_map(here, to, TRUE)
  OBVIOUS
<1>4. open \in TableSet /\ open = [here EXCEPT ![to] = Entry(to, TRUE, TRUE)]
  BY <1>2, <1>3, OpenFacts
<1>5. here[to] \in EntrySet /\ here[to].frame # 0 /\ to \in Pages
  BY <1>1, <1>2, Numbers DEF TableSet, AllMapped
<1>6. PICK closed : closed = mmu_map_restore(open, to, here[to])
  OBVIOUS
<1>7. closed = here
  <2>1. closed \in TableSet /\ closed = [open EXCEPT ![to] = here[to]]
    BY <1>2, <1>4, <1>5, <1>6, RestoreFacts
  <2>2. \A x \in Pages : closed[x] = here[x]
    BY <1>2, <1>4, <1>5, <2>1 DEF TableSet
  <2> QED BY <1>2, <2>1, <2>2 DEF TableSet
<1>8. y = [m EXCEPT !.mem[open[to].frame] = b, !.tabs[p] = closed]
  BY <1>1, <1>3, <1>6 DEF mmu_write_data
<1>9. PICK z, f : f = open[to].frame /\ z = [m EXCEPT !.mem[f] = b]
  OBVIOUS
<1>10. IsMachine(z) /\ z.tabs = m.tabs /\ Written(z, m, f, b)
  <2>1. z = [m EXCEPT !.mem[f] = b]
    BY <1>9
  <2> QED BY <2>1, SetFrame
<1>11. TableIs(y, z, p, here)
  BY <1>7, <1>8, <1>9 DEF IsMachine, TableIs
<1>12. IsMachine(y) /\ y.tabs[p] = here /\ y.mem = z.mem /\ \A q \in Procs : q # p => y.tabs[q] = z.tabs[q]
  BY <1>2, <1>10, <1>11, SetTable
<1>13. y.tabs = m.tabs
  <2>1. \A q \in Procs : y.tabs[q] = m.tabs[q]
    BY <1>1, <1>10, <1>12
  <2> QED BY <1>2, <1>12, <2>1 DEF IsMachine
<1>14. f = to
  BY <1>2, <1>4, <1>5, <1>9 DEF TableSet, Entry
<1>15. Written(y, m, to, b)
  BY <1>10, <1>12, <1>14 DEF Written
<1> QED BY <1>1, <1>12, <1>13, <1>15

LEMMA KernelWriteFacts ==
    ASSUME NEW m, IsMachine(m), NEW p \in Procs, NEW f, NEW b \in Values, Writable(m.tabs[p], f),
           NEW y, y = KernelWrite(m, p, f, b)
    PROVE  IsMachine(y) /\ y.tabs = m.tabs /\ Written(y, m, m.tabs[p][f].frame, b)
<1>1. PICK g : g = m.tabs[p][f].frame
  OBVIOUS
<1>2. y = [m EXCEPT !.mem[g] = b]
  BY <1>1 DEF KernelWrite
<1>3. IsMachine(y) /\ y.tabs = m.tabs /\ Written(y, m, g, b)
  BY <1>2, SetFrame
<1> QED BY <1>1, <1>3

LEMMA ReturnFacts ==
    ASSUME NEW m, IsMachine(m), NEW p \in Procs, NEW b \in Values, NEW y, y = Return(m, p, b)
    PROVE  IsMachine(y) /\ y.tabs = m.tabs /\ Written(y, m, m.tabs[p][Cell].frame, b)
<1>1. PICK g : g = m.tabs[p][Cell].frame
  OBVIOUS
<1>2. y = [m EXCEPT !.mem[g] = b]
  BY <1>1 DEF Return
<1>3. IsMachine(y) /\ y.tabs = m.tabs /\ Written(y, m, g, b)
  BY <1>2, SetFrame
<1> QED BY <1>1, <1>3

\* The child's table U, made from the table T and the memory map M of its parent, with new
\* frames from n on.
ChildTable(U, T, M, n) ==
    /\ U[Cell] = Entry(n, TRUE, TRUE) /\ U[Top] = Entry(n + 1, TRUE, TRUE)
    /\ \A v \in Pages : v \notin StackPages /\ (\A k \in 1 .. Len(M) : M[k].virt # v) => U[v] = T[v]
    /\ \A k \in 1 .. Len(M) : Latest(M, k) => U[M[k].virt] = Entry(n + 2 + k - 1, TRUE, TRUE)
    /\ \A k \in 1 .. Len(M) : \E j \in 1 .. Len(M) :
          M[j].virt = M[k].virt /\ U[M[k].virt] = Entry(n + 2 + j - 1, TRUE, TRUE)

\* What fork leaves in the frames: R before it, S after it.
ForkedMem(S, R, T, M, n) ==
    /\ S[T[Cell].frame] = 1 /\ S[n] = 0 /\ S[n + 1] = R[T[Top].frame]
    /\ \A k \in 1 .. Len(M) : S[n + 2 + k - 1] = R[T[M[k].virt].frame]
    /\ \A g \in 1 .. n - 1 : g # T[Cell].frame => S[g] = R[g]

LEMMA ForkedFacts ==
    ASSUME SpaceInv, NEW p \in Procs, NEW c \in Procs, status[p] = "live", p # c,
           next + Len(maps[p]) + 1 <= MaxFrames, NEW y, y = Forked(p, c)
    PROVE  /\ IsMachine(y) /\ \A q \in Procs : q # c => y.tabs[q] = tables[q]
           /\ ChildTable(y.tabs[c], tables[p], maps[p], next) /\ ForkedMem(y.mem, mem, tables[p], maps[p], next)
<1>1. /\ tables \in [Procs -> TableSet] /\ mem \in [Frames -> Values] /\ maps[p] \in Seq(MapEntry)
      /\ next \in 4 .. MaxFrames + 1 /\ UserPart(tables[p], maps[p], arguments[p], next)
  BY DEF SpaceInv, SpaceTypes
<1>2. /\ next \in Nat /\ Len(maps[p]) \in Nat /\ next \in Frames /\ next + 1 \in Frames /\ next + 2 \in Nat
      /\ \A n \in 1 .. Len(maps[p]) : next + 2 + n - 1 \in Frames
  <2>1. PICK l : l = Len(maps[p])
    OBVIOUS
  <2>2. next \in Nat /\ l \in Nat /\ next >= 4 /\ next + l + 1 <= MaxFrames
    BY <1>1, <2>1, FrameBound
  <2>3. /\ next \in 1 .. MaxFrames /\ next + 1 \in 1 .. MaxFrames
        /\ \A n \in 1 .. l : next + 2 + n - 1 \in 1 .. MaxFrames
    BY <2>2, FrameBound
  <2> QED BY <2>1, <2>2, <2>3 DEF Frames
<1>3. AllMapped(tables[p]) /\ tables[p] \in TableSet
  BY <1>1 DEF UserPart, AllMapped
<1>4. \A v \in Pages : tables[p][v].user => Readable(tables[p], v)
  BY <1>1, <1>2 DEF UserPart, Readable
<1>5. \A n \in 1 .. Len(maps[p]) : /\ maps[p][n].virt \in Pages /\ tables[p][maps[p][n].virt].user
                                     /\ maps[p][n].virt # Cell /\ maps[p][n].virt # Top
  <2> TAKE n \in 1 .. Len(maps[p])
  <2>1. maps[p][n] \in MapEntry /\ n \in DOMAIN maps[p]
    BY <1>1
  <2>2. PICK v \in Pages : v = maps[p][n].virt
    BY <2>1 DEF MapEntry
  <2>3. tables[p][v].user /\ v \in {Code, Fixed} \union (2 .. next - 1)
    BY <1>1, <2>1, <2>2 DEF UserPart
  <2>4. v \in {Code, Fixed} \union Frames
    BY <1>1, <2>3, FrameBound DEF Frames
  <2> QED BY <2>2, <2>3, <2>4, Numbers
<1>6. PICK cloned : cloned = Machine([tables EXCEPT ![c] = tables[p]], mem)
  OBVIOUS
<1>7. /\ IsMachine(cloned) /\ cloned.tabs[c] = tables[p] /\ cloned.mem = mem
      /\ \A q \in Procs : q # c => cloned.tabs[q] = tables[q]
  BY <1>1, <1>6 DEF IsMachine, Machine
<1>8. PICK T, t : t = TRUE /\ T = mmu_map_table(tables[p], Cell, next, 2, TRUE, t)
  OBVIOUS
<1>9. T \in TableSet /\ T[Cell] = Entry(next, TRUE, TRUE) /\ T[Top] = Entry(next + 1, TRUE, TRUE)
      /\ \A v \in Pages : v # Cell /\ v # Top => T[v] = tables[p][v]
  <2>1. /\ T \in TableSet
        /\ T = [x \in Pages |-> IF x = Cell THEN Entry(next, TRUE, t)
                                 ELSE IF x = Top THEN Entry(next + 1, TRUE, t) ELSE tables[p][x]]
    <3>1. t \in BOOLEAN
      BY <1>8
    <3> QED BY <1>2, <1>3, <1>8, <3>1, MapStackFacts
  <2> QED BY <1>8, <2>1, Numbers
<1>10. PICK new : new = proc_create_stack(cloned, c, next, TRUE)
  OBVIOUS
<1>11. /\ IsMachine(new) /\ new.tabs[c] = T /\ new.mem = mem
       /\ \A q \in Procs : q # c => new.tabs[q] = tables[q]
  <2>1. TableIs(new, cloned, c, T)
    BY <1>7, <1>8, <1>10 DEF proc_create_stack, TableIs
  <2>2. IsMachine(cloned) /\ T \in TableSet
    BY <1>7, <1>9
  <2>3. /\ IsMachine(new) /\ new.tabs[c] = T /\ new.mem = cloned.mem
        /\ \A q \in Procs : q # c => new.tabs[q] = cloned.tabs[q]
    BY <2>1, <2>2, SetTable
  <2> QED BY <1>7, <2>3
<1>12. PICK s1, s2 : s1 = CopyPage(new, p, c, p, Cell) /\ s2 = CopyPage(s1, p, c, p, Top)
  OBVIOUS
<1>13. \A v \in StackPages : Readable(tables[p], v) /\ Writable(T, v)
  <2>1. Writable(T, Cell) /\ Writable(T, Top)
    <3>1. next # 0 /\ next + 1 # 0
      BY <1>1, FrameBound
    <3>2. \A g : Entry(g, TRUE, TRUE).frame = g /\ Entry(g, TRUE, TRUE).write
      BY DEF Entry
    <3> QED BY <1>9, <3>1, <3>2 DEF Writable
  <2>2. tables[p][Cell].user /\ tables[p][Top].user
    BY <1>1, Numbers DEF UserPart, StackPages
  <2> QED BY <1>4, <2>1, <2>2, Numbers DEF StackPages
<1>14. Cell \in StackPages /\ Top \in StackPages /\ Cell \in Pages /\ Top \in Pages
  BY Numbers DEF StackPages
<1>15. /\ IsMachine(s1) /\ s1.tabs = new.tabs
       /\ \A f \in Frames : f # new.tabs[c][Cell].frame => s1.mem[f] = new.mem[f]
  <2>1. Readable(new.tabs[p], Cell) /\ Writable(new.tabs[c], Cell) /\ AllMapped(new.tabs[p])
    BY <1>3, <1>11, <1>13, <1>14
  <2>2. IsMachine(new) /\ s1 = CopyPage(new, p, c, p, Cell)
    BY <1>11, <1>12
  <2> QED BY <1>14, <2>1, <2>2, CopyPageFacts
<1>16. /\ IsMachine(s2) /\ s2.tabs = new.tabs
       /\ s2.mem[s1.tabs[c][Top].frame] = s1.mem[s1.tabs[p][Top].frame]
       /\ \A f \in Frames : f # s1.tabs[c][Top].frame => s2.mem[f] = s1.mem[f]
  <2>1. Readable(s1.tabs[p], Top) /\ Writable(s1.tabs[c], Top) /\ AllMapped(s1.tabs[p])
    BY <1>3, <1>11, <1>13, <1>14, <1>15
  <2>2. IsMachine(s1) /\ s2 = CopyPage(s1, p, c, p, Top)
    BY <1>12, <1>15
  <2>3. /\ IsMachine(s2) /\ s2.tabs = s1.tabs
        /\ s2.mem[s1.tabs[c][Top].frame] = s1.mem[s1.tabs[p][Top].frame]
        /\ \A f \in Frames : f # s1.tabs[c][Top].frame => s2.mem[f] = s1.mem[f]
    BY <1>14, <2>1, <2>2, CopyPageFacts
  <2> QED BY <1>15, <2>3
<1>17. PICK M, f, k : M = maps[p] /\ f = next + 2 /\ k = proc_copy_data(s2, c, p, f)
  OBVIOUS
<1>18. Copied(k, Len(M), s2, p, c, M, f)
  <2>1. s2.tabs[p] = tables[p]
    BY <1>11, <1>16
  <2>2. AllMapped(s2.tabs[p]) /\ IsMachine(s2) /\ f \in Nat /\ maps[p] \in Seq(MapEntry)
    BY <1>1, <1>2, <1>3, <1>16, <1>17, <2>1
  <2>3. \A n \in 1 .. Len(maps[p]) : f + n - 1 \in Frames /\ Readable(s2.tabs[p], maps[p][n].virt)
    BY <1>2, <1>4, <1>5, <1>17, <2>1
  <2>4. Below(s2.tabs[p], maps[p], f)
    <3>1. \A n \in 1 .. Len(maps[p]) : tables[p][maps[p][n].virt].frame \in 2 .. next - 1
      BY <1>1, <1>5 DEF UserPart
    <3>2. \A g \in 2 .. next - 1 : g \in 1 .. f - 1
      BY <1>2, <1>17
    <3> QED BY <2>1, <3>1, <3>2 DEF Below
  <2>5. Copied(proc_copy_data(s2, c, p, f), Len(maps[p]), s2, p, c, maps[p], f)
    BY <2>2, <2>3, <2>4, CopyDataFacts
  <2> QED BY <1>17, <2>5
<1>19. /\ IsMachine(k) /\ \A q \in Procs : q # c => k.tabs[q] = tables[q]
       /\ k.tabs[c][Cell] = T[Cell] /\ k.tabs[c][Top] = T[Top]
  BY <1>5, <1>11, <1>14, <1>16, <1>17, <1>18 DEF Copied
<1>20. PICK z : z = mmu_write_data(k, p, c, Cell, 0)
  OBVIOUS
<1>21. IsMachine(z) /\ z.tabs = k.tabs /\ Written(z, k, k.tabs[c][Cell].frame, 0)
  <2>1. Writable(k.tabs[c], Cell) /\ AllMapped(k.tabs[p]) /\ 0 \in Values
    BY <1>3, <1>13, <1>14, <1>19 DEF Values, Writable
  <2>2. IsMachine(k)
    BY <1>19
  <2> QED BY <1>14, <1>20, <2>1, <2>2, WriteDataFacts
<1>22. y = Return(z, p, 1)
  BY <1>6, <1>10, <1>12, <1>17, <1>20 DEF Forked, arch_postfork_setup, proc_copy_stack, mmu_clone_table
<1>23. IsMachine(y) /\ y.tabs = k.tabs /\ Written(y, z, k.tabs[p][Cell].frame, 1)
  <2>0. IsMachine(z) /\ 1 \in Values
    BY <1>21 DEF Values
  <2>1. IsMachine(y) /\ y.tabs = z.tabs /\ Written(y, z, z.tabs[p][Cell].frame, 1)
    BY <1>22, <2>0, ReturnFacts
  <2> QED BY <1>21, <2>1
<1>24. ChildTable(k.tabs[c], tables[p], M, next)
  <2>1. k.tabs[c][Cell] = Entry(next, TRUE, TRUE) /\ k.tabs[c][Top] = Entry(next + 1, TRUE, TRUE)
    BY <1>9, <1>19
  <2>2. ASSUME NEW v \in Pages, v \notin StackPages, \A i \in 1 .. Len(M) : M[i].virt # v
        PROVE  k.tabs[c][v] = tables[p][v]
    <3>1. k.tabs[c][v] = s2.tabs[c][v]
      BY <1>18, <2>2 DEF Copied
    <3> QED BY <1>9, <1>11, <1>14, <1>16, <2>2, <3>1
  <2>3. \A i \in 1 .. Len(M) : Latest(M, i) => k.tabs[c][M[i].virt] = Entry(f + i - 1, TRUE, TRUE)
    BY <1>18 DEF Copied, Latest
  <2>4. \A i \in 1 .. Len(M) : \E j \in 1 .. Len(M) :
            M[j].virt = M[i].virt /\ k.tabs[c][M[i].virt] = Entry(f + j - 1, TRUE, TRUE)
    BY <1>18 DEF Copied
  <2> QED BY <1>17, <2>1, <2>2, <2>3, <2>4 DEF ChildTable
<1>25. PICK n, S, R, cell, top : /\ n = next /\ S = y.mem /\ R = mem
                                /\ cell = tables[p][Cell].frame /\ top = tables[p][Top].frame
  OBVIOUS
<1>26. /\ cell \in 2 .. n - 1 /\ top \in 2 .. n - 1
       /\ \A i \in 1 .. Len(M) : tables[p][M[i].virt].frame \in 2 .. n - 1 /\ tables[p][M[i].virt].frame # cell
  <2>1. \A v \in Pages : tables[p][v].user => tables[p][v].frame \in 2 .. n - 1
    BY <1>1, <1>25 DEF UserPart
  <2>2. tables[p][Cell].user /\ tables[p][Top].user
    BY <1>1, <1>14 DEF UserPart
  <2>3. \A v \in Pages : tables[p][v].user /\ v # Cell => tables[p][v].frame # cell
    BY <1>1, <1>14, <1>25, <2>2 DEF UserPart
  <2> QED BY <1>5, <1>14, <1>17, <1>25, <2>1, <2>2, <2>3
<1>27. k.tabs[p][Cell].frame = cell /\ k.tabs[c][Cell].frame = n /\ s1.tabs[p][Top].frame = top
       /\ s1.tabs[c][Top].frame = n + 1 /\ new.tabs[c][Cell].frame = n
  <2>1. \A g : Entry(g, TRUE, TRUE).frame = g
    BY DEF Entry
  <2>2. T[Cell].frame = n /\ T[Top].frame = n + 1
    BY <1>9, <1>25, <2>1
  <2> QED BY <1>11, <1>15, <1>19, <1>25, <2>2
<1>28. \A g \in 1 .. n - 1 : g # cell => S[g] = R[g]
  <2> TAKE g \in 1 .. n - 1
  <2> HAVE g # cell
  <2>0. n \in 4 .. MaxFrames + 1 /\ f = n + 2 /\ Len(M) \in Nat
    BY <1>1, <1>2, <1>17, <1>25
  <2>1. g \in Frames /\ g # n /\ g # n + 1 /\ g \notin f .. f + Len(M) - 1
    BY <2>0, FrameBound DEF Frames
  <2>2. s2.mem[g] = mem[g]
    BY <1>11, <1>15, <1>16, <1>27, <2>1
  <2>3. k.mem[g] = s2.mem[g]
    BY <1>18, <2>1 DEF Copied, CopiedMem
  <2>4. z.mem[g] = k.mem[g]
    BY <1>21, <1>27, <2>1 DEF Written
  <2>5. y.mem[g] = z.mem[g]
    BY <1>23, <1>27, <2>1 DEF Written
  <2> QED BY <1>25, <2>2, <2>3, <2>4, <2>5
<1>29. S[cell] = 1 /\ S[n] = 0
  <2>1. cell \in Frames /\ n \in Frames /\ n # cell
    BY <1>1, <1>2, <1>25, <1>26, FrameBound DEF Frames
  <2>2. y.mem[cell] = 1 /\ y.mem[n] = z.mem[n]
    BY <1>23, <1>27, <2>1 DEF Written
  <2>3. z.mem[n] = 0
    BY <1>21, <1>27, <2>1 DEF Written
  <2> QED BY <1>25, <2>2, <2>3
<1>30. S[n + 1] = R[top]
  <2>1. /\ n + 1 \in Frames /\ n + 1 # cell /\ n + 1 # n /\ n + 1 \notin f .. f + Len(M) - 1
        /\ top \in Frames /\ top # n
    BY <1>1, <1>2, <1>17, <1>25, <1>26, FrameBound DEF Frames
  <2>2. s2.mem[n + 1] = s1.mem[top]
    BY <1>16, <1>27
  <2>3. s1.mem[top] = mem[top]
    BY <1>11, <1>15, <1>27, <2>1
  <2>4. k.mem[n + 1] = s2.mem[n + 1]
    BY <1>18, <2>1 DEF Copied, CopiedMem
  <2>5. z.mem[n + 1] = k.mem[n + 1]
    BY <1>21, <1>27, <2>1 DEF Written
  <2>6. y.mem[n + 1] = z.mem[n + 1]
    BY <1>23, <1>27, <2>1 DEF Written
  <2> QED BY <1>25, <2>2, <2>3, <2>4, <2>5, <2>6
<1>31. ASSUME NEW i \in 1 .. Len(M) PROVE S[n + 2 + i - 1] = R[tables[p][M[i].virt].frame]
  <2>1. PICK g, h : g = f + i - 1 /\ h = tables[p][M[i].virt].frame
    OBVIOUS
  <2>2. /\ g \in Frames /\ g # cell /\ g # n /\ h \in Frames /\ h # n /\ h # n + 1 /\ g = n + 2 + i - 1
    <3>1. h \in 2 .. n - 1
      BY <1>26, <2>1
    <3>2. n \in 4 .. MaxFrames + 1 /\ n + Len(M) + 1 <= MaxFrames /\ Len(M) \in Nat /\ f = n + 2
      BY <1>1, <1>2, <1>17, <1>25
    <3>3. g = n + 2 + i - 1
      BY <2>1, <3>2
    <3> QED BY <1>26, <3>1, <3>2, <3>3, FrameBound DEF Frames
  <2>3. k.mem[g] = s2.mem[h]
    <3>1. s2.tabs[p] = tables[p]
      BY <1>11, <1>16
    <3> QED BY <1>18, <2>1, <3>1 DEF Copied, CopiedMem
  <2>4. s2.mem[h] = mem[h]
    BY <1>11, <1>15, <1>16, <1>27, <2>2
  <2>5. z.mem[g] = k.mem[g]
    BY <1>21, <1>27, <2>2 DEF Written
  <2>6. y.mem[g] = z.mem[g]
    BY <1>23, <1>27, <2>2 DEF Written
  <2> QED BY <1>25, <2>1, <2>2, <2>3, <2>4, <2>5, <2>6
<1>32. ForkedMem(y.mem, mem, tables[p], maps[p], next)
  BY <1>17, <1>25, <1>28, <1>29, <1>30, <1>31 DEF ForkedMem
<1> QED BY <1>17, <1>19, <1>23, <1>24, <1>32

\* The child has its own pages in new frames, and shares the arguments.
Fresh(U, T, a, n) ==
    /\ U[a] = T[a]
    /\ \A v \in Pages : U[v].user /\ v # a => U[v].frame >= n
ChildMap(L, M, n) == L = [k \in DOMAIN M |-> [virt |-> M[k].virt, phys |-> n + 2 + k - 1]]
LEMMA ChildPart ==
    ASSUME NEW T \in TableSet, NEW M \in Seq(MapEntry), NEW a, NEW n \in Nat, n >= 4,
           UserPart(T, M, a, n), KernelPart(T, n), NEW o, o = n + Len(M) + 2, o - 1 <= MaxFrames,
           NEW U \in TableSet, ChildTable(U, T, M, n), NEW L, ChildMap(L, M, n)
    PROVE  L \in Seq(MapEntry) /\ UserPart(U, L, a, o) /\ KernelPart(U, o) /\ Fresh(U, T, a, n)
<1>1. Len(M) \in Nat /\ DOMAIN M = 1 .. Len(M) /\ \A k \in 1 .. Len(M) : M[k] \in MapEntry
  OBVIOUS
<1>2. \A k \in 1 .. Len(M) : /\ M[k].virt \in Pages /\ M[k].virt # a /\ M[k].virt # Cell /\ M[k].virt # Top
                              /\ M[k].virt \in {Code, Fixed} \union (2 .. n - 1)
  <2> TAKE k \in 1 .. Len(M)
  <2>1. M[k].virt \in Pages
    BY <1>1 DEF MapEntry
  <2>2. PICK v \in Pages : v = M[k].virt
    BY <2>1
  <2>3. v \in {Code, Fixed} \union (2 .. n - 1) /\ v # a
    BY <1>1, <2>2 DEF UserPart
  <2>4. n - 1 <= MaxFrames
    BY <1>1, FrameBound
  <2>5. v # Cell /\ v # Top
    BY <2>3, <2>4, FrameBound DEF Cell, Top, Code, Fixed
  <2> QED BY <2>2, <2>3, <2>5
<1>3. a \in 2 .. n - 1 /\ a \in 2 .. o - 1 /\ a \in Frames /\ a \in Pages /\ a \notin StackPages
  <2>1. a \in 2 .. n - 1
    BY DEF UserPart
  <2>2. a \in 2 .. o - 1 /\ a \in Frames
    BY <1>1, <2>1, FrameBound DEF Frames
  <2> QED BY <2>1, <2>2, Numbers DEF StackPages
<1>4. U[a] = T[a]
  BY <1>2, <1>3 DEF ChildTable
<1>5. \A g : Entry(g, TRUE, TRUE).frame = g /\ Entry(g, TRUE, TRUE).user /\ Entry(g, TRUE, TRUE).write
  BY DEF Entry
<1>6. \A v \in StackPages : U[v].user /\ U[v].write /\ U[v].frame \in n .. o - 1
  <2>1. n \in n .. o - 1 /\ n + 1 \in n .. o - 1
    BY <1>1
  <2>2. U[Cell] = Entry(n, TRUE, TRUE) /\ U[Top] = Entry(n + 1, TRUE, TRUE)
    BY DEF ChildTable
  <2>3. U[Cell].user /\ U[Cell].write /\ U[Cell].frame = n
    BY <1>5, <2>2
  <2>4. U[Top].user /\ U[Top].write /\ U[Top].frame = n + 1
    BY <1>5, <2>2
  <2> QED BY <2>1, <2>3, <2>4 DEF StackPages
<1>7. \A k \in 1 .. Len(M) : U[M[k].virt].user /\ U[M[k].virt].frame \in n .. o - 1
  <2> TAKE k \in 1 .. Len(M)
  <2>1. PICK j \in 1 .. Len(M) : U[M[k].virt] = Entry(n + 2 + j - 1, TRUE, TRUE)
    BY DEF ChildTable
  <2>2. n + 2 + j - 1 \in n .. o - 1
    BY <1>1
  <2> QED BY <1>5, <2>1, <2>2
<1>8. \A v \in Pages : v \notin StackPages /\ (\A k \in 1 .. Len(M) : M[k].virt # v) => U[v] = T[v]
  BY DEF ChildTable
<1>9. \A v \in Pages : U[v].user <=> (v = a \/ v \in StackPages \/ \E k \in 1 .. Len(M) : M[k].virt = v)
  <2> TAKE v \in Pages
  <2>1. CASE v \in StackPages \/ \E k \in 1 .. Len(M) : M[k].virt = v
    BY <1>6, <1>7, <2>1
  <2>2. CASE ~ (v \in StackPages \/ \E k \in 1 .. Len(M) : M[k].virt = v)
    BY <1>1, <1>8, <2>2 DEF UserPart
  <2> QED BY <2>1, <2>2
<1>10. \A v \in Pages : U[v].user /\ v # a => U[v].frame \in n .. o - 1
  BY <1>6, <1>7, <1>9
<1>11. T[a].user /\ T[a].frame \in 2 .. n - 1
  BY <1>3 DEF UserPart
<1>12. DOMAIN L = 1 .. Len(M) /\ Len(L) = Len(M) /\ L \in Seq(MapEntry)
       /\ \A k \in 1 .. Len(M) : L[k].virt = M[k].virt /\ L[k].phys = n + 2 + k - 1
  <2>1. L = [k \in 1 .. Len(M) |-> [virt |-> M[k].virt, phys |-> n + 2 + k - 1]]
    BY <1>1 DEF ChildMap
  <2>2. \A k \in 1 .. Len(M) : n + 2 + k - 1 \in Frames
    BY <1>1, FrameBound DEF Frames
  <2>3. \A k \in 1 .. Len(M) : [virt |-> M[k].virt, phys |-> n + 2 + k - 1] \in MapEntry
    BY <1>2, <2>2 DEF MapEntry
  <2>4. L \in Seq(MapEntry)
    BY <1>1, <2>1, <2>3
  <2> QED BY <1>1, <2>1, <2>4
<1>13. UserPart(U, L, a, o)
  <2>1. ASSUME NEW f \in Frames PROVE U[f].frame # 0
    <3>1. f \in Pages /\ f \notin StackPages
      BY Numbers DEF StackPages
    <3>2. CASE \E k \in 1 .. Len(M) : M[k].virt = f
      <4>1. U[f].frame \in n .. o - 1
        BY <1>7, <3>2
      <4> QED BY <4>1
    <3>3. CASE ~ \E k \in 1 .. Len(M) : M[k].virt = f
      BY <1>8, <3>1, <3>3 DEF UserPart
    <3> QED BY <3>2, <3>3
  <2>2. \A k \in DOMAIN L : L[k].virt \in {Code, Fixed} \union (2 .. o - 1) /\ L[k].virt # a
    <3>1. \A x \in 2 .. n - 1 : x \in 2 .. o - 1
      BY <1>1
    <3> QED BY <1>2, <1>12, <3>1
  <2>3. \A v \in Pages : U[v].user <=> (v = a \/ v \in StackPages \/ \E k \in DOMAIN L : L[k].virt = v)
    BY <1>9, <1>12
  <2>4. \A v \in Pages : U[v].user => U[v].frame \in 2 .. o - 1
    <3>1. \A x : x \in 2 .. n - 1 \/ x \in n .. o - 1 => x \in 2 .. o - 1
      BY <1>1
    <3> QED BY <1>4, <1>10, <1>11, <3>1
  <2>5. U[Cell].write /\ U[Top].write
    BY <1>6 DEF StackPages
  <2>6. \A k \in DOMAIN L : Latest(L, k) => U[L[k].virt].frame = L[k].phys
    <3> TAKE k \in DOMAIN L
    <3> HAVE Latest(L, k)
    <3>1. Latest(M, k)
      <4>1. \A j \in k + 1 .. Len(M) : j \in 1 .. Len(M)
        BY <1>1, <1>12
      <4> QED BY <1>12, <4>1 DEF Latest
    <3>2. U[M[k].virt] = Entry(n + 2 + k - 1, TRUE, TRUE)
      BY <1>12, <3>1 DEF ChildTable
    <3> QED BY <1>5, <1>12, <3>2
  <2>7. \A v, w \in Pages : U[v].user /\ U[w].user /\ v # w => U[v].frame # U[w].frame
    <3>1. \A x \in n .. o - 1 : \A y \in 2 .. n - 1 : x # y /\ y # x
      BY <1>1
    <3>2. \A v \in Pages : U[v].user => \/ v = a /\ U[v].frame \in 2 .. n - 1
                                        \/ v # a /\ U[v].frame \in n .. o - 1
      BY <1>4, <1>10, <1>11
    <3>3. ASSUME NEW v \in Pages, NEW w \in Pages, U[v].user, U[w].user, v # w, v # a, w # a
          PROVE  U[v].frame # U[w].frame
      <4>1. \A x \in Pages : U[x].user /\ x # a =>
               \/ x = Cell /\ U[x].frame = n
               \/ x = Top /\ U[x].frame = n + 1
               \/ \E j \in 1 .. Len(M) : M[j].virt = x /\ U[x].frame = n + 2 + j - 1
        <5> TAKE x \in Pages
        <5> HAVE U[x].user /\ x # a
        <5>1. U[Cell].frame = n /\ U[Top].frame = n + 1
          BY <1>5 DEF ChildTable
        <5>2. CASE x \in StackPages
          BY <5>1, <5>2 DEF StackPages
        <5>3. CASE x \notin StackPages
          <6>1. PICK k \in 1 .. Len(M) : M[k].virt = x
            BY <1>9, <5>3
          <6>2. PICK j \in 1 .. Len(M) : M[j].virt = M[k].virt /\ U[M[k].virt] = Entry(n + 2 + j - 1, TRUE, TRUE)
            BY DEF ChildTable
          <6>3. M[j].virt = x /\ U[x].frame = n + 2 + j - 1
            BY <1>5, <6>1, <6>2
          <6> QED BY <6>3
        <5> QED BY <5>2, <5>3
      <4>2. /\ n # n + 1 /\ \A j \in 1 .. Len(M) : n + 2 + j - 1 # n /\ n + 2 + j - 1 # n + 1
            /\ \A i, j \in 1 .. Len(M) : n + 2 + i - 1 = n + 2 + j - 1 => i = j
        BY <1>1
      <4>3. \/ v = Cell /\ U[v].frame = n
            \/ v = Top /\ U[v].frame = n + 1
            \/ \E j \in 1 .. Len(M) : M[j].virt = v /\ U[v].frame = n + 2 + j - 1
        BY <3>3, <4>1
      <4>4. \/ w = Cell /\ U[w].frame = n
            \/ w = Top /\ U[w].frame = n + 1
            \/ \E j \in 1 .. Len(M) : M[j].virt = w /\ U[w].frame = n + 2 + j - 1
        BY <3>3, <4>1
      <4> QED BY <3>3, <4>2, <4>3, <4>4
    <3> QED BY <3>1, <3>2, <3>3
  <2> QED BY <1>3, <2>1, <2>2, <2>3, <2>4, <2>5, <2>6, <2>7 DEF UserPart
<1>14. KernelPart(U, o)
  <2> SUFFICES ASSUME NEW f \in {KernelHeap} \union (o .. MaxFrames) PROVE U[f] = Entry(f, TRUE, FALSE)
    BY DEF KernelPart
  <2>1. /\ f \in Frames /\ f \in {KernelHeap} \union (n .. MaxFrames)
        /\ f \notin {Code, Fixed} \union (2 .. n - 1)
    BY <1>1, FrameBound DEF Frames, KernelHeap, Code, Fixed
  <2>2. f \in Pages /\ f \notin StackPages
    BY <2>1, Numbers DEF StackPages
  <2>3. U[f] = T[f]
    BY <1>2, <1>8, <2>1, <2>2
  <2> QED BY <2>1, <2>3 DEF KernelPart
<1>15. Fresh(U, T, a, n)
  <2>1. \A x \in n .. o - 1 : x >= n
    BY <1>1
  <2> QED BY <1>4, <1>10, <2>1 DEF Fresh
<1> QED BY <1>12, <1>13, <1>14, <1>15

-----------------------------------------------------------------------------
(* Every step keeps the invariant.                                           *)

\* Frames that were handed out stay so.
LEMMA Later ==
    ASSUME NEW T, NEW M, NEW a, NEW n \in Nat, NEW o \in Nat, n <= o
    PROVE  /\ KernelPart(T, n) => KernelPart(T, o)
           /\ UserPart(T, M, a, n) => UserPart(T, M, a, o)
<1>1. \A x : (x \in 2 .. n - 1 => x \in 2 .. o - 1) /\ (x \in o .. MaxFrames => x \in n .. MaxFrames)
  BY FrameBound
<1>2. KernelPart(T, n) => KernelPart(T, o)
  BY <1>1 DEF KernelPart
<1>3. UserPart(T, M, a, n) => UserPart(T, M, a, o)
  BY <1>1 DEF UserPart
<1> QED BY <1>2, <1>3

\* What a machine that has not failed leaves.
LEMMA Applied ==
    ASSUME NEW y, IsMachine(y), Apply(y)
    PROVE  tables' = y.tabs /\ mem' = y.mem /\ fault' = "no"
           /\ tables' \in [Procs -> TableSet] /\ mem' \in [Frames -> Values]
BY DEF IsMachine, Apply

\* Only process c changes: it is enough to look at it.
Others(c) ==
    /\ \A q \in Procs : q # c => /\ status'[q] = status[q] /\ tables'[q] = tables[q]
                                 /\ maps'[q] = maps[q] /\ arguments'[q] = arguments[q]
LEMMA OneChanged ==
    ASSUME SpaceInv, NEW c \in Procs, Others(c), SpaceTypes', next <= next',
           status'[c] # "none" => KernelPart(tables'[c], next'),
           status'[c] = "live" => UserPart(tables'[c], maps'[c], arguments'[c], next'),
           status'[c] = "live" => \A q \in Procs : q # c /\ status[q] = "live" =>
              Apart(tables'[c], arguments'[c], tables[q]) /\ Apart(tables[q], arguments[q], tables'[c])
    PROVE  SpaceInv'
<1>1. next \in Nat /\ next' \in Nat
  BY DEF SpaceInv, SpaceTypes
<1>2. ASSUME NEW q \in Procs, status'[q] # "none" PROVE KernelPart(tables'[q], next')
  <2>1. CASE q = c
    BY <1>2, <2>1
  <2>2. CASE q # c
    <3>1. status[q] # "none" /\ tables'[q] = tables[q]
      BY <1>2, <2>2 DEF Others
    <3>2. PICK T, n, o : T = tables[q] /\ n = next /\ o = next'
      OBVIOUS
    <3>3. KernelPart(T, n) /\ n <= o /\ n \in Nat /\ o \in Nat
      BY <1>1, <3>1, <3>2 DEF SpaceInv
    <3>4. KernelPart(T, o)
      BY <3>3, Later
    <3> QED BY <3>1, <3>2, <3>4
  <2> QED BY <2>1, <2>2
<1>3. ASSUME NEW q \in Procs, status'[q] = "live"
      PROVE  UserPart(tables'[q], maps'[q], arguments'[q], next')
  <2>1. CASE q = c
    BY <1>3, <2>1
  <2>2. CASE q # c
    <3>1. status[q] = "live" /\ tables'[q] = tables[q] /\ maps'[q] = maps[q] /\ arguments'[q] = arguments[q]
      BY <1>3, <2>2 DEF Others
    <3>2. PICK T, M, a, n, o : T = tables[q] /\ M = maps[q] /\ a = arguments[q] /\ n = next /\ o = next'
      OBVIOUS
    <3>3. UserPart(T, M, a, n) /\ n <= o /\ n \in Nat /\ o \in Nat
      BY <1>1, <3>1, <3>2 DEF SpaceInv
    <3>4. UserPart(T, M, a, o)
      BY <3>3, Later
    <3> QED BY <3>1, <3>2, <3>4
  <2> QED BY <2>1, <2>2
<1>4. ASSUME NEW p \in Procs, NEW q \in Procs, status'[p] = "live", status'[q] = "live", p # q
      PROVE  Apart(tables'[p], arguments'[p], tables'[q])
  <2>1. CASE p = c
    BY <1>4, <2>1 DEF Others
  <2>2. CASE q = c
    BY <1>4, <2>2 DEF Others
  <2>3. CASE p # c /\ q # c
    BY <1>4, <2>3 DEF Others, SpaceInv
  <2> QED BY <2>1, <2>2, <2>3
<1> QED BY <1>2, <1>3, <1>4 DEF SpaceInv

\* Nothing but the contents of frames, and which were handed out, changes.
LEMMA TablesKept ==
    ASSUME SpaceInv, SpaceTypes', next <= next', UNCHANGED <<status, tables, maps, arguments>>
    PROVE  SpaceInv'
<1>1. 1 \in Procs /\ Others(1)
  BY Numbers DEF Others
<1>2. PICK T, M, a, n, o : T = tables[1] /\ M = maps[1] /\ a = arguments[1] /\ n = next /\ o = next'
  OBVIOUS
<1>3. n <= o /\ n \in Nat /\ o \in Nat
  BY <1>2 DEF SpaceInv, SpaceTypes
<1>4. (KernelPart(T, n) => KernelPart(T, o)) /\ (UserPart(T, M, a, n) => UserPart(T, M, a, o))
  BY <1>3, Later
<1>5. status'[1] # "none" => KernelPart(tables'[1], next')
  BY <1>1, <1>2, <1>4 DEF SpaceInv
<1>6. status'[1] = "live" => UserPart(tables'[1], maps'[1], arguments'[1], next')
  BY <1>1, <1>2, <1>4 DEF SpaceInv
<1>7. status'[1] = "live" => \A q \in Procs : q # 1 /\ status[q] = "live" =>
              Apart(tables'[1], arguments'[1], tables[q]) /\ Apart(tables[q], arguments[q], tables'[1])
  BY <1>1 DEF SpaceInv
<1> QED BY <1>1, <1>5, <1>6, <1>7, OneChanged

\* Where nothing is followed any more, nothing else happens.
LEMMA StopsKeeps ==
    ASSUME SpaceInv, NEW why \in Reasons, Stops(why)
    PROVE  SpaceInv'
<1>1. SpaceTypes' /\ next <= next' /\ UNCHANGED <<status, tables, maps, arguments>>
  BY DEF SpaceInv, SpaceTypes, Stops
<1> QED BY <1>1, TablesKept

LEMMA LostKeeps ==
    ASSUME SpaceInv, NEW p \in Procs, Lost(p)
    PROVE  SpaceInv'
BY StopsKeeps DEF Lost, Reasons

LEMMA ForkKeeps ==
    ASSUME SpaceInv, NEW p \in Procs, fork(p)
    PROVE  SpaceInv'
<1>1. CASE Lost(p)
  BY <1>1, LostKeeps
<1>2. CASE ~ Lost(p)
  <2>1. PICK c \in Procs :
             /\ ended[p] /\ status[c] = "none"
             /\ next + Len(maps[p]) + 1 <= MaxFrames
             /\ Apply(Forked(p, c))
             /\ maps' = [maps EXCEPT ![c] = CopiedMap(p, next + 2)]
             /\ \E e \in BOOLEAN : ended' = [ended EXCEPT ![c] = e]
             /\ arguments' = [arguments EXCEPT ![c] = arguments[p]]
             /\ next' = next + Len(maps[p]) + 2
             /\ status' = [status EXCEPT ![c] = "live"]
             /\ UNCHANGED stores
    BY <1>2 DEF fork
  <2>2. status[p] = "live" /\ p # c
    BY <2>1 DEF fork, Runs
  <2>3. PICK y : y = Forked(p, c)
    OBVIOUS
  <2>4. /\ IsMachine(y) /\ \A q \in Procs : q # c => y.tabs[q] = tables[q]
        /\ ChildTable(y.tabs[c], tables[p], maps[p], next)
    BY <2>1, <2>2, <2>3, ForkedFacts
  <2>5. /\ tables' = y.tabs /\ mem' = y.mem /\ fault' = "no"
        /\ tables' \in [Procs -> TableSet] /\ mem' \in [Frames -> Values]
    <3>1. Apply(y) /\ IsMachine(y)
      BY <2>1, <2>3, <2>4
    <3> QED BY <3>1, Applied
  <2>6. PICK T, M, a, n, o, U, L : /\ T = tables[p] /\ M = maps[p] /\ a = arguments[p] /\ n = next
                                   /\ o = next' /\ U = y.tabs[c] /\ L = CopiedMap(p, next + 2)
    OBVIOUS
  <2>7. /\ T \in TableSet /\ M \in Seq(MapEntry) /\ n \in Nat /\ n >= 4 /\ U \in TableSet
        /\ UserPart(T, M, a, n) /\ KernelPart(T, n) /\ ChildTable(U, T, M, n)
    <3>1. T \in TableSet /\ M \in Seq(MapEntry) /\ n \in Nat /\ n >= 4
      BY <2>6 DEF SpaceInv, SpaceTypes
    <3>2. UserPart(T, M, a, n) /\ KernelPart(T, n)
      BY <2>2, <2>6 DEF SpaceInv
    <3> QED BY <2>4, <2>6, <3>1, <3>2 DEF IsMachine
  <2>8. o = n + Len(M) + 2 /\ o - 1 <= MaxFrames /\ Len(M) \in Nat /\ n <= o /\ o \in 4 .. MaxFrames + 1
    BY <2>1, <2>6, <2>7, FrameBound
  <2>9. ChildMap(L, M, n)
    BY <2>6, <2>7 DEF CopiedMap, ChildMap
  <2>10. L \in Seq(MapEntry) /\ UserPart(U, L, a, o) /\ KernelPart(U, o) /\ Fresh(U, T, a, n)
    <3>1. o = n + Len(M) + 2 /\ o - 1 <= MaxFrames
      BY <2>8
    <3> QED BY <2>7, <2>9, <3>1, ChildPart
  <2>11. /\ status'[c] = "live" /\ tables'[c] = U /\ maps'[c] = L /\ arguments'[c] = a /\ next' = o
         /\ Others(c)
    <3>1. /\ DOMAIN status = Procs /\ DOMAIN maps = Procs /\ DOMAIN arguments = Procs
      BY DEF SpaceInv, SpaceTypes
    <3>2. status'[c] = "live" /\ maps'[c] = L /\ arguments'[c] = a
      BY <2>1, <2>6, <3>1
    <3>3. \A q \in Procs : q # c => status'[q] = status[q] /\ maps'[q] = maps[q] /\ arguments'[q] = arguments[q]
      BY <2>1, <3>1
    <3>4. \A q \in Procs : q # c => tables'[q] = tables[q]
      BY <2>4, <2>5
    <3> QED BY <2>5, <2>6, <3>2, <3>3, <3>4 DEF Others
  <2>12. SpaceTypes'
    <3>1. maps' \in [Procs -> Seq(MapEntry)]
      BY <2>1, <2>6, <2>10 DEF SpaceInv, SpaceTypes
    <3>2. status' \in [Procs -> {"none", "kernel", "live", "zombie"}] /\ arguments' \in [Procs -> 0 .. MaxFrames]
      BY <2>1 DEF SpaceInv, SpaceTypes
    <3>3. ended' \in [Procs -> BOOLEAN]
      BY <2>1 DEF SpaceInv, SpaceTypes
    <3>4. next' \in 4 .. MaxFrames + 1 /\ stores' \in 0 .. MaxStores
      BY <2>1, <2>6, <2>8 DEF SpaceInv, SpaceTypes
    <3> QED BY <2>5, <3>1, <3>2, <3>3, <3>4 DEF SpaceTypes
  <2>13. ASSUME NEW q \in Procs, q # c, status[q] = "live"
         PROVE  Apart(U, a, tables[q]) /\ Apart(tables[q], arguments[q], U)
    <3>1. PICK Q, b : Q = tables[q] /\ b = arguments[q]
      OBVIOUS
    <3>2. Q \in TableSet /\ \A w \in Pages : Q[w].user => Q[w].frame \in 2 .. n - 1
      BY <2>6, <2>13, <3>1 DEF SpaceInv, SpaceTypes, UserPart
    <3>3. \A v \in Pages : U[v].user /\ v # a => U[v].frame >= n
      BY <2>10 DEF Fresh
    <3>4. ASSUME NEW v \in Pages, NEW w \in Pages, U[v].user, v # a, Q[w].user
          PROVE  U[v].frame # Q[w].frame
      <4>1. U[v].frame >= n /\ Q[w].frame \in 2 .. n - 1
        BY <3>2, <3>3, <3>4
      <4> QED BY <2>7, <4>1
    <3>5. ASSUME NEW v \in Pages, NEW w \in Pages, Q[v].user, v # b, U[w].user
          PROVE  Q[v].frame # U[w].frame
      <4>1. CASE w # a
        BY <3>4, <3>5, <4>1
      <4>2. CASE w = a
        <5>1. U[a] = T[a] /\ T[a].user
          BY <2>10, <3>5, <4>2 DEF Fresh
        <5>2. CASE q = p
          <6>1. Q = T /\ b = a
            BY <2>6, <3>1, <5>2
          <6> QED BY <2>7, <3>5, <4>2, <5>1, <6>1 DEF UserPart
        <5>3. CASE q # p
          <6>1. Apart(Q, b, T)
            BY <2>2, <2>6, <2>13, <3>1, <5>3 DEF SpaceInv
          <6> QED BY <3>5, <4>2, <5>1, <6>1 DEF Apart
        <5> QED BY <5>2, <5>3
      <4> QED BY <4>1, <4>2
    <3> QED BY <3>1, <3>4, <3>5 DEF Apart
  <2> QED
    <3>1. next <= next'
      BY <2>6, <2>8
    <3>2. KernelPart(tables'[c], next') /\ UserPart(tables'[c], maps'[c], arguments'[c], next')
      BY <2>10, <2>11
    <3>3. \A q \in Procs : q # c /\ status[q] = "live" =>
              Apart(tables'[c], arguments'[c], tables[q]) /\ Apart(tables[q], arguments[q], tables'[c])
      BY <2>11, <2>13
    <3> QED BY <2>11, <2>12, <3>1, <3>2, <3>3, OneChanged
<1> QED BY <1>1, <1>2

\* The table U of a program that execve loaded in the frames from n on.
ProgramTable(U, n) ==
    \A v \in Pages : U[v] = IF v = Cell THEN Entry(n + 1, TRUE, TRUE)
                            ELSE IF v = Top THEN Entry(n + 2, TRUE, TRUE)
                            ELSE IF v = n + 3 THEN Entry(n + 3, TRUE, TRUE)
                            ELSE IF v = Code THEN Entry(n, TRUE, TRUE)
                            ELSE IF v \in Frames THEN Entry(v, TRUE, FALSE) ELSE Absent

\* What execve leaves in the frames: R before it, S after it.
ExecutedMem(S, R, n) == S[n] = Program /\ \A g \in 1 .. n - 1 : S[g] = R[g]

LEMMA ExecutedFacts ==
    ASSUME SpaceInv, NEW p \in Procs, status[p] # "none", next + 3 <= MaxFrames, NEW y, y = Executed(p)
    PROVE  /\ IsMachine(y) /\ \A q \in Procs : q # p => y.tabs[q] = tables[q]
           /\ ProgramTable(y.tabs[p], next) /\ ExecutedMem(y.mem, mem, next)
<1>1. /\ tables \in [Procs -> TableSet] /\ mem \in [Frames -> Values] /\ next \in 4 .. MaxFrames + 1
      /\ KernelPart(tables[p], next)
  BY DEF SpaceInv, SpaceTypes
<1>2. PICK n : n = next
  OBVIOUS
<1>3. /\ n \in Nat /\ n \in Frames /\ n + 1 \in Frames /\ (n + 1) + 1 = n + 2 /\ n + 2 \in Frames /\ n + 3 \in Frames
      /\ n + 3 # KernelHeap /\ KernelHeap \in Frames
      /\ n \in {KernelHeap} \union (n .. MaxFrames) /\ n + 3 \in {KernelHeap} \union (n .. MaxFrames)
  BY <1>1, <1>2, FrameBound DEF Frames, KernelHeap
<1>4. \A g : Entry(g, TRUE, FALSE).frame = g /\ Entry(g, TRUE, FALSE).write
  BY DEF Entry
<1>5. PICK T : T = tables[p]
  OBVIOUS
<1>6. T \in TableSet /\ Writable(T, n) /\ Writable(T, n + 3)
  <2>1. T[n] = Entry(n, TRUE, FALSE) /\ T[n + 3] = Entry(n + 3, TRUE, FALSE)
    BY <1>1, <1>2, <1>3, <1>5 DEF KernelPart
  <2>2. n # 0 /\ n + 3 # 0
    BY <1>1, <1>2, FrameBound
  <2> QED BY <1>1, <1>4, <1>5, <2>1, <2>2 DEF Writable
<1>7. PICK m, loaded : m = Machine(tables, mem) /\ loaded = KernelWrite(m, p, n, Program)
  OBVIOUS
<1>8. IsMachine(m) /\ m.tabs = tables /\ m.mem = mem
  BY <1>1, <1>7 DEF IsMachine, Machine
<1>9. IsMachine(loaded) /\ loaded.tabs = tables /\ Written(loaded, m, T[n].frame, Program)
  <2>1. Writable(m.tabs[p], n) /\ Program \in Values /\ IsMachine(m)
    BY <1>5, <1>6, <1>8 DEF Values
  <2>2. IsMachine(loaded) /\ loaded.tabs = m.tabs /\ Written(loaded, m, m.tabs[p][n].frame, Program)
    BY <1>7, <2>1, KernelWriteFacts
  <2> QED BY <1>5, <1>8, <2>2
<1>10. PICK T1, stored : T1 = mmu_map(T, KernelHeap, TRUE) /\ stored = StoreArguments(loaded, p)
  OBVIOUS
<1>11. T1 \in TableSet /\ T1 = [T EXCEPT ![KernelHeap] = Entry(KernelHeap, TRUE, TRUE)]
  BY <1>3, <1>6, <1>10, OpenFacts
<1>12. /\ IsMachine(stored) /\ stored.tabs[p] = T1 /\ stored.mem = loaded.mem
       /\ \A q \in Procs : q # p => stored.tabs[q] = tables[q]
  <2>1. TableIs(stored, loaded, p, T1)
    BY <1>5, <1>9, <1>10 DEF StoreArguments, TableIs
  <2>2. IsMachine(loaded) /\ T1 \in TableSet
    BY <1>9, <1>11
  <2>3. /\ IsMachine(stored) /\ stored.tabs[p] = T1 /\ stored.mem = loaded.mem /\ \A q \in Procs : q # p => stored.tabs[q] = loaded.tabs[q]
    BY <2>1, <2>2, SetTable
  <2> QED BY <1>9, <2>3
<1>13. PICK f, written : f = n + 3 /\ written = KernelWrite(stored, p, f, 1)
  OBVIOUS
<1>14. IsMachine(written) /\ Written(written, stored, T[f].frame, 1) /\ \A q \in Procs : q # p => written.tabs[q] = tables[q]
  <2>1. T1[f] = T[f]
    BY <1>3, <1>6, <1>11, <1>13, Numbers DEF TableSet
  <2>2. Writable(stored.tabs[p], f) /\ 1 \in Values /\ IsMachine(stored)
    BY <1>6, <1>12, <1>13, <2>1 DEF Writable, Values
  <2>3. IsMachine(written) /\ written.tabs = stored.tabs /\ Written(written, stored, stored.tabs[p][f].frame, 1)
    <3>1. written = KernelWrite(stored, p, f, 1)
      BY <1>13
    <3> QED BY <2>2, <3>1, KernelWriteFacts
  <2> QED BY <1>12, <2>1, <2>3
<1>15. PICK K, C, t : t = TRUE /\ K = KernelTable /\ C = mmu_map_table(K, Code, n, 1, t, t)
  OBVIOUS
<1>16. K \in TableSet /\ \A v \in Pages : K[v] = IF v \in Frames THEN Entry(v, TRUE, FALSE) ELSE Absent
  BY <1>15, Numbers DEF KernelTable, TableSet, EntrySet, Entry, Absent
<1>17. C \in TableSet /\ C = [K EXCEPT ![Code] = Entry(n, t, t)]
  <2>1. Entry(n, t, t) \in EntrySet
    BY <1>3, <1>15, Numbers DEF Entry, EntrySet
  <2>2. K \in TableSet /\ Code \in Pages /\ n \in Frames
    BY <1>3, <1>16, Numbers
  <2>3. C = mmu_map_table(K, Code, n, 1, t, t)
    BY <1>15
  <2> QED BY <2>1, <2>2, <2>3, MapFacts
<1>18. PICK D : D = mmu_map(C, f, TRUE)
  OBVIOUS
<1>19. D \in TableSet /\ D = [C EXCEPT ![f] = Entry(f, TRUE, TRUE)]
  <2>1. C \in TableSet /\ f \in Frames
    BY <1>3, <1>13, <1>17
  <2> QED BY <1>18, <2>1, OpenFacts
<1>20. PICK arged : arged = [written EXCEPT !.tabs[p] = D]
  OBVIOUS
<1>21. /\ IsMachine(arged) /\ arged.tabs[p] = D /\ arged.mem = written.mem /\ \A q \in Procs : q # p => arged.tabs[q] = tables[q]
  <2>1. TableIs(arged, written, p, D)
    BY <1>20 DEF TableIs
  <2>2. IsMachine(written) /\ D \in TableSet
    BY <1>14, <1>19
  <2>3. /\ IsMachine(arged) /\ arged.tabs[p] = D /\ arged.mem = written.mem /\ \A q \in Procs : q # p => arged.tabs[q] = written.tabs[q]
    BY <2>1, <2>2, SetTable
  <2> QED BY <1>14, <2>3
<1>22. PICK g, U, new : g = n + 1 /\ U = mmu_map_table(D, Cell, g, 2, TRUE, t) /\ new = proc_create_stack(arged, p, g, t)
  OBVIOUS
<1>23. U \in TableSet /\ U = [x \in Pages |-> IF x = Cell THEN Entry(g, TRUE, t)
                                 ELSE IF x = Top THEN Entry(g + 1, TRUE, t) ELSE D[x]]
  <2>1. D \in TableSet /\ g \in Frames /\ g + 1 \in Frames /\ t \in BOOLEAN
    BY <1>3, <1>15, <1>19, <1>22
  <2> QED BY <1>22, <2>1, MapStackFacts
<1>24. /\ IsMachine(new) /\ new.tabs[p] = U /\ new.mem = written.mem /\ \A q \in Procs : q # p => new.tabs[q] = tables[q]
  <2>1. TableIs(new, arged, p, U)
    BY <1>21, <1>22 DEF proc_create_stack, TableIs
  <2>2. IsMachine(arged) /\ U \in TableSet
    BY <1>21, <1>23
  <2>3. /\ IsMachine(new) /\ new.tabs[p] = U /\ new.mem = arged.mem /\ \A q \in Procs : q # p => new.tabs[q] = arged.tabs[q]
    BY <2>1, <2>2, SetTable
  <2> QED BY <1>21, <2>3
<1>25. PICK h : h = new.tabs[p][Top].frame
  OBVIOUS
<1>26. y = [new EXCEPT !.mem[h] = 1]
  <2>1. arged = CopyArguments(stored, p, LoadedTable(n), n + 3)
    BY <1>13, <1>15, <1>18, <1>20 DEF CopyArguments, LoadedTable, mmu_clone_table
  <2>2. new = proc_create_stack(arged, p, n + 1, TRUE)
    BY <1>15, <1>22
  <2>3. y = arch_setup_user_stack(new, p)
    BY <1>2, <1>7, <1>10, <2>1, <2>2 DEF Executed, elf_exec_common, elf_read_phdr
  <2> QED BY <1>25, <2>3 DEF arch_setup_user_stack
<1>27. IsMachine(y) /\ y.tabs = new.tabs /\ Written(y, new, h, 1)
  <2>1. 1 \in Values /\ IsMachine(new)
    BY <1>24 DEF Values
  <2> QED BY <1>26, <2>1, SetFrame
<1>28. ProgramTable(U, n)
  <2>1. \A v \in Pages : C[v] = IF v = Code THEN Entry(n, TRUE, TRUE) ELSE K[v]
    BY <1>15, <1>16, <1>17 DEF TableSet
  <2>2. \A v \in Pages : D[v] = IF v = f THEN Entry(f, TRUE, TRUE) ELSE C[v]
    BY <1>17, <1>19 DEF TableSet
  <2>3. \A v \in Pages : U[v] = IF v = Cell THEN Entry(n + 1, TRUE, TRUE)
                                ELSE IF v = Top THEN Entry(n + 2, TRUE, TRUE) ELSE D[v]
    BY <1>3, <1>15, <1>22, <1>23
  <2> QED BY <1>13, <1>16, <2>1, <2>2, <2>3 DEF ProgramTable
<1>29. ExecutedMem(y.mem, mem, n)
  <2>1. T[n].frame = n /\ T[f].frame = n + 3
    <3>1. T[n] = Entry(n, TRUE, FALSE) /\ T[f] = Entry(n + 3, TRUE, FALSE)
      BY <1>1, <1>2, <1>3, <1>5, <1>13 DEF KernelPart
    <3> QED BY <1>4, <3>1
  <2>2. h = n + 2
    <3>1. U[Top] = Entry(n + 2, TRUE, TRUE)
      BY <1>28, Numbers DEF ProgramTable
    <3>2. Entry(n + 2, TRUE, TRUE).frame = n + 2
      BY DEF Entry
    <3> QED BY <1>24, <1>25, <3>1, <3>2
  <2>3. ASSUME NEW e \in Frames, e # n + 2, e # n + 3 PROVE y.mem[e] = loaded.mem[e]
    BY <1>12, <1>14, <1>24, <1>27, <2>1, <2>2, <2>3 DEF Written
  <2>4. y.mem[n] = Program
    <3>1. n # n + 2 /\ n # n + 3
      BY <1>3
    <3>2. y.mem[n] = loaded.mem[n]
      BY <1>3, <2>3, <3>1
    <3> QED BY <1>3, <1>9, <2>1, <3>2 DEF Written
  <2>5. ASSUME NEW e \in 1 .. n - 1 PROVE y.mem[e] = mem[e]
    <3>1. e \in Frames /\ e # n /\ e # n + 2 /\ e # n + 3
      <4>1. n \in 4 .. MaxFrames + 1
        BY <1>1, <1>2
      <4> QED BY <4>1, FrameBound DEF Frames
    <3>2. loaded.mem[e] = mem[e]
      BY <1>8, <1>9, <2>1, <3>1 DEF Written
    <3> QED BY <2>3, <3>1, <3>2
  <2> QED BY <2>4, <2>5 DEF ExecutedMem
<1> QED BY <1>2, <1>24, <1>27, <1>28, <1>29

LEMMA ProgramPart ==
    ASSUME NEW U, NEW n \in Nat, n >= 4, n + 3 <= MaxFrames, ProgramTable(U, n),
           NEW M, M = << [virt |-> Code, phys |-> n] >>
    PROVE  /\ UserPart(U, M, n + 3, n + 4) /\ KernelPart(U, n + 4)
           /\ \A v \in Pages : U[v].user => U[v].frame >= n
<1>1. /\ n + 3 \in Frames /\ n + 3 \in Pages /\ n + 3 # Code /\ n + 3 # Cell /\ n + 3 # Top
      /\ n + 3 \in 2 .. (n + 4) - 1 /\ n + 3 \in Nat
  <2>1. n + 3 \in Frames
    BY FrameBound DEF Frames
  <2> QED BY <2>1, Numbers
<1>2. \A g : /\ Entry(g, TRUE, TRUE).frame = g /\ Entry(g, TRUE, TRUE).user /\ Entry(g, TRUE, TRUE).write
             /\ Entry(g, TRUE, FALSE).frame = g /\ ~ Entry(g, TRUE, FALSE).user
  BY DEF Entry
<1>3. ~ Absent.user
  BY DEF Absent, Entry
<1>4. /\ U[Cell] = Entry(n + 1, TRUE, TRUE) /\ U[Top] = Entry(n + 2, TRUE, TRUE)
      /\ U[n + 3] = Entry(n + 3, TRUE, TRUE) /\ U[Code] = Entry(n, TRUE, TRUE)
  BY <1>1, Numbers DEF ProgramTable
<1>5. \A v \in Pages : v \notin {Cell, Top, n + 3, Code} =>
          U[v] = IF v \in Frames THEN Entry(v, TRUE, FALSE) ELSE Absent
  BY DEF ProgramTable
<1>6. \A v \in Pages : U[v].user <=> v \in {Cell, Top, n + 3, Code}
  <2> TAKE v \in Pages
  <2>1. CASE v \in {Cell, Top, n + 3, Code}
    <3>1. PICK g : U[v] = Entry(g, TRUE, TRUE)
      BY <1>4, <2>1
    <3> QED BY <1>2, <2>1, <3>1
  <2>2. CASE v \notin {Cell, Top, n + 3, Code}
    BY <1>2, <1>3, <1>5, <2>2
  <2> QED BY <2>1, <2>2
<1>7. U[Cell].frame = n + 1 /\ U[Top].frame = n + 2 /\ U[n + 3].frame = n + 3 /\ U[Code].frame = n
      /\ U[Cell].write /\ U[Top].write
  BY <1>2, <1>4
<1>8. DOMAIN M = {1} /\ Len(M) = 1 /\ M[1].virt = Code /\ M[1].phys = n
  OBVIOUS
<1>9. UserPart(U, M, n + 3, n + 4)
  <2>1. \A f \in Frames : U[f].frame # 0
    <3> TAKE f \in Frames
    <3>1. f \in Pages /\ f # 0 /\ f # Cell /\ f # Top /\ f # Code
      BY Numbers
    <3>2. CASE f = n + 3
      BY <1>7, <3>2
    <3>3. CASE f # n + 3
      <4>1. U[f] = Entry(f, TRUE, FALSE)
        BY <1>5, <3>1, <3>3
      <4> QED BY <1>2, <3>1, <4>1
    <3> QED BY <3>2, <3>3
  <2>2. \A v \in Pages : U[v].user => U[v].frame \in 2 .. (n + 4) - 1
    BY <1>6, <1>7
  <2>3. \A v, w \in Pages : U[v].user /\ U[w].user /\ v # w => U[v].frame # U[w].frame
    BY <1>6, <1>7
  <2>4. \A k \in DOMAIN M : U[M[k].virt].frame = M[k].phys /\ M[k].virt \in {Code, Fixed} /\ M[k].virt # n + 3
    BY <1>1, <1>7, <1>8
  <2>5. \A v \in Pages : U[v].user <=> (v = n + 3 \/ v \in StackPages \/ \E k \in DOMAIN M : M[k].virt = v)
    BY <1>6, <1>8 DEF StackPages
  <2> QED BY <1>1, <1>7, <2>1, <2>2, <2>3, <2>4, <2>5 DEF UserPart
<1>10. KernelPart(U, n + 4)
  <2> SUFFICES ASSUME NEW f \in {KernelHeap} \union (n + 4 .. MaxFrames) PROVE U[f] = Entry(f, TRUE, FALSE)
    BY DEF KernelPart
  <2>1. f \in Frames /\ f # n + 3
    BY FrameBound DEF Frames, KernelHeap
  <2>2. f \in Pages /\ f # Cell /\ f # Top /\ f # Code
    BY <2>1, Numbers
  <2> QED BY <1>5, <2>1, <2>2
<1>11. \A v \in Pages : U[v].user => U[v].frame >= n
  BY <1>6, <1>7
<1> QED BY <1>9, <1>10, <1>11

LEMMA ExecKeeps ==
    ASSUME SpaceInv, NEW p \in Procs, execve(p)
    PROVE  /\ SpaceInv' /\ Others(p) /\ next <= next'
           /\ \A v \in Pages : tables'[p][v].user => tables'[p][v].frame >= next
<1>1. status[p] # "none" /\ next + 3 <= MaxFrames
  BY DEF execve
<1>2. PICK y : y = Executed(p)
  OBVIOUS
<1>3. /\ IsMachine(y) /\ \A q \in Procs : q # p => y.tabs[q] = tables[q]
      /\ ProgramTable(y.tabs[p], next)
  BY <1>1, <1>2, ExecutedFacts
<1>4. /\ tables' = y.tabs /\ mem' = y.mem /\ fault' = "no"
      /\ tables' \in [Procs -> TableSet] /\ mem' \in [Frames -> Values]
  <2>1. Apply(y) /\ IsMachine(y)
    BY <1>2, <1>3 DEF execve
  <2> QED BY <2>1, Applied
<1>5. PICK U, M, n : U = y.tabs[p] /\ M = << [virt |-> Code, phys |-> next] >> /\ n = next
  OBVIOUS
<1>6. n \in Nat /\ n >= 4 /\ n + 3 <= MaxFrames /\ n + 3 \in 0 .. MaxFrames /\ n \in Frames
  BY <1>1, <1>5, FrameBound DEF SpaceInv, SpaceTypes, Frames
<1>7. /\ UserPart(U, M, n + 3, n + 4) /\ KernelPart(U, n + 4)
      /\ \A v \in Pages : U[v].user => U[v].frame >= n
  <2>1. ProgramTable(U, n) /\ M = << [virt |-> Code, phys |-> n] >>
    BY <1>3, <1>5
  <2> QED BY <1>6, <2>1, ProgramPart
<1>8. /\ status'[p] = "live" /\ tables'[p] = U /\ maps'[p] = M /\ arguments'[p] = n + 3 /\ next' = n + 4
      /\ Others(p)
  <2>1. /\ DOMAIN status = Procs /\ DOMAIN maps = Procs /\ DOMAIN arguments = Procs
    BY DEF SpaceInv, SpaceTypes
  <2>2. status'[p] = "live" /\ maps'[p] = M /\ arguments'[p] = n + 3 /\ next' = n + 4
    BY <1>5, <2>1 DEF execve
  <2>3. \A q \in Procs : q # p => status'[q] = status[q] /\ maps'[q] = maps[q] /\ arguments'[q] = arguments[q]
    BY <2>1 DEF execve
  <2>4. \A q \in Procs : q # p => tables'[q] = tables[q]
    BY <1>3, <1>4
  <2> QED BY <1>4, <1>5, <2>2, <2>3, <2>4 DEF Others
<1>9. SpaceTypes'
  <2>1. M \in Seq(MapEntry)
    BY <1>5, <1>6, Numbers DEF MapEntry
  <2>2. maps' \in [Procs -> Seq(MapEntry)]
    BY <1>5, <2>1 DEF SpaceInv, SpaceTypes, execve
  <2>3. status' \in [Procs -> {"none", "kernel", "live", "zombie"}]
    BY DEF SpaceInv, SpaceTypes, execve
  <2>4. arguments' \in [Procs -> 0 .. MaxFrames]
    BY <1>5, <1>6 DEF SpaceInv, SpaceTypes, execve
  <2>5. ended' \in [Procs -> BOOLEAN] /\ stores' \in 0 .. MaxStores
    BY DEF SpaceInv, SpaceTypes, execve
  <2>6. next' \in 4 .. MaxFrames + 1
    BY <1>6, <1>8, FrameBound
  <2> QED BY <1>4, <2>2, <2>3, <2>4, <2>5, <2>6 DEF SpaceTypes
<1>10. ASSUME NEW q \in Procs, q # p, status[q] = "live"
       PROVE  Apart(U, n + 3, tables[q]) /\ Apart(tables[q], arguments[q], U)
  <2>1. PICK Q : Q = tables[q]
    OBVIOUS
  <2>2. Q \in TableSet /\ \A w \in Pages : Q[w].user => Q[w].frame \in 2 .. n - 1
    BY <1>5, <1>10, <2>1 DEF SpaceInv, SpaceTypes, UserPart
  <2>3. ASSUME NEW v \in Pages, NEW w \in Pages, U[v].user, Q[w].user
        PROVE  U[v].frame # Q[w].frame
    <3>1. U[v].frame >= n /\ Q[w].frame \in 2 .. n - 1
      BY <1>7, <2>2, <2>3
    <3> QED BY <1>6, <3>1
  <2> QED BY <2>1, <2>3 DEF Apart
<1> QED
  <2>1. next <= next'
    BY <1>5, <1>6, <1>8
  <2>2. KernelPart(tables'[p], next') /\ UserPart(tables'[p], maps'[p], arguments'[p], next')
    BY <1>7, <1>8
  <2>3. \A q \in Procs : q # p /\ status[q] = "live" =>
              Apart(tables'[p], arguments'[p], tables[q]) /\ Apart(tables[q], arguments[q], tables'[p])
    BY <1>8, <1>10
  <2>4. \A v \in Pages : tables'[p][v].user => tables'[p][v].frame >= next
    BY <1>5, <1>7, <1>8
  <2>5. SpaceInv'
    BY <1>8, <1>9, <2>1, <2>2, <2>3, OneChanged
  <2> QED BY <1>8, <2>1, <2>4, <2>5

\* A call that changes frames only, and perhaps hands one out.
LEMMA CallKeeps ==
    ASSUME SpaceInv, NEW y, IsMachine(y), y.tabs = tables, Apply(y), next' \in 4 .. MaxFrames + 1, next <= next',
           UNCHANGED <<status, maps, ended, arguments, stores>>
    PROVE  SpaceInv' /\ tables' = tables /\ next <= next'
<1>1. /\ tables' = y.tabs /\ mem' = y.mem /\ fault' = "no"
      /\ tables' \in [Procs -> TableSet] /\ mem' \in [Frames -> Values]
  BY Applied
<1>2. SpaceTypes' /\ UNCHANGED <<status, tables, maps, arguments>>
  BY <1>1 DEF SpaceInv, SpaceTypes
<1> QED BY <1>2, TablesKept

LEMMA ThisMachine ==
    ASSUME SpaceInv
    PROVE  IsMachine(Machine(tables, mem)) /\ Machine(tables, mem).tabs = tables
BY DEF SpaceInv, SpaceTypes, IsMachine, Machine

LEMMA ExecFailsKeeps ==
    ASSUME SpaceInv, NEW p \in Procs, ExecFails(p)
    PROVE  SpaceInv' /\ tables' = tables /\ next <= next'
<1>1. PICK m : m = Machine(tables, mem)
  OBVIOUS
<1>2. IsMachine(m) /\ m.tabs = tables /\ 1 \in Values /\ Program \in Values
  BY <1>1, ThisMachine DEF Values
<1>3. next \in 4 .. MaxFrames + 1 /\ UNCHANGED <<status, maps, ended, arguments, stores>>
  BY DEF SpaceInv, SpaceTypes, ExecFails
<1>4. CASE Apply(Return(m, p, 1)) /\ UNCHANGED next
  <2>1. PICK y : y = Return(m, p, 1)
    OBVIOUS
  <2>2. IsMachine(y) /\ y.tabs = m.tabs
    BY <1>2, <2>1, ReturnFacts
  <2>3. IsMachine(y) /\ y.tabs = tables /\ Apply(y)
    BY <1>2, <1>4, <2>1, <2>2
  <2>4. next' \in 4 .. MaxFrames + 1 /\ next <= next'
    BY <1>3, <1>4
  <2> QED BY <1>3, <2>3, <2>4, CallKeeps
<1>5. CASE next <= MaxFrames /\ Apply(Return(elf_exec_common(m, p, next), p, 1)) /\ next' = next + 1
  <2>1. PICK k, y : k = KernelWrite(m, p, next, Program) /\ y = Return(k, p, 1)
    OBVIOUS
  <2>2. Writable(m.tabs[p], next)
    <3>1. KernelPart(tables[p], next)
      BY DEF SpaceInv, ExecFails, Runs
    <3>2. next \in {KernelHeap} \union (next .. MaxFrames) /\ next # 0
      BY <1>3, <1>5, FrameBound
    <3>3. tables[p][next] = Entry(next, TRUE, FALSE)
      BY <3>1, <3>2 DEF KernelPart
    <3> QED BY <1>2, <3>2, <3>3 DEF Writable, Entry
  <2>3. IsMachine(k) /\ k.tabs = m.tabs
    BY <1>2, <2>1, <2>2, KernelWriteFacts
  <2>4. IsMachine(y) /\ y.tabs = k.tabs
    BY <1>2, <2>1, <2>3, ReturnFacts
  <2>5. IsMachine(y) /\ y.tabs = tables /\ Apply(y)
    BY <1>2, <1>5, <2>1, <2>3, <2>4 DEF elf_exec_common, elf_read_phdr
  <2>6. next' \in 4 .. MaxFrames + 1 /\ next <= next'
    BY <1>3, <1>5, FrameBound
  <2> QED BY <1>3, <2>5, <2>6, CallKeeps
<1> QED BY <1>1, <1>4, <1>5 DEF ExecFails

LEMMA MunmapKeeps ==
    ASSUME SpaceInv, NEW p \in Procs, munmap(p)
    PROVE  SpaceInv' /\ tables' = tables /\ next <= next'
<1>1. PICK m, y : m = Machine(tables, mem) /\ y = Return(m, p, 0)
  OBVIOUS
<1>2. IsMachine(m) /\ m.tabs = tables /\ 0 \in Values
  BY <1>1, ThisMachine DEF Values
<1>3. IsMachine(y) /\ y.tabs = m.tabs
  BY <1>1, <1>2, ReturnFacts
<1>4. IsMachine(y) /\ y.tabs = tables /\ Apply(y)
  BY <1>1, <1>2, <1>3 DEF munmap
<1>5. /\ next' \in 4 .. MaxFrames + 1 /\ next <= next' /\ UNCHANGED <<status, maps, ended, arguments, stores>>
  BY DEF SpaceInv, SpaceTypes, munmap
<1> QED BY <1>4, <1>5, CallKeeps

LEMMA StoreKeeps ==
    ASSUME SpaceInv, NEW p \in Procs, NEW v, NEW x \in {0, 1}, Store(p, v, x)
    PROVE  SpaceInv'
<1>1. mem' \in [Frames -> Values]
  BY DEF SpaceInv, SpaceTypes, Store, Values
<1>2. stores' \in 0 .. MaxStores
  BY CallsBound DEF SpaceInv, SpaceTypes, Store
<1>3. SpaceTypes' /\ next <= next' /\ UNCHANGED <<status, tables, maps, arguments>>
  BY <1>1, <1>2 DEF SpaceInv, SpaceTypes, Store
<1> QED BY <1>3, TablesKept

LEMMA ExitKeeps ==
    ASSUME SpaceInv, NEW p \in Procs, exit(p)
    PROVE  SpaceInv'
<1>1. SpaceTypes' /\ next <= next'
  BY DEF SpaceInv, SpaceTypes, exit
<1>2. status'[p] = "zombie" /\ Others(p)
  BY DEF SpaceInv, SpaceTypes, exit, Others
<1>3. KernelPart(tables'[p], next')
  BY DEF SpaceInv, exit, Runs
<1> QED BY <1>1, <1>2, <1>3, OneChanged

LEMMA DestroyKeeps ==
    ASSUME SpaceInv, NEW p \in Procs, proc_destroy(p)
    PROVE  SpaceInv'
<1>1. NoTable \in TableSet
  BY Numbers DEF NoTable, TableSet, EntrySet, Absent, Entry
<1>2. SpaceTypes'
  <2>1. tables' \in [Procs -> TableSet]
    BY <1>1 DEF SpaceInv, SpaceTypes, proc_destroy
  <2>2. maps' \in [Procs -> Seq(MapEntry)]
    BY DEF SpaceInv, SpaceTypes, proc_destroy
  <2>3. arguments' \in [Procs -> 0 .. MaxFrames]
    BY FrameBound DEF SpaceInv, SpaceTypes, proc_destroy
  <2>4. /\ status' \in [Procs -> {"none", "kernel", "live", "zombie"}]
        /\ ended' \in [Procs -> BOOLEAN] /\ UNCHANGED <<mem, next, stores, fault>>
    BY DEF SpaceInv, SpaceTypes, proc_destroy
  <2> QED BY <2>1, <2>2, <2>3, <2>4 DEF SpaceInv, SpaceTypes
<1>3. next <= next'
  BY DEF SpaceInv, SpaceTypes, proc_destroy
<1>4. status'[p] = "none" /\ Others(p)
  BY DEF SpaceInv, SpaceTypes, proc_destroy, Others
<1> QED BY <1>2, <1>3, <1>4, OneChanged

\* A new frame n at page v, and an entry for it at the end of the memory map.
Mapped(U, T, v, n) ==
    /\ U[v].frame = n /\ U[v].user
    /\ \A w \in Pages : w # v => U[w] = T[w]
LongerMap(L, M, v, n) == L = Append(M, [virt |-> v, phys |-> n])
LEMMA MmapPart ==
    ASSUME NEW T \in TableSet, NEW M \in Seq(MapEntry), NEW a, NEW n \in Nat, n >= 4, n <= MaxFrames,
           UserPart(T, M, a, n), KernelPart(T, n), NEW v \in {Code, Fixed} \union (2 .. n), v # a,
           NEW U \in TableSet, Mapped(U, T, v, n), NEW L, LongerMap(L, M, v, n)
    PROVE  L \in Seq(MapEntry) /\ UserPart(U, L, a, n + 1) /\ KernelPart(U, n + 1)
<1>1. PICK N : N = Len(M)
  OBVIOUS
<1>2. N \in Nat /\ DOMAIN M = 1 .. N /\ N + 1 \in 1 .. N + 1 /\ \A k \in 1 .. N : M[k] \in MapEntry
  BY <1>1
<1>3. /\ v \in Pages /\ v \notin StackPages /\ n \in Frames /\ v # KernelHeap /\ n # 0
      /\ v \notin n + 1 .. MaxFrames /\ v \in {Code, Fixed} \union (2 .. (n + 1) - 1)
  <2>1. n \in Frames
    BY DEF Frames
  <2>2. v # KernelHeap /\ v \notin n + 1 .. MaxFrames /\ n # 0
        /\ v \in {Code, Fixed} \union (2 .. (n + 1) - 1)
    BY FrameBound DEF KernelHeap, Fixed, Code
  <2>3. v \in Pages /\ v # Cell /\ v # Top
    <3>1. CASE v \in {Code, Fixed}
      BY <3>1, Numbers
    <3>2. CASE v \in 2 .. n
      <4>1. v \in Frames
        BY <3>2, FrameBound DEF Frames
      <4> QED BY <4>1, Numbers
    <3> QED BY <3>1, <3>2
  <2> QED BY <2>1, <2>2, <2>3 DEF StackPages
<1>4. a \in 2 .. n - 1 /\ a \in 2 .. (n + 1) - 1 /\ a \in Pages /\ a # v
  <2>1. a \in 2 .. n - 1
    BY DEF UserPart
  <2>2. a \in 2 .. (n + 1) - 1 /\ a \in Frames
    BY <2>1, FrameBound DEF Frames
  <2> QED BY <1>3, <2>1, <2>2, Numbers
<1>5. U[v].frame = n /\ U[v].user /\ \A w \in Pages : w # v => U[w] = T[w]
  BY DEF Mapped
<1>6. [virt |-> v, phys |-> n] \in MapEntry
  BY <1>3 DEF MapEntry
<1>7. /\ L \in Seq(MapEntry) /\ DOMAIN L = 1 .. N + 1 /\ Len(L) = N + 1
      /\ L[N + 1].virt = v /\ L[N + 1].phys = n /\ \A k \in 1 .. N : L[k] = M[k]
  BY <1>1, <1>2, <1>6 DEF LongerMap
<1>8. \A k \in 1 .. N + 1 : k \in 1 .. N \/ k = N + 1
  BY <1>2
<1>9. \A k \in 1 .. N : k \in 1 .. N + 1
  BY <1>2
<1>10. \A x \in 2 .. n - 1 : x \in 2 .. (n + 1) - 1 /\ x # n
  OBVIOUS
<1>11. UserPart(U, L, a, n + 1)
  <2>1. \A f \in Frames : U[f].frame # 0
    <3>1. \A f \in Frames : f \in Pages /\ T[f].frame # 0
      BY Numbers DEF UserPart
    <3> QED BY <1>3, <1>5, <3>1
  <2>2. \A k \in DOMAIN L : L[k].virt \in {Code, Fixed} \union (2 .. (n + 1) - 1) /\ L[k].virt # a
    <3>1. \A k \in 1 .. N : M[k].virt \in {Code, Fixed} \union (2 .. n - 1) /\ M[k].virt # a
      BY <1>2 DEF UserPart
    <3> QED BY <1>3, <1>4, <1>7, <1>8, <1>10, <3>1
  <2>3. \A w \in Pages : U[w].user <=> (w = a \/ w \in StackPages \/ \E k \in DOMAIN L : L[k].virt = w)
    <3> TAKE w \in Pages
    <3>1. CASE w = v
      BY <1>2, <1>5, <1>7, <3>1
    <3>2. CASE w # v
      <4>1. (\E k \in DOMAIN L : L[k].virt = w) <=> \E k \in DOMAIN M : M[k].virt = w
        BY <1>2, <1>7, <1>8, <1>9, <3>2
      <4> QED BY <1>5, <3>2, <4>1 DEF UserPart
    <3> QED BY <3>1, <3>2
  <2>4. \A w \in Pages : U[w].user => U[w].frame \in 2 .. (n + 1) - 1
    <3>1. n \in 2 .. (n + 1) - 1
      OBVIOUS
    <3>2. \A w \in Pages : T[w].user => T[w].frame \in 2 .. n - 1
      BY DEF UserPart
    <3> QED BY <1>5, <1>10, <3>1, <3>2
  <2>5. U[Cell].write /\ U[Top].write
    BY <1>3, <1>5, Numbers DEF UserPart, StackPages
  <2>6. \A k \in DOMAIN L : Latest(L, k) => U[L[k].virt].frame = L[k].phys
    <3> TAKE k \in DOMAIN L
    <3> HAVE Latest(L, k)
    <3>1. CASE k = N + 1
      BY <1>5, <1>7, <3>1
    <3>2. CASE k \in 1 .. N
      <4>1. N + 1 \in k + 1 .. Len(L) /\ \A j \in k + 1 .. N : j \in 1 .. N /\ j \in k + 1 .. Len(L)
        BY <1>2, <1>7, <3>2
      <4>2. M[k].virt # v /\ M[k].virt \in Pages
        BY <1>2, <1>7, <3>2, <4>1 DEF Latest, MapEntry
      <4>3. Latest(M, k)
        BY <1>1, <1>7, <3>2, <4>1 DEF Latest
      <4>4. T[M[k].virt].frame = M[k].phys
        BY <1>2, <3>2, <4>3 DEF UserPart
      <4> QED BY <1>5, <1>7, <3>2, <4>2, <4>4
    <3> QED BY <1>7, <1>8, <3>1, <3>2
  <2>7. \A w, x \in Pages : U[w].user /\ U[x].user /\ w # x => U[w].frame # U[x].frame
    <3>1. \A w \in Pages : T[w].user => T[w].frame \in 2 .. n - 1
      BY DEF UserPart
    <3>2. \A w, x \in Pages : T[w].user /\ T[x].user /\ w # x => T[w].frame # T[x].frame
      BY DEF UserPart
    <3> QED BY <1>5, <1>10, <3>1, <3>2
  <2> QED BY <1>4, <2>1, <2>2, <2>3, <2>4, <2>5, <2>6, <2>7 DEF UserPart
<1>12. KernelPart(U, n + 1)
  <2> SUFFICES ASSUME NEW f \in {KernelHeap} \union (n + 1 .. MaxFrames) PROVE U[f] = Entry(f, TRUE, FALSE)
    BY DEF KernelPart
  <2>1. f \in Frames /\ f \in {KernelHeap} \union (n .. MaxFrames)
    BY FrameBound DEF Frames, KernelHeap
  <2>2. f # v /\ f \in Pages
    BY <1>3, <2>1, Numbers
  <2> QED BY <1>5, <2>1, <2>2 DEF KernelPart
<1> QED BY <1>7, <1>11, <1>12

\* A page that nothing relies on is the program's, free, or the address of a frame.
LEMMA FreePages ==
    ASSUME NEW p \in Procs, NEW n \in Nat, n = next, n >= 4, n <= MaxFrames,
           NEW addr \in {0} \union Pages, NEW v, v = IF addr = 0 THEN next ELSE addr, v \notin Relied(p)
    PROVE  v \in {Code, Fixed} \union (2 .. n) /\ v # arguments[p] /\ v \in Pages /\ n \in Frames
<1>1. n \in Frames /\ v \in Pages
  <2>1. n \in Frames
    BY DEF Frames
  <2> QED BY <2>1, Numbers
<1>2. v # KernelHeap /\ v # arguments[p] /\ v # Cell /\ v # Top /\ v \notin n + 1 .. MaxFrames
  BY DEF Relied, StackPages
<1>3. v \in {Code, Fixed} \union (2 .. n)
  BY <1>1, <1>2, FrameBound DEF Pages, Code, Cell, Top, Fixed, KernelHeap
<1> QED BY <1>1, <1>2, <1>3

LEMMA MmapKeeps ==
    ASSUME SpaceInv, NEW p \in Procs, NEW addr \in {0} \union Pages, NEW write \in BOOLEAN, mmap(p, addr, write)
    PROVE  SpaceInv'
<1>1. CASE \E why \in Reasons : Stops(why)
  BY <1>1, StopsKeeps
<1>2. CASE ~ \E why \in Reasons : Stops(why)
  <2>1. PICK v, n : n = next /\ v = IF addr = 0 THEN next ELSE addr
    OBVIOUS
  <2>2. PICK T, M, a, t, U : /\ T = tables[p] /\ M = maps[p] /\ a = arguments[p] /\ t = TRUE
                             /\ U = mmu_map_table(tables[p], v, n, 1, write, t)
    OBVIOUS
  <2>3. PICK m, y, L : /\ m = Machine([tables EXCEPT ![p] = U], mem) /\ y = Return(m, p, 1)
                       /\ L = Append(M, [virt |-> v, phys |-> n])
    OBVIOUS
  <2>4. DOMAIN status = Procs /\ DOMAIN maps = Procs /\ DOMAIN arguments = Procs /\ DOMAIN tables = Procs
    BY DEF SpaceInv, SpaceTypes
  <2>5. /\ next <= MaxFrames /\ Apply(y) /\ maps' = [maps EXCEPT ![p] = L] /\ next' = next + 1
        /\ UNCHANGED <<status, ended, arguments, stores>> /\ status[p] = "live" /\ v \notin Relied(p)
    <3>0. mmap(p, addr, write) /\ ~ Lost(p) /\ ~ Stops("taken")
      BY <1>2 DEF Lost, Reasons
    <3>1. m = Machine([tables EXCEPT ![p] = mmu_map_table(@, v, next, 1, write, TRUE)], mem)
      BY <2>1, <2>2, <2>3, <2>4
    <3>2. L = mm_proc_mmap_add(maps[p], next, v)
      BY <2>1, <2>2, <2>3 DEF mm_proc_mmap_add
    <3> QED BY <2>1, <2>3, <2>4, <3>0, <3>1, <3>2 DEF mmap, Runs
  <2>6. /\ T \in TableSet /\ M \in Seq(MapEntry) /\ n \in Nat /\ n >= 4 /\ n <= MaxFrames
        /\ UserPart(T, M, a, n) /\ KernelPart(T, n)
    <3>1. T \in TableSet /\ M \in Seq(MapEntry) /\ n \in Nat /\ n >= 4 /\ n <= MaxFrames
      BY <2>1, <2>2, <2>5 DEF SpaceInv, SpaceTypes
    <3>2. UserPart(T, M, a, n) /\ KernelPart(T, n)
      BY <2>1, <2>2, <2>5 DEF SpaceInv
    <3> QED BY <3>1, <3>2
  <2>7. v \in {Code, Fixed} \union (2 .. n) /\ v # a /\ v \in Pages /\ n \in Frames
    BY <2>1, <2>2, <2>5, <2>6, FreePages
  <2>8. U \in TableSet /\ U = [T EXCEPT ![v] = Entry(n, write, t)]
    <3>1. Entry(n, write, t) \in EntrySet
      BY <2>2, <2>7, Numbers DEF Entry, EntrySet
    <3>2. U = mmu_map_table(T, v, n, 1, write, t) /\ T \in TableSet
      BY <2>2, <2>6
    <3> QED BY <2>7, <3>1, <3>2, MapFacts
  <2>9. Mapped(U, T, v, n)
    <3>1. Entry(n, write, t).frame = n /\ Entry(n, write, t).user
      BY <2>2 DEF Entry
    <3> QED BY <2>6, <2>7, <2>8, <3>1 DEF Mapped, TableSet
  <2>10. L \in Seq(MapEntry) /\ UserPart(U, L, a, n + 1) /\ KernelPart(U, n + 1)
    <3>1. LongerMap(L, M, v, n) /\ U \in TableSet
      BY <2>3, <2>8 DEF LongerMap
    <3> QED BY <2>6, <2>7, <2>9, <3>1, MmapPart
  <2>11. IsMachine(m) /\ m.tabs[p] = U /\ \A q \in Procs : q # p => m.tabs[q] = tables[q]
    BY <2>3, <2>8 DEF SpaceInv, SpaceTypes, IsMachine, Machine
  <2>12. IsMachine(y) /\ y.tabs = m.tabs
    <3>1. IsMachine(m) /\ 1 \in Values
      BY <2>11 DEF Values
    <3> QED BY <2>3, <3>1, ReturnFacts
  <2>13. /\ tables' = y.tabs /\ mem' = y.mem /\ fault' = "no"
         /\ tables' \in [Procs -> TableSet] /\ mem' \in [Frames -> Values]
    BY <2>5, <2>12, Applied
  <2>14. /\ status'[p] = "live" /\ tables'[p] = U /\ maps'[p] = L /\ arguments'[p] = a /\ next' = n + 1
         /\ Others(p)
    <3>1. status'[p] = "live" /\ maps'[p] = L /\ arguments'[p] = a /\ next' = n + 1
      BY <2>1, <2>2, <2>4, <2>5
    <3>2. \A q \in Procs : q # p => status'[q] = status[q] /\ maps'[q] = maps[q] /\ arguments'[q] = arguments[q]
      BY <2>4, <2>5
    <3>3. tables'[p] = U /\ \A q \in Procs : q # p => tables'[q] = tables[q]
      BY <2>11, <2>12, <2>13
    <3> QED BY <3>1, <3>2, <3>3 DEF Others
  <2>15. SpaceTypes'
    <3>1. maps' \in [Procs -> Seq(MapEntry)]
      BY <2>5, <2>10 DEF SpaceInv, SpaceTypes
    <3>2. next' \in 4 .. MaxFrames + 1
      BY <2>6, <2>14, FrameBound
    <3> QED BY <2>5, <2>13, <3>1, <3>2 DEF SpaceInv, SpaceTypes
  <2>16. ASSUME NEW q \in Procs, q # p, status[q] = "live"
         PROVE  Apart(U, a, tables[q]) /\ Apart(tables[q], arguments[q], U)
    <3>1. PICK Q, b : Q = tables[q] /\ b = arguments[q]
      OBVIOUS
    <3>2. \A w \in Pages : Q[w].user => Q[w].frame \in 2 .. n - 1
      BY <2>1, <2>16, <3>1 DEF SpaceInv, UserPart
    <3>3. Apart(T, a, Q) /\ Apart(Q, b, T)
      BY <2>2, <2>5, <2>16, <3>1 DEF SpaceInv
    <3>4. \A x \in 2 .. n - 1 : x # n
      BY <2>6
    <3>5. Apart(U, a, Q)
      BY <2>9, <3>2, <3>3, <3>4 DEF Apart, Mapped
    <3>6. Apart(Q, b, U)
      BY <2>9, <3>2, <3>3, <3>4 DEF Apart, Mapped
    <3> QED BY <3>1, <3>5, <3>6
  <2> QED
    <3>1. next <= next'
      BY <2>1, <2>6, <2>14
    <3>2. KernelPart(tables'[p], next') /\ UserPart(tables'[p], maps'[p], arguments'[p], next')
      BY <2>10, <2>14
    <3>3. \A q \in Procs : q # p /\ status[q] = "live" =>
              Apart(tables'[p], arguments'[p], tables[q]) /\ Apart(tables[q], arguments[q], tables'[p])
      BY <2>14, <2>16
    <3> QED BY <2>14, <2>15, <3>1, <3>2, <3>3, OneChanged
<1> QED BY <1>1, <1>2

LEMMA InitSpace ==
    ASSUME Init PROVE SpaceInv
<1>1. PICK K, T, w : K = KernelTable /\ T = mmu_map_table(K, Cell, 2, 2, TRUE, w) /\ w = FALSE
  OBVIOUS
<1>2. K \in TableSet /\ \A v \in Pages : K[v] = IF v \in Frames THEN Entry(v, TRUE, FALSE) ELSE Absent
  BY <1>1, Numbers DEF KernelTable, TableSet, EntrySet, Entry, Absent
<1>3. NoTable \in TableSet
  BY Numbers DEF NoTable, TableSet, EntrySet, Absent, Entry
<1>4. 2 \in Frames /\ 2 + 1 \in Frames /\ w \in BOOLEAN
  <2>1. 2 \in Frames /\ 2 + 1 \in Frames
    BY FrameBound DEF Frames
  <2> QED BY <1>1, <2>1
<1>5. /\ T \in TableSet
      /\ T = [x \in Pages |-> IF x = Cell THEN Entry(2, TRUE, w)
                                 ELSE IF x = Top THEN Entry(2 + 1, TRUE, w) ELSE K[x]]
  <2>1. T = mmu_map_table(K, Cell, 2, 2, TRUE, w) /\ K \in TableSet
    BY <1>1, <1>2
  <2> QED BY <1>4, <2>1, MapStackFacts
<1>6. tables = [p \in Procs |-> IF p = InitProc THEN T ELSE NoTable]
  BY <1>1 DEF Init, mmu_clone_table
<1>7. KernelPart(T, 4)
  <2> SUFFICES ASSUME NEW f \in {KernelHeap} \union (4 .. MaxFrames) PROVE T[f] = Entry(f, TRUE, FALSE)
    BY DEF KernelPart
  <2>1. f \in Frames
    BY FrameBound DEF Frames, KernelHeap
  <2>2. f \in Pages /\ f # Cell /\ f # Top
    BY <2>1, Numbers
  <2> QED BY <1>2, <1>5, <2>1, <2>2
<1>8. SpaceTypes
  <2>1. tables \in [Procs -> TableSet]
    BY <1>3, <1>5, <1>6
  <2>2. mem \in [Frames -> Values] /\ maps \in [Procs -> Seq(MapEntry)] /\ ended \in [Procs -> BOOLEAN]
    BY DEF Init, Values
  <2>3. arguments \in [Procs -> 0 .. MaxFrames] /\ next \in 4 .. MaxFrames + 1
    BY FrameBound DEF Init
  <2>4. stores \in 0 .. MaxStores /\ fault \in {"no"} \union Reasons
    BY CallsBound DEF Init
  <2>5. status \in [Procs -> {"none", "kernel", "live", "zombie"}]
    BY DEF Init
  <2> QED BY <2>1, <2>2, <2>3, <2>4, <2>5 DEF SpaceTypes
<1>9. \A p \in Procs : status[p] # "live" /\ (status[p] # "none" => p = InitProc) /\ next = 4
  BY DEF Init
<1>10. \A p \in Procs : status[p] # "none" => KernelPart(tables[p], next)
  BY <1>6, <1>7, <1>9
<1> QED BY <1>8, <1>9, <1>10 DEF SpaceInv

LEMMA StepKeeps ==
    ASSUME SpaceInv, [Next]_vars PROVE SpaceInv'
<1>1. CASE UNCHANGED vars
  BY <1>1 DEF vars, SpaceInv, SpaceTypes
<1>2. ASSUME NEW p \in Procs, fork(p) PROVE SpaceInv'
  BY <1>2, ForkKeeps
<1>3. ASSUME NEW p \in Procs, execve(p) PROVE SpaceInv'
  BY <1>3, ExecKeeps
<1>4. ASSUME NEW p \in Procs, ExecFails(p) PROVE SpaceInv'
  BY <1>4, ExecFailsKeeps
<1>5. ASSUME NEW p \in Procs, munmap(p) PROVE SpaceInv'
  BY <1>5, MunmapKeeps
<1>6. ASSUME NEW p \in Procs, exit(p) PROVE SpaceInv'
  BY <1>6, ExitKeeps
<1>7. ASSUME NEW p \in Procs, handle_exception(p) PROVE SpaceInv'
  BY <1>7, ExitKeeps DEF handle_exception
<1>8. ASSUME NEW p \in Procs, proc_destroy(p) PROVE SpaceInv'
  BY <1>8, DestroyKeeps
<1>9. ASSUME NEW p \in Procs, NEW r \in Requests, mmap(p, r[1], r[2]) PROVE SpaceInv'
  <2>1. r[1] \in {0} \union Pages /\ r[2] \in BOOLEAN
    BY CallsBound
  <2> QED BY <1>9, <2>1, MmapKeeps
<1>10. ASSUME NEW p \in Procs, NEW v \in UserPages(p), NEW x \in {0, 1}, Store(p, v, x) PROVE SpaceInv'
  BY <1>10, StoreKeeps
<1>11. ASSUME NEW p \in Procs, NoMemory(p) PROVE SpaceInv'
  BY <1>11, StopsKeeps DEF NoMemory, Reasons
<1>12. ASSUME NEW p \in Procs, NEW v \in UserPages(p), StoreBeside(p, v) PROVE SpaceInv'
  BY <1>12, StopsKeeps DEF StoreBeside, Reasons
<1> QED BY <1>1, <1>2, <1>3, <1>4, <1>5, <1>6, <1>7, <1>8, <1>9, <1>10, <1>11, <1>12 DEF Next

LEMMA SpaceInvariant == Spec => []SpaceInv
BY InitSpace, StepKeeps, PTL DEF Spec

-----------------------------------------------------------------------------
(* A memory per process: the refinement of Memory.                           *)

\* What the processes have at their pages, as MemoryKept says.
Space == [p \in Procs |-> [v \in Pages |->
             IF p \in Live /\ tables[p][v].user THEN mem[tables[p][v].frame] ELSE None]]
At(st, T, S, v) == IF st = "live" /\ T[v].user THEN S[T[v].frame] ELSE None

LEMMA SpaceIs ==
    /\ DOMAIN Space = Procs /\ DOMAIN Space' = Procs
    /\ \A p \in Procs : /\ Space[p] = [v \in Pages |-> At(status[p], tables[p], mem, v)]
                        /\ Space'[p] = [v \in Pages |-> At(status'[p], tables'[p], mem', v)]
BY DEF Space, At, Live

LEMMA SpaceSame ==
    ASSUME NEW q \in Procs, status'[q] = status[q], tables'[q] = tables[q],
           status[q] = "live" => \A v \in Pages : tables[q][v].user => mem'[tables[q][v].frame] = mem[tables[q][v].frame]
    PROVE  Space'[q] = Space[q]
<1>1. \A v \in Pages : At(status'[q], tables'[q], mem', v) = At(status[q], tables[q], mem, v)
  BY DEF At
<1> QED BY <1>1, SpaceIs

\* The frames of a program's pages were handed out, hold values, and are its own.
LEMMA LiveFacts ==
    ASSUME SpaceInv, NEW p \in Procs, status[p] = "live"
    PROVE  /\ p \in Live /\ Cell \in Pages /\ tables[p][Cell].user /\ tables[p][Cell].write /\ Cell # arguments[p]
           /\ \A v \in Pages : tables[p][v].user => /\ tables[p][v].frame \in 1 .. next - 1
                                                    /\ tables[p][v].frame \in Frames
           /\ \A v, w \in Pages : tables[p][v].user /\ tables[p][w].user /\ v # w =>
                 tables[p][v].frame # tables[p][w].frame
           /\ \A q \in Procs : \A v, w \in Pages :
                 q # p /\ status[q] = "live" /\ tables[p][v].user /\ v # arguments[p] /\ tables[q][w].user =>
                    tables[p][v].frame # tables[q][w].frame
<1>1. UserPart(tables[p], maps[p], arguments[p], next) /\ next \in 4 .. MaxFrames + 1
  BY DEF SpaceInv, SpaceTypes
<1>2. \A g \in 2 .. next - 1 : g \in 1 .. next - 1 /\ g \in Frames
  BY <1>1, FrameBound DEF Frames
<1>3. Cell # arguments[p]
  <2>1. arguments[p] \in 2 .. next - 1
    BY <1>1 DEF UserPart
  <2> QED BY <1>2, <2>1, Numbers
<1>4. tables[p][Cell].user /\ tables[p][Cell].write /\ Cell \in Pages
  BY <1>1, Numbers DEF UserPart, StackPages
<1>5. \A v \in Pages : tables[p][v].user => /\ tables[p][v].frame \in 1 .. next - 1
                                             /\ tables[p][v].frame \in Frames
  BY <1>1, <1>2 DEF UserPart
<1>6. \A v, w \in Pages : tables[p][v].user /\ tables[p][w].user /\ v # w =>
                 tables[p][v].frame # tables[p][w].frame
  BY <1>1 DEF UserPart
<1>7. \A q \in Procs : \A v, w \in Pages :
         q # p /\ status[q] = "live" /\ tables[p][v].user /\ v # arguments[p] /\ tables[q][w].user =>
            tables[p][v].frame # tables[q][w].frame
  BY DEF SpaceInv, Apart
<1> QED BY <1>3, <1>4, <1>5, <1>6, <1>7 DEF Live

\* A step that writes to the frame of page v, and otherwise to frames that nobody has yet.
LEMMA WriteIsStore ==
    ASSUME SpaceInv, NEW p \in Procs, status[p] = "live", NEW v \in Pages, tables[p][v].user, v # arguments[p],
           UNCHANGED <<status, tables>>, mem' \in [Frames -> Values],
           \A g \in 1 .. next - 1 : g # tables[p][v].frame => mem'[g] = mem[g]
    PROVE  Private!Store(p)
<1>1. Live' = Live /\ p \in Live
  BY DEF Live
<1>2. ASSUME NEW q \in Procs, q # p PROVE Space'[q] = Space[q]
  <2>1. ASSUME NEW w \in Pages, status[q] = "live", tables[q][w].user
        PROVE  mem'[tables[q][w].frame] = mem[tables[q][w].frame]
    <3>1. tables[q][w].frame \in 1 .. next - 1
      BY <2>1, LiveFacts
    <3>2. tables[p][v].frame # tables[q][w].frame
      BY <1>2, <2>1, LiveFacts
    <3> QED BY <3>1, <3>2
  <2>2. status[q] = "live" => \A w \in Pages : tables[q][w].user => mem'[tables[q][w].frame] = mem[tables[q][w].frame]
    BY <2>1
  <2> QED BY <2>2, SpaceSame
<1>3. ASSUME NEW w \in Pages, w # v PROVE Space'[p][w] = Space[p][w]
  <2>1. ASSUME tables[p][w].user PROVE mem'[tables[p][w].frame] = mem[tables[p][w].frame]
    <3>1. tables[p][w].frame \in 1 .. next - 1 /\ tables[p][w].frame # tables[p][v].frame
      BY <1>3, <2>1, LiveFacts
    <3> QED BY <3>1
  <2>2. At(status'[p], tables'[p], mem', w) = At(status[p], tables[p], mem, w)
    BY <2>1 DEF At
  <2> QED BY <2>2, SpaceIs
<1>4. tables[p][v].frame \in Frames
  BY LiveFacts
<1>5. Space[p][v] # None
  <2>1. Space[p][v] = mem[tables[p][v].frame]
    BY SpaceIs DEF At
  <2>2. mem[tables[p][v].frame] \in Values
    BY <1>4 DEF SpaceInv, SpaceTypes
  <2> QED BY <2>1, <2>2, NoneIsNoValue
<1>6. Space'[p][v] \in Values
  <2>1. Space'[p][v] = mem'[tables[p][v].frame]
    BY SpaceIs DEF At
  <2> QED BY <1>4, <2>1
<1> HIDE DEF Live
<1> QED BY <1>1, <1>2, <1>3, <1>5, <1>6 DEF Private!Store, Private!Alone, Private!Mapped, Private!Changed, Space

\* A call that gives its caller a result, in the frame of the argument block.
LEMMA ReturnIsStore ==
    ASSUME SpaceInv, NEW p \in Procs, status[p] = "live", NEW m, IsMachine(m), m.tabs = tables,
           \A g \in 1 .. next - 1 : m.mem[g] = mem[g],
           NEW b \in Values, Apply(Return(m, p, b)), UNCHANGED status
    PROVE  Private!Store(p)
<1>1. PICK y, cell : y = Return(m, p, b) /\ cell = tables[p][Cell].frame
  OBVIOUS
<1>2. IsMachine(y) /\ y.tabs = m.tabs /\ Written(y, m, m.tabs[p][Cell].frame, b)
  BY <1>1, ReturnFacts
<1>3. tables' = tables /\ mem' = y.mem /\ mem' \in [Frames -> Values]
  <2>1. Apply(y) /\ IsMachine(y)
    BY <1>1, <1>2
  <2>2. tables' = y.tabs /\ mem' = y.mem /\ mem' \in [Frames -> Values]
    BY <2>1, Applied
  <2> QED BY <1>2, <2>2
<1>4. next \in 4 .. MaxFrames + 1
  BY DEF SpaceInv, SpaceTypes
<1>5. \A g \in 1 .. next - 1 : g \in Frames
  BY <1>4, FrameBound DEF Frames
<1>6. \A g \in 1 .. next - 1 : g # tables[p][Cell].frame => mem'[g] = mem[g]
  BY <1>2, <1>3, <1>5 DEF Written
<1>7. Cell \in Pages /\ tables[p][Cell].user /\ Cell # arguments[p]
  BY LiveFacts
<1>8. UNCHANGED <<status, tables>>
  BY <1>3
<1> QED BY <1>3, <1>6, <1>7, <1>8, WriteIsStore

LEMMA MunmapIsStore ==
    ASSUME SpaceInv, NEW p \in Procs, munmap(p)
    PROVE  Private!Store(p)
<1>1. PICK m : m = Machine(tables, mem)
  OBVIOUS
<1>2. IsMachine(m) /\ m.tabs = tables /\ m.mem = mem /\ 0 \in Values
  BY <1>1, ThisMachine DEF Values, Machine
<1>3. Apply(Return(m, p, 0)) /\ status[p] = "live" /\ UNCHANGED status
  BY <1>1 DEF munmap, Runs
<1>4. \A g \in 1 .. next - 1 : m.mem[g] = mem[g]
  BY <1>2
<1> QED BY <1>2, <1>3, <1>4, ReturnIsStore

LEMMA ExecFailsIsStore ==
    ASSUME SpaceInv, NEW p \in Procs, ExecFails(p)
    PROVE  Private!Store(p)
<1>1. PICK m : m = Machine(tables, mem)
  OBVIOUS
<1>2. IsMachine(m) /\ m.tabs = tables /\ m.mem = mem /\ 1 \in Values /\ Program \in Values
  BY <1>1, ThisMachine DEF Values, Machine
<1>3. next \in 4 .. MaxFrames + 1 /\ status[p] = "live" /\ UNCHANGED status
  BY DEF SpaceInv, SpaceTypes, ExecFails, Runs
<1>4. CASE Apply(Return(m, p, 1))
  <2>1. \A g \in 1 .. next - 1 : m.mem[g] = mem[g]
    BY <1>2
  <2> QED BY <1>2, <1>3, <1>4, <2>1, ReturnIsStore
<1>5. CASE next <= MaxFrames /\ Apply(Return(elf_exec_common(m, p, next), p, 1))
  <2>1. PICK k : k = KernelWrite(m, p, next, Program)
    OBVIOUS
  <2>2. tables[p][next] = Entry(next, TRUE, FALSE) /\ next # 0
    <3>1. KernelPart(tables[p], next)
      BY <1>3 DEF SpaceInv
    <3>2. next \in {KernelHeap} \union (next .. MaxFrames) /\ next # 0
      BY <1>3, <1>5, FrameBound
    <3> QED BY <3>1, <3>2 DEF KernelPart
  <2>3. Writable(m.tabs[p], next) /\ m.tabs[p][next].frame = next
    BY <1>2, <2>2 DEF Writable, Entry
  <2>4. IsMachine(k) /\ k.tabs = m.tabs /\ Written(k, m, m.tabs[p][next].frame, Program)
    <3>1. Writable(m.tabs[p], next)
      BY <2>3
    <3> QED BY <1>2, <2>1, <3>1, KernelWriteFacts
  <2>5. \A g \in 1 .. next - 1 : g \in Frames /\ g # next
    BY <1>3, FrameBound DEF Frames
  <2>6. \A g \in 1 .. next - 1 : k.mem[g] = mem[g]
    BY <1>2, <2>3, <2>4, <2>5 DEF Written
  <2>7. Apply(Return(k, p, 1)) /\ k.tabs = tables /\ IsMachine(k)
    BY <1>2, <1>5, <2>1, <2>4 DEF elf_exec_common, elf_read_phdr
  <2> QED BY <1>2, <1>3, <2>6, <2>7, ReturnIsStore
<1> QED BY <1>1, <1>4, <1>5 DEF ExecFails

LEMMA StoreIsStore ==
    ASSUME SpaceInv, ~StoresArguments, NEW p \in Procs, NEW v \in UserPages(p), NEW x \in {0, 1}, Store(p, v, x)
    PROVE  Private!Store(p)
<1>1. /\ status[p] = "live" /\ v \in Pages /\ tables[p][v].user /\ v # arguments[p]
      /\ UNCHANGED <<status, tables>>
  BY DEF Store, Runs, UserPages
<1>2. mem' = [mem EXCEPT ![tables[p][v].frame] = x] /\ mem \in [Frames -> Values] /\ next \in 4 .. MaxFrames + 1
  BY DEF Store, SpaceInv, SpaceTypes
<1>3. mem' \in [Frames -> Values]
  BY <1>2 DEF Values
<1>4. \A g \in 1 .. next - 1 : g \in Frames
  BY <1>2, FrameBound DEF Frames
<1>5. \A g \in 1 .. next - 1 : g # tables[p][v].frame => mem'[g] = mem[g]
  BY <1>2, <1>4
<1> QED BY <1>1, <1>3, <1>5, WriteIsStore

LEMMA ExitIsEnd ==
    ASSUME SpaceInv, NEW p \in Procs, exit(p)
    PROVE  Private!End(p)
<1>1. Live' = Live \ {p}
  BY DEF exit, Live, SpaceInv, SpaceTypes
<1>2. ASSUME NEW q \in Procs, q # p PROVE Space'[q] = Space[q]
  <2>1. /\ status'[q] = status[q] /\ tables'[q] = tables[q]
        /\ status[q] = "live" => \A v \in Pages : tables[q][v].user => mem'[tables[q][v].frame] = mem[tables[q][v].frame]
    BY <1>2 DEF exit, SpaceInv, SpaceTypes
  <2> QED BY <2>1, SpaceSame
<1>3. Space'[p] = [v \in Pages |-> None]
  <2>1. status'[p] = "zombie"
    BY DEF exit, SpaceInv, SpaceTypes
  <2> QED BY <2>1, SpaceIs DEF At
<1>4. Space' = [Space EXCEPT ![p] = [v \in Pages |-> None]]
  <2>1. \A q \in Procs : Space'[q] = [Space EXCEPT ![p] = [v \in Pages |-> None]][q]
    BY <1>2, <1>3, SpaceIs
  <2>2. Space' = [q \in Procs |-> Space'[q]]
    BY DEF Space
  <2>3. DOMAIN Space = Procs
    BY SpaceIs
  <2> QED BY <2>1, <2>2, <2>3
<1> HIDE DEF Live
<1> QED BY <1>1, <1>4 DEF Private!End, Private!Empty, Space

LEMMA DestroyStutters ==
    ASSUME SpaceInv, NEW p \in Procs, proc_destroy(p)
    PROVE  Live' = Live /\ Space' = Space
<1>1. status[p] = "zombie" /\ status'[p] = "none"
  BY DEF proc_destroy, SpaceInv, SpaceTypes
<1>2. ASSUME NEW q \in Procs PROVE Space'[q] = Space[q]
  <2>1. CASE q = p
    <3>1. \A v \in Pages : At(status'[q], tables'[q], mem', v) = At(status[q], tables[q], mem, v)
      BY <1>1, <2>1 DEF At
    <3> QED BY <3>1, SpaceIs
  <2>2. CASE q # p
    <3>1. /\ status'[q] = status[q] /\ tables'[q] = tables[q]
          /\ status[q] = "live" => \A v \in Pages : tables[q][v].user => mem'[tables[q][v].frame] = mem[tables[q][v].frame]
      BY <2>2 DEF proc_destroy, SpaceInv, SpaceTypes
    <3> QED BY <3>1, SpaceSame
  <2> QED BY <2>1, <2>2
<1>3. Live' = Live
  BY DEF proc_destroy, Live, SpaceInv, SpaceTypes
<1>4. Space' = [q \in Procs |-> Space'[q]] /\ Space = [q \in Procs |-> Space[q]]
  BY DEF Space
<1> QED BY <1>2, <1>3, <1>4

\* A step that writes only to frames from next on, and to those of p.
LEMMA NewFrames ==
    ASSUME SpaceInv, NEW p \in Procs, Others(p), \A g \in 1 .. next - 1 : mem'[g] = mem[g]
    PROVE  \A q \in Procs : q # p => Space'[q] = Space[q]
<1> TAKE q \in Procs
<1> HAVE q # p
<1>1. status'[q] = status[q] /\ tables'[q] = tables[q]
  BY DEF Others
<1>2. ASSUME status[q] = "live", NEW v \in Pages, tables[q][v].user
      PROVE  mem'[tables[q][v].frame] = mem[tables[q][v].frame]
  <2>1. tables[q][v].frame \in 1 .. next - 1
    BY <1>2, LiveFacts
  <2> QED BY <2>1
<1> QED BY <1>1, <1>2, SpaceSame

LEMMA ExecIsExec ==
    ASSUME SpaceInv, SpaceInv', NEW p \in Procs, execve(p)
    PROVE  Private!Exec(p)
<1>1. status[p] # "none" /\ next + 3 <= MaxFrames
  BY DEF execve
<1>2. PICK y, n, U : y = Executed(p) /\ n = next /\ U = y.tabs[p]
  OBVIOUS
<1>3. /\ IsMachine(y) /\ \A q \in Procs : q # p => y.tabs[q] = tables[q]
      /\ ProgramTable(U, n) /\ ExecutedMem(y.mem, mem, n)
  <2>1. y = Executed(p)
    BY <1>2
  <2>2. /\ IsMachine(y) /\ \A q \in Procs : q # p => y.tabs[q] = tables[q]
        /\ ProgramTable(y.tabs[p], next) /\ ExecutedMem(y.mem, mem, next)
    BY <1>1, <2>1, ExecutedFacts
  <2> QED BY <1>2, <2>2
<1>4. tables' = y.tabs /\ mem' = y.mem
  <2>1. Apply(y) /\ IsMachine(y)
    BY <1>2, <1>3 DEF execve
  <2> QED BY <2>1, Applied
<1>5. n \in Nat /\ n >= 4 /\ n + 3 <= MaxFrames
  BY <1>1, <1>2 DEF SpaceInv, SpaceTypes
<1>6. status'[p] = "live" /\ Others(p) /\ Live' = Live \union {p}
  <2>1. /\ DOMAIN status = Procs /\ DOMAIN maps = Procs /\ DOMAIN arguments = Procs
    BY DEF SpaceInv, SpaceTypes
  <2>2. status' = [status EXCEPT ![p] = "live"]
    BY DEF execve
  <2>3. \A q \in Procs : q # p => maps'[q] = maps[q] /\ arguments'[q] = arguments[q]
    BY <2>1 DEF execve
  <2> QED BY <1>3, <1>4, <2>1, <2>2, <2>3 DEF Others, Live
<1>7. \A q \in Procs \ {p} : Space'[q] = Space[q]
  <2>1. \A g \in 1 .. next - 1 : mem'[g] = mem[g]
    BY <1>2, <1>3, <1>4 DEF ExecutedMem
  <2> QED BY <1>6, <2>1, NewFrames
<1>8. PICK M : M = << [virt |-> Code, phys |-> n] >>
  OBVIOUS
<1>9. UserPart(U, M, n + 3, n + 4)
  BY <1>3, <1>5, <1>8, ProgramPart
<1>10. \A v \in Pages : U[v].user <=> v \in {Code, n + 3} \union StackPages
  <2>1. DOMAIN M = {1} /\ M[1].virt = Code
    BY <1>8
  <2> QED BY <1>9, <2>1 DEF UserPart
<1>11. \A v \in Pages : Space'[p][v] = At("live", U, mem', v)
  BY <1>2, <1>4, <1>6, SpaceIs
<1>12. \A v \in Pages : U[v].user => mem'[U[v].frame] # None
  <2>1. \A v \in Pages : U[v].user => U[v].frame \in 2 .. (n + 4) - 1
    BY <1>9 DEF UserPart
  <2>2. \A g \in 2 .. (n + 4) - 1 : g \in Frames
    BY <1>5, FrameBound DEF Frames
  <2>3. mem' \in [Frames -> Values]
    BY DEF SpaceInv, SpaceTypes
  <2>4. \A g \in Frames : mem'[g] \in Values
    BY <2>3
  <2> QED BY <2>1, <2>2, <2>4, NoneIsNoValue
<1>13. \A v \in Pages : Space'[p][v] # None <=> v \in {Code, n + 3} \union StackPages
  BY <1>10, <1>11, <1>12 DEF At
<1>14. Space'[p][Code] = Program
  <2>1. U[Code] = Entry(n, TRUE, TRUE) /\ Code \in Pages
    <3>1. n + 3 # Code
      BY <1>5, FrameBound DEF Code
    <3> QED BY <1>3, <3>1, Numbers DEF ProgramTable
  <2>2. U[Code].user /\ U[Code].frame = n
    BY <2>1 DEF Entry
  <2>3. mem'[n] = Program
    BY <1>3, <1>4 DEF ExecutedMem
  <2> QED BY <1>11, <2>1, <2>2, <2>3 DEF At
<1>15. n + 3 \in Pages
  BY <1>5, FrameBound DEF Pages, Fixed
<1>16. \E a \in Pages : \A v \in Pages : Space'[p][v] # None <=> v \in {Code, a} \union StackPages
  BY <1>13, <1>15
<1> HIDE DEF Live
<1> QED BY <1>6, <1>7, <1>14, <1>16 DEF Private!Exec, Private!Alone, Space

\* What mmap does when the memory map of p ends.
MmapDone(p, v) ==
    /\ status[p] = "live" /\ UNCHANGED status /\ v \in Pages /\ v # Cell
    /\ tables'[p][v].user /\ \A w \in Pages : w # v => tables'[p][w] = tables[p][w]
    /\ tables'[p][v].frame = next /\ next <= next'
    /\ \A q \in Procs : q # p => tables'[q] = tables[q]
    /\ mem'[tables[p][Cell].frame] = 1
    /\ \A g \in Frames : g # tables[p][Cell].frame => mem'[g] = mem[g]

LEMMA MmapDoes ==
    ASSUME SpaceInv, NEW p \in Procs, NEW addr \in {0} \union Pages, NEW write \in BOOLEAN, mmap(p, addr, write),
           ~ \E why \in Reasons : Stops(why)
    PROVE  \E v : MmapDone(p, v)
<1>0. mmap(p, addr, write) /\ ~ Lost(p) /\ ~ Stops("taken")
  BY DEF Lost, Reasons
<1>1. PICK v, n : n = next /\ v = IF addr = 0 THEN next ELSE addr
  OBVIOUS
<1>2. PICK T, t, U, cell : /\ T = tables[p] /\ t = TRUE /\ U = mmu_map_table(tables[p], v, n, 1, write, t)
                           /\ cell = tables[p][Cell].frame
  OBVIOUS
<1>3. PICK m, y : m = Machine([tables EXCEPT ![p] = U], mem) /\ y = Return(m, p, 1)
  OBVIOUS
<1>4. tables \in [Procs -> TableSet] /\ mem \in [Frames -> Values] /\ next \in 4 .. MaxFrames + 1
  BY DEF SpaceInv, SpaceTypes
<1>5. n <= MaxFrames /\ Apply(y) /\ UNCHANGED status /\ status[p] = "live" /\ v \notin Relied(p) /\ next' = n + 1
  <2>1. m = Machine([tables EXCEPT ![p] = mmu_map_table(@, v, next, 1, write, TRUE)], mem)
    BY <1>1, <1>2, <1>3, <1>4
  <2> QED BY <1>0, <1>1, <1>3, <2>1 DEF mmap, Runs
<1>6. n \in Frames /\ v \in Pages /\ v # Cell
  <2>1. n \in Nat /\ n >= 4
    BY <1>1, <1>4
  <2>2. v # Cell
    BY <1>5 DEF Relied, StackPages
  <2> QED BY <1>1, <1>5, <2>1, <2>2, FreePages
<1>7. U \in TableSet /\ U = [T EXCEPT ![v] = Entry(n, write, t)]
  <2>1. Entry(n, write, t) \in EntrySet
    BY <1>2, <1>6, Numbers DEF Entry, EntrySet
  <2>2. U = mmu_map_table(T, v, n, 1, write, t) /\ T \in TableSet
    BY <1>2, <1>4
  <2> QED BY <1>6, <2>1, <2>2, MapFacts
<1>8. U[v].user /\ U[v].frame = n /\ \A w \in Pages : w # v => U[w] = T[w]
  <2>1. Entry(n, write, t).user /\ Entry(n, write, t).frame = n /\ T \in TableSet
    BY <1>2, <1>4 DEF Entry
  <2> QED BY <1>6, <1>7, <2>1 DEF TableSet
<1>9. IsMachine(m) /\ m.tabs[p] = U /\ m.mem = mem /\ \A q \in Procs : q # p => m.tabs[q] = tables[q]
  BY <1>3, <1>4, <1>7 DEF IsMachine, Machine
<1>10. IsMachine(y) /\ y.tabs = m.tabs /\ Written(y, m, m.tabs[p][Cell].frame, 1)
  <2>1. IsMachine(m) /\ 1 \in Values
    BY <1>9 DEF Values
  <2> QED BY <1>3, <2>1, ReturnFacts
<1>11. tables' = y.tabs /\ mem' = y.mem
  BY <1>5, <1>10, Applied
<1>12. m.tabs[p][Cell].frame = cell /\ cell \in Frames
  <2>1. Cell \in Pages /\ cell \in Frames
    BY <1>2, <1>5, LiveFacts
  <2> QED BY <1>2, <1>6, <1>8, <1>9, <2>1
<1>13. mem'[cell] = 1 /\ \A g \in Frames : g # cell => mem'[g] = mem[g]
  BY <1>9, <1>10, <1>11, <1>12 DEF Written
<1>14. tables'[p] = U /\ \A q \in Procs : q # p => tables'[q] = tables[q]
  BY <1>9, <1>10, <1>11
<1>15. tables'[p][v].user /\ \A w \in Pages : w # v => tables'[p][w] = tables[p][w]
  <2>1. T = tables[p]
    BY <1>2
  <2> QED BY <1>8, <1>14, <2>1
<1>16. mem'[tables[p][Cell].frame] = 1 /\ \A g \in Frames : g # tables[p][Cell].frame => mem'[g] = mem[g]
  <2>1. cell = tables[p][Cell].frame
    BY <1>2
  <2> QED BY <1>13, <2>1
<1>17. tables'[p][v].frame = next /\ next <= next'
  BY <1>1, <1>4, <1>5, <1>8, <1>14
<1>18. MmapDone(p, v)
  BY <1>5, <1>6, <1>14, <1>15, <1>16, <1>17 DEF MmapDone
<1> QED BY <1>18

LEMMA StopsStutters ==
    ASSUME NEW why, Stops(why)
    PROVE  Live' = Live /\ Space' = Space
BY DEF Stops, Live, Space

LEMMA MmapIsMap ==
    ASSUME SpaceInv, SpaceInv', NEW p \in Procs, NEW addr \in {0} \union Pages, NEW write \in BOOLEAN,
           mmap(p, addr, write), ~ \E why \in Reasons : Stops(why)
    PROVE  Private!Map(p)
<1>1. PICK v : MmapDone(p, v)
  BY MmapDoes
<1>2. status[p] = "live" /\ status' = status /\ v \in Pages /\ v # Cell /\ Live' = Live
  BY <1>1 DEF MmapDone, Live
<1>3. /\ tables'[p][v].user /\ \A w \in Pages : w # v => tables'[p][w] = tables[p][w]
      /\ \A q \in Procs : q # p => tables'[q] = tables[q]
  BY <1>1 DEF MmapDone
<1>4. PICK cell : cell = tables[p][Cell].frame
  OBVIOUS
<1>5. mem'[cell] = 1 /\ \A g \in Frames : g # cell => mem'[g] = mem[g]
  BY <1>1, <1>4 DEF MmapDone
<1>6. Cell \in Pages /\ tables[p][Cell].user /\ Cell # arguments[p]
  BY <1>2, LiveFacts
<1>7. ASSUME NEW q \in Procs, q # p PROVE Space'[q] = Space[q]
  <2>1. ASSUME NEW w \in Pages, status[q] = "live", tables[q][w].user
        PROVE  mem'[tables[q][w].frame] = mem[tables[q][w].frame]
    <3>1. tables[q][w].frame \in Frames
      BY <2>1, LiveFacts
    <3>2. tables[p][Cell].frame # tables[q][w].frame
      BY <1>2, <1>6, <1>7, <2>1, LiveFacts
    <3> QED BY <1>4, <1>5, <3>1, <3>2
  <2>2. status[q] = "live" => \A w \in Pages : tables[q][w].user => mem'[tables[q][w].frame] = mem[tables[q][w].frame]
    BY <2>1
  <2>3. status'[q] = status[q] /\ tables'[q] = tables[q]
    BY <1>2, <1>3, <1>7
  <2> QED BY <2>2, <2>3, SpaceSame
<1>8. \A w \in Pages : /\ Space[p][w] = At("live", tables[p], mem, w)
                       /\ Space'[p][w] = At("live", tables'[p], mem', w)
  BY <1>2, SpaceIs
<1>9. Space'[p][Cell] = 1
  <2>1. tables'[p][Cell] = tables[p][Cell]
    BY <1>2, <1>3, <1>6
  <2> QED BY <1>4, <1>5, <1>6, <1>8, <2>1 DEF At
<1>10. ASSUME NEW w \in Pages, w # v, w # Cell PROVE Space'[p][w] = Space[p][w]
  <2>1. tables'[p][w] = tables[p][w]
    BY <1>3, <1>10
  <2>2. ASSUME tables[p][w].user PROVE mem'[tables[p][w].frame] = mem[tables[p][w].frame]
    <3>1. tables[p][w].frame \in Frames /\ tables[p][w].frame # tables[p][Cell].frame
      BY <1>2, <1>6, <1>10, <2>2, LiveFacts
    <3> QED BY <1>4, <1>5, <3>1
  <2>3. At("live", tables'[p], mem', w) = At("live", tables[p], mem, w)
    BY <2>1, <2>2 DEF At
  <2> QED BY <1>8, <2>3
<1>11. Space'[p][v] \in Values
  <2>1. PICK U, S : U = tables'[p] /\ S = mem'
    OBVIOUS
  <2>2. U[v] \in EntrySet /\ S \in [Frames -> Values]
    BY <1>2, <2>1 DEF SpaceInv, SpaceTypes, TableSet
  <2>3. U[v].frame \in Frames
    <3>1. status'[p] = "live"
      BY <1>2
    <3>2. UserPart(tables'[p], maps'[p], arguments'[p], next') /\ next' \in 4 .. MaxFrames + 1
      BY <3>1 DEF SpaceInv, SpaceTypes
    <3>3. U[v].frame \in 2 .. next' - 1
      BY <1>2, <1>3, <2>1, <3>2 DEF UserPart
    <3> QED BY <3>2, <3>3, FrameBound DEF Frames
  <2>4. Space'[p][v] = S[U[v].frame]
    BY <1>2, <1>3, <1>8, <2>1 DEF At
  <2> QED BY <2>2, <2>3, <2>4
<1> HIDE DEF Live
<1> QED BY <1>2, <1>7, <1>9, <1>10, <1>11 DEF Private!Map, Private!Alone, Private!Changed, Space

\* The child has what its parent had, but for the result.
LEMMA ChildSpace ==
    ASSUME NEW T \in TableSet, NEW M \in Seq(MapEntry), NEW a, NEW n \in Nat, n >= 4, UserPart(T, M, a, n),
           NEW U \in TableSet, ChildTable(U, T, M, n), NEW L, ChildMap(L, M, n), NEW o, UserPart(U, L, a, o),
           Fresh(U, T, a, n), NEW S, NEW R, ForkedMem(S, R, T, M, n)
    PROVE  /\ \A v \in Pages : U[v].user <=> T[v].user
           /\ U[Cell].frame = n /\ S[n] = 0
           /\ \A v \in Pages : T[v].user /\ v # Cell => S[U[v].frame] = R[T[v].frame]
<1>1. /\ \A v \in Pages : T[v].user <=> (v = a \/ v \in StackPages \/ \E k \in DOMAIN M : M[k].virt = v)
      /\ \A v \in Pages : U[v].user <=> (v = a \/ v \in StackPages \/ \E k \in DOMAIN L : L[k].virt = v)
  BY DEF UserPart
<1>2. DOMAIN L = DOMAIN M /\ \A k \in DOMAIN M : L[k].virt = M[k].virt
  BY DEF ChildMap
<1>3. \A v \in Pages : U[v].user <=> T[v].user
  BY <1>1, <1>2
<1>4. U[Cell].frame = n /\ S[n] = 0 /\ U[Top].frame = n + 1 /\ S[n + 1] = R[T[Top].frame]
  BY DEF ChildTable, ForkedMem, Entry
<1>5. ASSUME NEW v \in Pages, T[v].user, v # Cell PROVE S[U[v].frame] = R[T[v].frame]
  <2>1. CASE v = a
    <3>1. Cell \in Pages /\ T[Cell].user
      BY <1>1, Numbers DEF StackPages
    <3>2. T[v].frame # T[Cell].frame /\ T[v].frame \in 2 .. n - 1
      BY <1>5, <3>1 DEF UserPart
    <3>3. U[v].frame = T[v].frame
      BY <2>1 DEF Fresh
    <3>4. T[v].frame \in 1 .. n - 1
      BY <3>2
    <3> QED BY <3>2, <3>3, <3>4 DEF ForkedMem
  <2>2. CASE v = Top
    BY <1>4, <2>2
  <2>3. CASE \E k \in DOMAIN M : M[k].virt = v
    <3>1. PICK k \in 1 .. Len(M) : M[k].virt = v
      BY <2>3
    <3>2. PICK j \in 1 .. Len(M) : M[j].virt = M[k].virt /\ U[M[k].virt] = Entry(n + 2 + j - 1, TRUE, TRUE)
      BY DEF ChildTable
    <3>3. U[v].frame = n + 2 + j - 1
      BY <3>1, <3>2 DEF Entry
    <3>4. S[n + 2 + j - 1] = R[T[M[j].virt].frame]
      BY DEF ForkedMem
    <3> QED BY <3>1, <3>2, <3>3, <3>4
  <2> QED BY <1>1, <1>5, <2>1, <2>2, <2>3 DEF StackPages
<1> QED BY <1>3, <1>4, <1>5

\* What fork does when the memory map of p ends.
ForkDone(p, c) ==
    /\ status[p] = "live" /\ status[c] = "none" /\ p # c /\ status' = [status EXCEPT ![c] = "live"]
    /\ \A q \in Procs : q # c => tables'[q] = tables[q]
    /\ ChildTable(tables'[c], tables[p], maps[p], next) /\ ChildMap(maps'[c], maps[p], next)
    /\ arguments'[c] = arguments[p] /\ next' = next + Len(maps[p]) + 2 /\ next' - 1 <= MaxFrames
    /\ ForkedMem(mem', mem, tables[p], maps[p], next)

LEMMA ForkDoes ==
    ASSUME SpaceInv, NEW p \in Procs, fork(p), ~ Lost(p)
    PROVE  \E c \in Procs : ForkDone(p, c)
<1>1. PICK c \in Procs :
           /\ status[c] = "none"
           /\ next + Len(maps[p]) + 1 <= MaxFrames
           /\ Apply(Forked(p, c))
           /\ maps' = [maps EXCEPT ![c] = CopiedMap(p, next + 2)]
           /\ arguments' = [arguments EXCEPT ![c] = arguments[p]]
           /\ next' = next + Len(maps[p]) + 2
           /\ status' = [status EXCEPT ![c] = "live"]
  BY DEF fork
<1>2. status[p] = "live" /\ p # c
  BY <1>1 DEF fork, Runs
<1>3. PICK y : y = Forked(p, c)
  OBVIOUS
<1>4. /\ IsMachine(y) /\ \A q \in Procs : q # c => y.tabs[q] = tables[q]
      /\ ChildTable(y.tabs[c], tables[p], maps[p], next) /\ ForkedMem(y.mem, mem, tables[p], maps[p], next)
  BY <1>1, <1>2, <1>3, ForkedFacts
<1>5. tables' = y.tabs /\ mem' = y.mem
  <2>1. Apply(y) /\ IsMachine(y)
    BY <1>1, <1>3, <1>4
  <2> QED BY <2>1, Applied
<1>6. DOMAIN maps = Procs /\ DOMAIN arguments = Procs /\ next \in Nat /\ Len(maps[p]) \in Nat
  BY DEF SpaceInv, SpaceTypes
<1>7. ChildMap(maps'[c], maps[p], next) /\ arguments'[c] = arguments[p]
  BY <1>1, <1>6 DEF CopiedMap, ChildMap
<1>8. next' - 1 <= MaxFrames
  <2>1. next' = next + Len(maps[p]) + 2 /\ next + Len(maps[p]) + 1 <= MaxFrames
    BY <1>1
  <2> QED BY <1>6, <2>1, FrameBound
<1>9. ForkDone(p, c)
  BY <1>1, <1>2, <1>4, <1>5, <1>7, <1>8 DEF ForkDone
<1> QED BY <1>9

LEMMA ForkIsFork ==
    ASSUME SpaceInv, SpaceInv', NEW p \in Procs, fork(p), ~ Lost(p)
    PROVE  Private!Fork(p)
<1>1. PICK c \in Procs : ForkDone(p, c)
  BY ForkDoes
<1>2. PICK T, M, a, n, o, U, L, S, R :
          /\ T = tables[p] /\ M = maps[p] /\ a = arguments[p] /\ n = next /\ o = next'
          /\ U = tables'[c] /\ L = maps'[c] /\ S = mem' /\ R = mem
  OBVIOUS
<1>3. /\ status[p] = "live" /\ p # c /\ status'[c] = "live" /\ c \notin Live /\ Live' = Live \union {c}
      /\ \A q \in Procs : q # c => status'[q] = status[q] /\ tables'[q] = tables[q]
  BY <1>1 DEF ForkDone, Live, SpaceInv, SpaceTypes
<1>4. T \in TableSet /\ M \in Seq(MapEntry) /\ n \in Nat /\ n >= 4 /\ U \in TableSet
  BY <1>2 DEF SpaceInv, SpaceTypes
<1>5. UserPart(T, M, a, n) /\ UserPart(U, L, a, o)
  <2>1. arguments'[c] = a
    BY <1>1, <1>2 DEF ForkDone
  <2>2. UserPart(tables'[c], maps'[c], arguments'[c], next')
    BY <1>3 DEF SpaceInv
  <2>3. UserPart(tables[p], maps[p], arguments[p], next)
    BY <1>3 DEF SpaceInv
  <2> QED BY <1>2, <2>1, <2>2, <2>3
<1>6. ChildTable(U, T, M, n) /\ ChildMap(L, M, n) /\ ForkedMem(S, R, T, M, n)
  BY <1>1, <1>2 DEF ForkDone
<1>7. Fresh(U, T, a, n)
  <2>1. o = n + Len(M) + 2 /\ o - 1 <= MaxFrames
    BY <1>1, <1>2 DEF ForkDone
  <2>2. KernelPart(T, n)
    BY <1>2, <1>3 DEF SpaceInv
  <2> QED BY <1>4, <1>5, <1>6, <2>1, <2>2, ChildPart
<1>8. /\ \A v \in Pages : U[v].user <=> T[v].user
      /\ U[Cell].frame = n /\ S[n] = 0
      /\ \A v \in Pages : T[v].user /\ v # Cell => S[U[v].frame] = R[T[v].frame]
  BY <1>4, <1>5, <1>6, <1>7, ChildSpace
<1>9. Cell \in Pages /\ T[Cell].user /\ Cell # a
  BY <1>2, <1>3, LiveFacts
<1>10. S[T[Cell].frame] = 1 /\ \A g \in 1 .. n - 1 : g # T[Cell].frame => S[g] = R[g]
  BY <1>6 DEF ForkedMem
<1>11. /\ Space[p] = [v \in Pages |-> At("live", T, R, v)]
       /\ Space'[p] = [v \in Pages |-> At("live", T, S, v)]
       /\ Space'[c] = [v \in Pages |-> At("live", U, S, v)]
  BY <1>2, <1>3, SpaceIs
<1>12. Space'[c] = [Space[p] EXCEPT ![Cell] = 0]
  <2>1. At("live", U, S, Cell) = 0
    BY <1>8, <1>9 DEF At
  <2>2. \A v \in Pages : v # Cell => At("live", U, S, v) = At("live", T, R, v)
    BY <1>8 DEF At
  <2> QED BY <1>9, <1>11, <2>1, <2>2
<1>13. Space'[p] = [Space[p] EXCEPT ![Cell] = 1]
  <2>1. At("live", T, S, Cell) = 1
    BY <1>9, <1>10 DEF At
  <2>2. ASSUME NEW v \in Pages, v # Cell PROVE At("live", T, S, v) = At("live", T, R, v)
    <3>1. T[v].user => T[v].frame \in 1 .. n - 1 /\ T[v].frame # T[Cell].frame
      BY <1>2, <1>3, <1>9, <2>2, LiveFacts
    <3> QED BY <1>10, <3>1 DEF At
  <2> QED BY <1>9, <1>11, <2>1, <2>2
<1>14. ASSUME NEW q \in Procs, q # p, q # c PROVE Space'[q] = Space[q]
  <2>1. ASSUME NEW w \in Pages, status[q] = "live", tables[q][w].user
        PROVE  mem'[tables[q][w].frame] = mem[tables[q][w].frame]
    <3>1. tables[q][w].frame \in 1 .. n - 1
      BY <1>2, <2>1, LiveFacts
    <3>2. T[Cell].frame # tables[q][w].frame
      BY <1>2, <1>3, <1>9, <1>14, <2>1, LiveFacts
    <3>3. S = mem' /\ R = mem
      BY <1>2
    <3> QED BY <1>10, <3>1, <3>2, <3>3
  <2>2. status[q] = "live" => \A w \in Pages : tables[q][w].user => mem'[tables[q][w].frame] = mem[tables[q][w].frame]
    BY <2>1
  <2>3. status'[q] = status[q] /\ tables'[q] = tables[q]
    BY <1>3, <1>14
  <2> QED BY <2>2, <2>3, SpaceSame
<1>15. Space' = [Space EXCEPT ![c] = [Space[p] EXCEPT ![Cell] = 0], ![p][Cell] = 1]
  <2>1. PICK A, B : A = Space /\ B = Space'
    OBVIOUS
  <2>2. A = [q \in Procs |-> A[q]] /\ B = [q \in Procs |-> B[q]]
    BY <2>1 DEF Space
  <2>3. /\ B[c] = [A[p] EXCEPT ![Cell] = 0] /\ B[p] = [A[p] EXCEPT ![Cell] = 1]
        /\ \A q \in Procs : q # p /\ q # c => B[q] = A[q]
    BY <1>12, <1>13, <1>14, <2>1
  <2>4. B = [A EXCEPT ![c] = [A[p] EXCEPT ![Cell] = 0], ![p][Cell] = 1]
    BY <1>3, <2>2, <2>3
  <2> QED BY <2>1, <2>4
<1> HIDE DEF Live
<1> QED BY <1>3, <1>15 DEF Private!Fork, Space

\* Every step is one that Memory allows, if no program writes to its arguments.
LEMMA StepRefines ==
    ASSUME ~StoresArguments, SpaceInv, SpaceInv', [Next]_vars
    PROVE  [Private!Next]_<<Live, Space>>
<1> SUFFICES Private!Next \/ (Live' = Live /\ Space' = Space)
  OBVIOUS
<1>1. CASE UNCHANGED vars
  BY <1>1 DEF vars, Live, Space
<1>2. ASSUME NEW p \in Procs, fork(p) PROVE Private!Next \/ (Live' = Live /\ Space' = Space)
  <2>1. p \in Live
    BY <1>2 DEF fork, Runs, Live
  <2>2. CASE Lost(p)
    BY <2>2, StopsStutters DEF Lost
  <2>3. CASE ~ Lost(p)
    <3>1. Private!Fork(p)
      BY <1>2, <2>3, ForkIsFork
    <3> QED BY <2>1, <3>1 DEF Private!Next
  <2> QED BY <2>2, <2>3
<1>3. ASSUME NEW p \in Procs, execve(p) PROVE Private!Next
  BY <1>3, ExecIsExec DEF Private!Next
<1>4. ASSUME NEW p \in Procs, ExecFails(p) PROVE Private!Next
  <2>1. p \in Live /\ Private!Store(p)
    BY <1>4, ExecFailsIsStore DEF ExecFails, Runs, Live
  <2> QED BY <2>1 DEF Private!Next
<1>5. ASSUME NEW p \in Procs, munmap(p) PROVE Private!Next
  <2>1. p \in Live /\ Private!Store(p)
    BY <1>5, MunmapIsStore DEF munmap, Runs, Live
  <2> QED BY <2>1 DEF Private!Next
<1>6. ASSUME NEW p \in Procs, exit(p) PROVE Private!Next
  <2>1. p \in Live /\ Private!End(p)
    BY <1>6, ExitIsEnd DEF exit, Runs, Live
  <2> QED BY <2>1 DEF Private!Next
<1>7. ASSUME NEW p \in Procs, handle_exception(p) PROVE Private!Next
  BY <1>6, <1>7 DEF handle_exception
<1>8. ASSUME NEW p \in Procs, proc_destroy(p) PROVE Live' = Live /\ Space' = Space
  BY <1>8, DestroyStutters
<1>9. ASSUME NEW p \in Procs, NEW r \in Requests, mmap(p, r[1], r[2])
      PROVE  Private!Next \/ (Live' = Live /\ Space' = Space)
  <2>1. p \in Live /\ r[1] \in {0} \union Pages /\ r[2] \in BOOLEAN
    BY <1>9, CallsBound DEF mmap, Runs, Live
  <2>2. CASE \E why \in Reasons : Stops(why)
    BY <2>2, StopsStutters
  <2>3. CASE ~ \E why \in Reasons : Stops(why)
    <3>1. Private!Map(p)
      BY <1>9, <2>1, <2>3, MmapIsMap
    <3> QED BY <2>1, <3>1 DEF Private!Next
  <2> QED BY <2>2, <2>3
<1>10. ASSUME NEW p \in Procs, NEW v \in UserPages(p), NEW x \in {0, 1}, Store(p, v, x) PROVE Private!Next
  <2>1. p \in Live /\ Private!Store(p)
    BY <1>10, StoreIsStore DEF Store, Runs, Live
  <2> QED BY <2>1 DEF Private!Next
<1>11. ASSUME NEW p \in Procs, NoMemory(p) PROVE Live' = Live /\ Space' = Space
  BY <1>11, StopsStutters DEF NoMemory
<1>12. ASSUME NEW p \in Procs, NEW v \in UserPages(p), StoreBeside(p, v) PROVE Live' = Live /\ Space' = Space
  BY <1>12, StopsStutters DEF StoreBeside
<1> QED BY <1>1, <1>2, <1>3, <1>4, <1>5, <1>6, <1>7, <1>8, <1>9, <1>10, <1>11, <1>12 DEF Next

\* fork, execve, mmap, munmap, exit and what programs store keep the promise of a memory per
\* process: a store changes one page of its process, the child of fork has a copy of its
\* parent's memory, execve leaves nothing of the program before.  It is so for any number of
\* processes and frames, and whatever pages programs ask mmap for, as long as no program
\* writes to its page of arguments, the one page that fork does not copy; and until memory is
\* exhausted, or a program takes an address that the kernel relies on, or stores beside a
\* segment that fork copied.
THEOREM MemoryPromised == ~StoresArguments /\ Spec => MemoryKept
<1> SUFFICES ASSUME ~StoresArguments PROVE Spec => MemoryKept
  OBVIOUS
<1>1. Init => Private!Init
  <2> SUFFICES ASSUME Init PROVE Private!Init
    OBVIOUS
  <2>1. Live = {}
    BY DEF Init, Live
  <2> HIDE DEF Live
  <2> QED BY <2>1 DEF Private!Init, Private!Empty
<1>2. SpaceInv /\ SpaceInv' /\ [Next]_vars => [Private!Next]_<<Live, Space>>
  BY StepRefines
<1> QED BY <1>1, <1>2, SpaceInvariant, PTL DEF Spec, MemoryKept, Private!Spec, Space
-----------------------------------------------------------------------------
(* Pages that hold bytes of others.                                          *)

\* The segment is the first entry of the memory map M, and the only page of table T in a
\* frame of D.
SegmentFirst(T, M, D) ==
    /\ 1 \in DOMAIN M /\ M[1].virt = Code
    /\ \A v \in Pages : T[v].user /\ T[v].frame \in D => v = Code

MixedInv ==
    /\ mixed \subseteq 2 .. next - 1
    /\ \A p \in Procs : status[p] = "live" => SegmentFirst(tables[p], maps[p], mixed)

Kept(q) == status'[q] = "live" => status[q] = "live" /\ tables'[q] = tables[q] /\ maps'[q] = maps[q]

LEMMA Disjoint ==
    ASSUME NEW n \in Nat, NEW o \in Nat PROVE \A f : f \in 2 .. n - 1 => f \notin n .. o - 1
OBVIOUS

\* What is mixed was handed out in this step or was mixed before; only process c can have
\* got it.
LEMMA OneMixed ==
    ASSUME SpaceInv, SpaceInv', MixedInv, NEW c \in Procs, \A q \in Procs : q # c => Kept(q), next <= next',
           mixed' \subseteq mixed \union (next .. next' - 1),
           status'[c] = "live" => Kept(c) \/ SegmentFirst(tables'[c], maps'[c], mixed')
    PROVE  MixedInv'
<1>1. next \in Nat /\ next >= 4 /\ next' \in Nat
  BY DEF SpaceInv, SpaceTypes
<1>2. mixed' \subseteq 2 .. next' - 1
  BY <1>1 DEF MixedInv
<1>3. ASSUME NEW q \in Procs, status'[q] = "live", Kept(q)
      PROVE  SegmentFirst(tables'[q], maps'[q], mixed')
  <2>1. status[q] = "live" /\ tables'[q] = tables[q] /\ maps'[q] = maps[q]
    BY <1>3 DEF Kept
  <2>2. SegmentFirst(tables[q], maps[q], mixed) /\ UserPart(tables[q], maps[q], arguments[q], next)
    BY <2>1 DEF MixedInv, SpaceInv
  <2>3. ASSUME NEW v \in Pages, tables[q][v].user, tables[q][v].frame \in mixed' PROVE v = Code
    <3>1. PICK f : f = tables[q][v].frame
      OBVIOUS
    <3>2. f \in 2 .. next - 1 /\ f \in mixed'
      BY <2>2, <2>3, <3>1 DEF UserPart
    <3>3. f \in mixed
      <4>1. f \in mixed \/ f \in next .. next' - 1
        BY <3>2
      <4>2. f \in 2 .. next - 1 => f \notin next .. next' - 1
        BY <1>1, Disjoint
      <4> QED BY <3>2, <4>1, <4>2
    <3> QED BY <2>2, <2>3, <3>1, <3>3 DEF SegmentFirst
  <2> QED BY <2>1, <2>2, <2>3 DEF SegmentFirst
<1>4. ASSUME NEW q \in Procs, status'[q] = "live" PROVE SegmentFirst(tables'[q], maps'[q], mixed')
  BY <1>3, <1>4
<1> QED BY <1>2, <1>4 DEF MixedInv

\* Nobody gets another page.
LEMMA SameMixed ==
    ASSUME SpaceInv, SpaceInv', MixedInv, next <= next', mixed' = mixed, \A q \in Procs : Kept(q)
    PROVE  MixedInv'
BY Numbers, OneMixed

LEMMA StopsMixed ==
    ASSUME SpaceInv, SpaceInv', MixedInv, NEW why, Stops(why) PROVE MixedInv'
<1>1. next <= next' /\ mixed' = mixed /\ \A q \in Procs : Kept(q)
  BY DEF Stops, Kept, SpaceInv, SpaceTypes
<1> QED BY <1>1, SameMixed

LEMMA ExecMixed ==
    ASSUME SpaceInv, SpaceInv', MixedInv, NEW p \in Procs, execve(p) PROVE MixedInv'
<1>1. /\ Others(p) /\ next <= next'
      /\ \A v \in Pages : tables'[p][v].user => tables'[p][v].frame >= next
  BY ExecKeeps
<1>2. mixed' = mixed /\ maps'[p] = << [virt |-> Code, phys |-> next] >> /\ next \in Nat
  BY DEF execve, SpaceInv, SpaceTypes
<1>3. ASSUME NEW v \in Pages, tables'[p][v].user PROVE tables'[p][v].frame \notin mixed'
  <2>1. PICK f : f = tables'[p][v].frame
    OBVIOUS
  <2>2. f >= next
    BY <1>1, <1>3, <2>1, Zenon
  <2>3. f \notin mixed
    <3>1. f \notin 2 .. next - 1
      BY <1>2, <2>2
    <3> QED BY <3>1 DEF MixedInv
  <2> QED BY <1>2, <2>1, <2>3
<1>4. 1 \in DOMAIN maps'[p] /\ maps'[p][1].virt = Code
  BY <1>2
<1>5. SegmentFirst(tables'[p], maps'[p], mixed')
  BY <1>3, <1>4 DEF SegmentFirst
<1>6. \A q \in Procs : q # p => Kept(q)
  BY <1>1 DEF Others, Kept
<1> QED BY <1>1, <1>2, <1>5, <1>6, OneMixed

LEMMA MmapMixed ==
    ASSUME SpaceInv, SpaceInv', MixedInv, NEW p \in Procs, NEW addr \in {0} \union Pages, NEW write \in BOOLEAN,
           mmap(p, addr, write)
    PROVE  MixedInv'
<1>1. CASE \E why \in Reasons : Stops(why)
  BY <1>1, StopsMixed
<1>2. CASE ~ \E why \in Reasons : Stops(why)
  <2>1. PICK v : MmapDone(p, v)
    BY <1>2, MmapDoes
  <2>2. /\ status[p] = "live" /\ status' = status /\ next <= next' /\ tables'[p][v].frame = next
        /\ \A w \in Pages : w # v => tables'[p][w] = tables[p][w]
        /\ \A q \in Procs : q # p => tables'[q] = tables[q]
    BY <2>1 DEF MmapDone
  <2>3. PICK e : mixed' = mixed /\ maps' = [maps EXCEPT ![p] = Append(@, e)]
    BY <1>2 DEF mmap, Lost, Reasons, mm_proc_mmap_add
  <2>4. maps[p] \in Seq(MapEntry) /\ DOMAIN maps = Procs /\ next \in Nat
    BY DEF SpaceInv, SpaceTypes
  <2>5. SegmentFirst(tables[p], maps[p], mixed)
    BY <2>2 DEF MixedInv
  <2>6. 1 \in DOMAIN maps'[p] /\ maps'[p][1].virt = Code
    <3>1. PICK M : M = maps[p] /\ M \in Seq(MapEntry) /\ 1 \in DOMAIN M /\ M[1].virt = Code
      BY <2>4, <2>5 DEF SegmentFirst
    <3>2. maps'[p] = Append(M, e)
      BY <2>3, <2>4, <3>1
    <3>3. 1 \in DOMAIN Append(M, e) /\ Append(M, e)[1] = M[1]
      BY <3>1
    <3> QED BY <3>1, <3>2, <3>3
  <2>7. next \notin mixed
    BY <2>4 DEF MixedInv
  <2>8. \A w \in Pages : tables'[p][w].user /\ tables'[p][w].frame \in mixed' => w = Code
    BY <2>2, <2>3, <2>5, <2>7 DEF SegmentFirst
  <2>9. SegmentFirst(tables'[p], maps'[p], mixed')
    BY <2>6, <2>8 DEF SegmentFirst
  <2>10. \A q \in Procs : q # p => Kept(q)
    BY <2>2, <2>3, <2>4 DEF Kept
  <2> QED BY <2>2, <2>3, <2>9, <2>10, OneMixed
<1> QED BY <1>1, <1>2

\* The child's segment is the one page of its own that is mixed: the frame before it is that
\* of the stack, the next one that of the entry after it.
LEMMA ForkMixed ==
    ASSUME SpaceInv, SpaceInv', MixedInv, NEW p \in Procs, fork(p) PROVE MixedInv'
<1>1. CASE Lost(p)
  BY <1>1, StopsMixed DEF Lost
<1>2. CASE ~ Lost(p)
  <2>1. PICK c \in Procs : ForkDone(p, c)
    BY <1>2, ForkDoes
  <2>2. PICK T, U, M, L, a, n : /\ T = tables[p] /\ U = tables'[c] /\ M = maps[p] /\ L = maps'[c]
                                /\ a = arguments[p] /\ n = next
    OBVIOUS
  <2>3. /\ T \in TableSet /\ U \in TableSet /\ M \in Seq(MapEntry) /\ n \in Nat /\ n >= 4
        /\ status[p] = "live" /\ UserPart(T, M, a, n) /\ KernelPart(T, n)
    <3>1. T \in TableSet /\ U \in TableSet /\ M \in Seq(MapEntry) /\ n \in Nat /\ n >= 4
      BY <2>2 DEF SpaceInv, SpaceTypes
    <3>2. status[p] = "live"
      BY <2>1 DEF ForkDone
    <3>3. UserPart(T, M, a, n) /\ KernelPart(T, n)
      BY <2>2, <3>2 DEF SpaceInv
    <3> QED BY <3>1, <3>2, <3>3
  <2>4. /\ ChildTable(U, T, M, n) /\ ChildMap(L, M, n) /\ next' = n + Len(M) + 2 /\ next' - 1 <= MaxFrames
        /\ status' = [status EXCEPT ![c] = "live"] /\ \A q \in Procs : q # c => tables'[q] = tables[q]
    BY <2>1, <2>2 DEF ForkDone
  <2>5. mixed' \subseteq mixed \union {n + 2} /\ \A q \in Procs : q # c => maps'[q] = maps[q]
    <3>1. PICK d \in Procs : /\ status' = [status EXCEPT ![d] = "live"] /\ status[d] = "none"
                             /\ maps' = [maps EXCEPT ![d] = CopiedMap(p, next + 2)]
                             /\ mixed' = mixed \union MixedBy(next + 2)
      BY <1>2 DEF fork
    <3>2. DOMAIN status = Procs /\ DOMAIN maps = Procs
      BY DEF SpaceInv, SpaceTypes
    <3>3. status'[d] = "live" /\ (d # c => status'[d] = status[d])
      BY <2>4, <3>1, <3>2
    <3>4. d = c
      BY <3>1, <3>3
    <3> QED BY <2>2, <3>1, <3>2, <3>4 DEF MixedBy
  <2>6. Fresh(U, T, a, n) /\ UserPart(U, L, a, next')
    BY <2>3, <2>4, ChildPart
  <2>7. SegmentFirst(T, M, mixed)
    BY <2>2, <2>3 DEF MixedInv
  <2>8. 1 \in DOMAIN L /\ L[1].virt = Code
    BY <2>4, <2>7 DEF SegmentFirst, ChildMap
  <2>9. ASSUME NEW v \in Pages, U[v].user, U[v].frame \in mixed' PROVE v = Code
    <3>1. mixed \subseteq 2 .. n - 1
      BY <2>2 DEF MixedInv
    <3>2. CASE v = a
      <4>1. U[v] = T[v] /\ T[v].user
        BY <2>9, <3>2, <2>6 DEF Fresh
      <4>2. T[v].frame \in 2 .. n - 1
        BY <4>1, <2>3 DEF UserPart
      <4>3. T[v].frame \in mixed
        <5>1. T[v].frame \in mixed \/ T[v].frame = n + 2
          BY <2>5, <2>9, <4>1
        <5> QED BY <2>3, <4>2, <5>1
      <4> QED BY <2>7, <4>1, <4>3 DEF SegmentFirst
    <3>3. CASE v # a
      <4>1. U[v].frame >= n
        BY <2>6, <2>9, <3>3 DEF Fresh
      <4>2. PICK f : f = U[v].frame
        OBVIOUS
      <4>3. f = n + 2
        <5>1. f \in mixed \/ f = n + 2
          BY <2>5, <2>9, <4>2
        <5>2. f \notin 2 .. n - 1
          BY <2>3, <4>1, <4>2
        <5> QED BY <3>1, <5>1, <5>2
      <4>4. U[Cell].frame = n /\ U[Top].frame = n + 1
        BY <2>4 DEF ChildTable, Entry
      <4>5. v # Cell /\ v # Top
        <5>1. n + 2 # n /\ n + 2 # n + 1
          BY <2>3
        <5> QED BY <4>2, <4>3, <4>4, <5>1, Zenon
      <4>6. PICK k \in DOMAIN L : L[k].virt = v
        BY <2>6, <2>9, <3>3, <4>5 DEF UserPart, StackPages
      <4>7. k \in 1 .. Len(M) /\ M[k].virt = v
        BY <2>3, <2>4, <4>6 DEF ChildMap
      <4>8. PICK j \in 1 .. Len(M) : M[j].virt = v /\ U[v] = Entry(n + 2 + j - 1, TRUE, TRUE)
        BY <2>4, <4>7 DEF ChildTable
      <4>9. f = n + 2 + j - 1
        BY <4>2, <4>8 DEF Entry
      <4>10. j = 1
        BY <2>3, <4>3, <4>9
      <4> QED BY <2>7, <4>8, <4>10 DEF SegmentFirst
    <3> QED BY <3>2, <3>3
  <2>10. SegmentFirst(tables'[c], maps'[c], mixed')
    <3>1. SegmentFirst(U, L, mixed')
      BY <2>8, <2>9 DEF SegmentFirst
    <3> QED BY <2>2, <3>1
  <2>11. \A q \in Procs : q # c => Kept(q)
    BY <2>4, <2>5 DEF Kept, SpaceInv, SpaceTypes
  <2>12. next <= next' /\ mixed' \subseteq mixed \union (next .. next' - 1)
    <3>1. Len(M) \in Nat /\ Len(M) >= 1
      BY <2>3, <2>7 DEF SegmentFirst
    <3>2. n + 2 \in n .. next' - 1 /\ n <= next'
      BY <2>3, <2>4, <3>1
    <3> QED BY <2>2, <2>5, <3>2
  <2> QED BY <2>10, <2>11, <2>12, OneMixed
<1> QED BY <1>1, <1>2

LEMMA StepMixed ==
    ASSUME SpaceInv, SpaceInv', MixedInv, [Next]_vars PROVE MixedInv'
<1>0. next \in Nat
  BY DEF SpaceInv, SpaceTypes
<1>1. CASE UNCHANGED vars
  BY <1>1 DEF vars, MixedInv
<1>2. ASSUME NEW p \in Procs, fork(p) PROVE MixedInv'
  BY <1>2, ForkMixed
<1>3. ASSUME NEW p \in Procs, execve(p) PROVE MixedInv'
  BY <1>3, ExecMixed
<1>4. ASSUME NEW p \in Procs, ExecFails(p) PROVE MixedInv'
  <2>1. tables' = tables /\ next <= next'
    BY <1>4, ExecFailsKeeps
  <2>2. mixed' = mixed /\ \A q \in Procs : Kept(q)
    BY <1>4, <2>1 DEF ExecFails, Kept
  <2> QED BY <2>1, <2>2, SameMixed
<1>5. ASSUME NEW p \in Procs, munmap(p) PROVE MixedInv'
  <2>1. tables' = tables /\ next <= next'
    BY <1>5, MunmapKeeps
  <2>2. mixed' = mixed /\ \A q \in Procs : Kept(q)
    BY <1>5, <2>1 DEF munmap, Kept
  <2> QED BY <2>1, <2>2, SameMixed
<1>6. ASSUME NEW p \in Procs, exit(p) PROVE MixedInv'
  <2>1. next <= next' /\ mixed' = mixed /\ \A q \in Procs : Kept(q)
    BY <1>0, <1>6 DEF exit, Kept, SpaceInv, SpaceTypes
  <2> QED BY <2>1, SameMixed
<1>7. ASSUME NEW p \in Procs, handle_exception(p) PROVE MixedInv'
  BY <1>6, <1>7 DEF handle_exception
<1>8. ASSUME NEW p \in Procs, proc_destroy(p) PROVE MixedInv'
  <2>1. next <= next' /\ mixed' = mixed /\ \A q \in Procs : Kept(q)
    BY <1>0, <1>8 DEF proc_destroy, Kept, SpaceInv, SpaceTypes
  <2> QED BY <2>1, SameMixed
<1>9. ASSUME NEW p \in Procs, NEW r \in Requests, mmap(p, r[1], r[2]) PROVE MixedInv'
  <2>1. r[1] \in {0} \union Pages /\ r[2] \in BOOLEAN
    BY CallsBound
  <2> QED BY <1>9, <2>1, MmapMixed
<1>10. ASSUME NEW p \in Procs, NEW v \in UserPages(p), NEW x \in {0, 1}, Store(p, v, x) PROVE MixedInv'
  <2>1. next <= next' /\ mixed' = mixed /\ \A q \in Procs : Kept(q)
    BY <1>0, <1>10 DEF Store, Kept
  <2> QED BY <2>1, SameMixed
<1>11. ASSUME NEW p \in Procs, NoMemory(p) PROVE MixedInv'
  BY <1>11, StopsMixed DEF NoMemory
<1>12. ASSUME NEW p \in Procs, NEW v \in UserPages(p), StoreBeside(p, v) PROVE MixedInv'
  BY <1>12, StopsMixed DEF StoreBeside
<1> QED BY <1>1, <1>2, <1>3, <1>4, <1>5, <1>6, <1>7, <1>8, <1>9, <1>10, <1>11, <1>12 DEF Next

LEMMA MixedInvariant == Spec => []MixedInv
<1>1. Init => MixedInv
  BY DEF Init, MixedInv
<1>2. SpaceInv /\ SpaceInv' /\ MixedInv /\ [Next]_vars => MixedInv'
  BY StepMixed
<1> QED BY <1>1, <1>2, SpaceInvariant, PTL DEF Spec

-----------------------------------------------------------------------------
(* The theorems.                                                             *)

\* No copy of fork or execve meets a page that is not mapped (mmu_copy_data, mmu_write_data,
\* elf_read_phdr).  In whatever table the kernel runs, it finds its own blocks and every frame
\* it will still hand out at their addresses, mapped for the kernel alone: for any number of
\* processes and frames, until a program asks mmap for an address of the kernel's, memory is
\* exhausted, or a program stores beside a segment that fork copied.
THEOREM KernelAlwaysReachable == Spec => []KernelReachable
<1>1. SpaceInv /\ MixedInv => KernelReachable
  <2> SUFFICES ASSUME SpaceInv, MixedInv PROVE KernelReachable
    OBVIOUS
  <2>1. ASSUME NEW p \in Procs, NEW v \in Pages
        PROVE  tables[p][v] \in [frame : 0 .. MaxFrames, write : BOOLEAN, user : BOOLEAN]
    BY DEF SpaceInv, SpaceTypes, TableSet, EntrySet
  <2>2. ASSUME NEW p \in Procs, NEW n \in DOMAIN maps[p] PROVE maps[p][n] \in MapEntry
    <3>1. maps[p] \in Seq(MapEntry)
      BY DEF SpaceInv, SpaceTypes
    <3> QED BY <3>1
  <2>3. mixed \subseteq Frames
    BY FrameBound DEF SpaceInv, SpaceTypes, MixedInv, Frames
  <2>4. TypeOK
    BY <2>1, <2>2, <2>3 DEF SpaceInv, SpaceTypes, Reasons, TypeOK
  <2>5. fault # "page"
    BY DEF SpaceInv, SpaceTypes, Reasons
  <2> QED BY <2>4, <2>5 DEF SpaceInv, KernelPart, KernelReachable, Used
<1> QED BY <1>1, SpaceInvariant, MixedInvariant, PTL

\* The pages of a program are its code, its stack, its arguments and what it mapped, at the
\* frames its memory map says, and no two programs share a frame but that of the arguments
\* that fork leaves to both.  Only the page of a segment that fork copied, which proc_copy_data
\* does not round to pages, has bytes of other blocks beside it.  It is so after any sequence
\* of fork, execve, mmap, exit and proc_destroy, until one of the faults is met.
THEOREM PagesOwned == Spec => []UserPagesOwned
<1>1. SpaceInv /\ MixedInv => UserPagesOwned
  <2> SUFFICES ASSUME SpaceInv, MixedInv PROVE UserPagesOwned
    OBVIOUS
  <2>1. FramesPrivate
    <3> SUFFICES ASSUME NEW p \in Live, NEW q \in Live, p # q,
                        NEW v \in UserPages(p) \ {arguments[p]}, NEW w \in UserPages(q)
                 PROVE  tables[p][v].frame # tables[q][w].frame
      BY DEF FramesPrivate, FramesOf
    <3>1. Apart(tables[p], arguments[p], tables[q])
      BY DEF SpaceInv, Live
    <3> QED BY <3>1 DEF Apart, UserPages
  <2>2. ASSUME NEW p \in Live
        PROVE  /\ \A v \in UserPages(p) : tables[p][v].frame \in mixed => v = Code
               /\ UserPages(p) = {arguments[p]} \union StackPages \union {maps[p][n].virt : n \in DOMAIN maps[p]}
               /\ \A n \in DOMAIN maps[p] :
                    (\A k \in n + 1 .. Len(maps[p]) : maps[p][k].virt # maps[p][n].virt)
                        => tables[p][maps[p][n].virt].frame = maps[p][n].phys
    <3>1. p \in Procs /\ UserPart(tables[p], maps[p], arguments[p], next)
      BY DEF SpaceInv, Live
    <3>2. maps[p] \in Seq(MapEntry) /\ next \in 4 .. MaxFrames + 1
      BY <3>1 DEF SpaceInv, SpaceTypes
    <3>3. \A n \in DOMAIN maps[p] : maps[p][n] \in MapEntry
      BY <3>2
    <3>4. \A n \in DOMAIN maps[p] : maps[p][n].virt \in Pages
      BY <3>3 DEF MapEntry
    <3>5. arguments[p] \in Pages /\ StackPages \subseteq Pages
      <4>1. arguments[p] \in 2 .. next - 1
        BY <3>1 DEF UserPart
      <4>2. arguments[p] \in Frames
        BY <3>2, <4>1, FrameBound DEF Frames
      <4> QED BY <4>2, Numbers DEF StackPages
    <3>6. \A v \in Pages : tables[p][v].user <=>
             (v = arguments[p] \/ v \in StackPages \/ \E k \in DOMAIN maps[p] : maps[p][k].virt = v)
      BY <3>1 DEF UserPart
    <3>7. UserPages(p) = {arguments[p]} \union StackPages \union {maps[p][n].virt : n \in DOMAIN maps[p]}
      BY <3>4, <3>5, <3>6 DEF UserPages
    <3>8. \A v \in UserPages(p) : tables[p][v].frame \in mixed => v = Code
      BY <3>1 DEF MixedInv, SegmentFirst, UserPages, Live
    <3> QED BY <3>1, <3>7, <3>8 DEF UserPart, Latest
  <2> QED BY <2>1, <2>2 DEF UserPagesOwned
<1> QED BY <1>1, SpaceInvariant, MixedInvariant, PTL
=============================================================================
