---------------------------- MODULE LListProofs ----------------------------
(* Proofs about the linked list of LList, for any finite set of items and   *)
(* any writers and readers.                                                 *)
EXTENDS LList, FiniteSetTheorems, SequenceTheorems, WellFoundedInduction, TLAPS

-----------------------------------------------------------------------------
(* Numbers, sets and sequences.                                             *)

\* A set of naturals that is not empty has a least element.
LEMMA LeastNat ==
    ASSUME NEW S \in SUBSET Nat, S # {}
    PROVE  \E x \in S : \A y \in S : x <= y
<1>1. PICK x \in S : \A y \in S : ~ (<<y, x>> \in OpToRel(<, Nat))
  BY NatLessThanWellFounded, WFMin, Zenon
<1>2. \A y \in S : x <= y
  <2> TAKE y \in S
  <2>1. ~ (y < x)
    BY <1>1 DEF OpToRel
  <2> QED BY <2>1
<1> QED BY <1>2

\* Appending an item that is not in the list.
LEMMA AppendFacts ==
    ASSUME NEW s \in Seq(Items), NEW e \in Items \ ToSet(s), IsInjective(s)
    PROVE  /\ Append(s, e) \in Seq(Items) /\ IsInjective(Append(s, e))
           /\ ToSet(Append(s, e)) = ToSet(s) \cup {e}
BY DEF IsInjective, ToSet

\* Popping the last item.
LEMMA FrontFacts ==
    ASSUME NEW s \in Seq(Items), s # <<>>, IsInjective(s)
    PROVE  /\ Front(s) \in Seq(Items) /\ IsInjective(Front(s))
           /\ Len(Front(s)) = Len(s) - 1
           /\ \A k \in 1..(Len(s) - 1) : Front(s)[k] = s[k]
           /\ ToSet(Front(s)) \subseteq ToSet(s)
<1>1. /\ Len(s) \in Nat \ {0}
      /\ Front(s) \in Seq(Items) /\ Len(Front(s)) = Len(s) - 1
      /\ \A k \in 1..(Len(s) - 1) : Front(s)[k] = s[k]
  <2> DEFINE n == Len(s) - 1
             f == SubSeq(s, 1, n)
  <2>1. Len(s) \in Nat \ {0} /\ n \in Nat /\ \A k \in 1..n : s[k] \in Items
    OBVIOUS
  <2>2. Front(s) = f
    BY DEF Front
  <2> HIDE DEF n
  <2>3. \A k \in 1..(n - 1 + 1) : f[k] = s[1 + k - 1]
    BY <2>1, SubSeqProperties
  <2>4. f \in Seq(Items) /\ Len(f) = IF 1 <= n THEN n - 1 + 1 ELSE 0
    BY <2>1, SubSeqProperties
  <2> HIDE DEF f
  <2>5. f \in Seq(Items) /\ Len(f) = n
    BY <2>1, <2>4
  <2>6. ASSUME NEW k \in 1..n
        PROVE  f[k] = s[k]
    <3>1. n - 1 + 1 = n /\ 1 + k - 1 = k
      BY <2>1
    <3> QED BY <3>1, <2>3
  <2> QED BY <2>1, <2>2, <2>5, <2>6 DEF n
<1> QED BY <1>1 DEF IsInjective, ToSet

\* Removing the item at a position.
LEMMA RemoveAtFacts ==
    ASSUME NEW s \in Seq(Items), NEW i \in DOMAIN s, IsInjective(s)
    PROVE  /\ RemoveAt(s, i) \in Seq(Items) /\ IsInjective(RemoveAt(s, i))
           /\ Len(RemoveAt(s, i)) = Len(s) - 1
           /\ \A k \in 1..(Len(s) - 1) :
                 RemoveAt(s, i)[k] = IF k < i THEN s[k] ELSE s[k + 1]
           /\ ToSet(RemoveAt(s, i)) = ToSet(s) \ {s[i]}
<1> DEFINE r == RemoveAt(s, i)
           a == SubSeq(s, 1, i - 1)
           b == SubSeq(s, i + 1, Len(s))
<1>1. Len(s) \in Nat /\ i \in 1..Len(s)
  OBVIOUS
<1>2. a \in Seq(Items) /\ Len(a) = i - 1 /\ \A k \in 1..(i - 1) : a[k] = s[k]
  BY <1>1
<1>3. b \in Seq(Items) /\ Len(b) = Len(s) - i
  BY <1>1
<1>4. \A k \in 1..(Len(s) - i) : b[k] = s[k + i]
  BY <1>1
<1>5. r = a \o b
  BY DEF RemoveAt
<1> HIDE DEF a, b, r
<1>6. r \in Seq(Items) /\ Len(r) = Len(s) - 1
  BY <1>1, <1>2, <1>3, <1>5
<1>7. \A k \in 1..(Len(s) - 1) : r[k] = IF k < i THEN a[k] ELSE b[k - (i - 1)]
  BY <1>1, <1>2, <1>3, <1>5
<1>8. \A k \in 1..(Len(s) - 1) : r[k] = IF k < i THEN s[k] ELSE s[k + 1]
  <2> TAKE k \in 1..(Len(s) - 1)
  <2>1. CASE k < i
    BY <2>1, <1>1, <1>2, <1>7
  <2>2. CASE ~ (k < i)
    <3>1. k - (i - 1) \in 1..(Len(s) - i) /\ (k - (i - 1)) + i = k + 1
      BY <2>2, <1>1
    <3> QED BY <3>1, <2>2, <1>4, <1>7
  <2> QED BY <2>1, <2>2
<1>9. IsInjective(r)
  <2> SUFFICES ASSUME NEW j \in DOMAIN r, NEW k \in DOMAIN r, r[j] = r[k]
               PROVE  j = k
    BY DEF IsInjective
  <2> DEFINE Up(x) == IF x < i THEN x ELSE x + 1
  <2>1. Up(j) \in DOMAIN s /\ Up(k) \in DOMAIN s /\ s[Up(j)] = s[Up(k)]
    BY <1>1, <1>6, <1>8
  <2>2. Up(j) = Up(k)
    BY <2>1 DEF IsInjective
  <2> QED BY <2>2, <1>1, <1>6
<1>10. ToSet(r) = ToSet(s) \ {s[i]}
  <2>1. ASSUME NEW k \in DOMAIN r
        PROVE  r[k] \in ToSet(s) \ {s[i]}
    BY <1>1, <1>6, <1>8 DEF ToSet, IsInjective
  <2>2. ASSUME NEW k \in DOMAIN s, s[k] # s[i]
        PROVE  \E j \in DOMAIN r : r[j] = s[k]
    <3>1. CASE k < i
      <4>1. k \in DOMAIN r /\ r[k] = s[k]
        BY <3>1, <1>1, <1>6, <1>8
      <4> QED BY <4>1
    <3>2. CASE k > i
      <4>1. k - 1 \in DOMAIN r /\ ~ (k - 1 < i) /\ (k - 1) + 1 = k
        BY <3>2, <1>1, <1>6
      <4>2. r[k - 1] = s[k]
        BY <4>1, <1>6, <1>8
      <4> QED BY <4>1, <4>2
    <3> QED BY <3>1, <3>2, <2>2, <1>1
  <2> QED BY <2>1, <2>2 DEF ToSet
<1> QED BY <1>6, <1>8, <1>9, <1>10 DEF r

\* Without(i) is the list with the position of i taken out.
LEMMA WithoutFacts ==
    ASSUME contents \in Seq(Items), IsInjective(contents), NEW i \in ToSet(contents)
    PROVE  \E j \in 1..Len(contents) :
              contents[j] = i /\ Without(i) = RemoveAt(contents, j)
<1> DEFINE j == CHOOSE k \in DOMAIN contents : contents[k] = i
<1>1. j \in DOMAIN contents /\ contents[j] = i
  BY DEF ToSet
<1>2. Without(i) = RemoveAt(contents, j)
  BY DEF Without
<1>3. DOMAIN contents = 1..Len(contents)
  OBVIOUS
<1> HIDE DEF j
<1> QED BY <1>1, <1>2, <1>3

\* A list has no more members than there are items.
LEMMA LenBound ==
    ASSUME NEW s \in Seq(Items), IsInjective(s)
    PROVE  Cardinality(Items) \in Nat /\ Len(s) <= Cardinality(Items)
<1>1. Len(s) \in Nat /\ DOMAIN s = 1..Len(s)
  OBVIOUS
<1>2. s \in Injection(1..Len(s), Items)
  BY <1>1 DEF Injection, IsInjective
<1>3. Cardinality(1..Len(s)) <= Cardinality(Items)
  BY <1>2, LListAssumption, FS_Injection
<1>4. Cardinality(1..Len(s)) = Len(s)
  BY <1>1, FS_Interval
<1> QED BY <1>3, <1>4, LListAssumption, FS_CardinalityType

-----------------------------------------------------------------------------
(* What a step of one writer leaves alone.                                  *)

LEMMA Labels ==
    /\ Held["append"] = "append_held" /\ Held["remove"] = "remove_held"
    /\ Held["pop"] = "pop_held"
    /\ Linking = {"append_held", "remove_held", "pop_held", "close", "self", "clear",
                  "unlock"}
    /\ Writers \subseteq Threads /\ Readers \subseteq Threads
    /\ Writers \cap Readers = {} /\ NULL \notin Items
BY LListAssumption DEF Held, Linking, Threads

\* A writer that works on the list in a system call is alone there, so that no
\* iterator is disturbed.
LEMMA WriterAlone ==
    ASSUME ListInv, NEW w \in Writers, NEW l, pc' = [pc EXCEPT ![w] = l],
           pc[w] # "idle" \/ Enter(w), UNCHANGED preemptible
    PROVE  /\ Alone'
           /\ ~preemptible => Iterating'
           /\ ~preemptible => \A u \in Writers : u # w => pc[u] = "idle"
<1>1. ~preemptible => \A t \in Threads : t # w => pc[t] = "idle"
  BY Labels DEF ListInv, Alone, Enter
<1>2. \A t \in Threads : t # w => pc'[t] = pc[t]
  BY DEF ListInv, TypeOK
<1>3. Alone'
  BY <1>1, <1>2 DEF Alone
<1>4. ~preemptible => Iterating'
  BY <1>1, <1>2, Labels DEF Iterating, IteratingAt
<1> QED BY <1>1, <1>3, <1>4, Labels

\* The pointers after a step that does not touch them.
LEMMA LinkedFrame ==
    ASSUME ListInv, Linked, NEW w \in Writers, NEW l, pc' = [pc EXCEPT ![w] = l],
           {l, pc[w]} \cap {"close", "self", "clear", "fault"} = {},
           \A u \in Writers : u # w => arg'[u] = arg[u],
           UNCHANGED <<list, next, prev, contents>>
    PROVE  Linked'
<1>1. \A u \in Writers : pc'[u] = IF u = w THEN l ELSE pc[u]
  BY Labels DEF ListInv, TypeOK
<1>2. IsRing(contents)' <=> IsRing(contents)
  BY DEF IsRing, After
<1>3. (\A u \in Writers : pc'[u] \notin {"close", "self", "clear"}) => IsRing(contents)'
  BY <1>1, <1>2 DEF Linked
<1>4. ASSUME NEW u \in Writers
      PROVE  LinkedAt(u)'
  <2>1. CASE u = w
    BY <2>1, <1>1 DEF LinkedAt
  <2>2. CASE u # w
    <3>1. pc'[u] = pc[u] /\ arg'[u] = arg[u] /\ LinkedAt(u)
      BY <2>2, <1>1 DEF Linked
    <3>2. (pc[u] = "close" => ClosePending(arg[u]))'
      BY <3>1 DEF LinkedAt, ClosePending
    <3>3. (pc[u] = "clear" => IsRing(Without(arg[u])))'
      BY <3>1 DEF LinkedAt, IsRing, After, Without
    <3> QED BY <3>1, <3>2, <3>3 DEF LinkedAt
  <2> QED BY <2>1, <2>2
<1> QED BY <1>3, <1>4 DEF Linked

\* The pointers after a step of the one writer that links.
LEMMA LinkedStep ==
    ASSUME ListInv, Linked, NEW w \in Writers, pc[w] \in Linking,
           NEW l, pc' = [pc EXCEPT ![w] = l], UNCHANGED arg,
           l # "fault",
           l \notin {"close", "self", "clear"} => IsRing(contents)',
           LinkedAt(w)'
    PROVE  Linked'
<1>1. \A u \in Writers : u # w => pc'[u] = pc[u] /\ pc[u] \notin Linking \cup {"fault"}
  BY Labels DEF ListInv, TypeOK, OneLinker, Linked, LinkedAt
<1>2. pc'[w] = l
  BY Labels DEF ListInv, TypeOK
<1>3. ASSUME NEW u \in Writers
      PROVE  LinkedAt(u)'
  <2>1. CASE u = w
    BY <2>1
  <2>2. CASE u # w
    BY <2>2, <1>1, Labels DEF LinkedAt
  <2> QED BY <2>1, <2>2
<1>4. (\A u \in Writers : pc'[u] \notin {"close", "self", "clear"}) => IsRing(contents)'
  BY <1>2
<1> QED BY <1>3, <1>4 DEF Linked

\* The writer that links keeps the lock, or gives it up.
LEMMA LinkerStep ==
    ASSUME ListInv, NEW w \in Writers, pc[w] \in Linking,
           NEW l, pc' = [pc EXCEPT ![w] = l],
           l \in Linking => UNCHANGED locked
    PROVE  OneLinker'
<1>1. \A u \in Writers : pc'[u] = IF u = w THEN l ELSE pc[u]
  BY Labels DEF ListInv, TypeOK
<1>2. \A u \in Writers : u # w => pc[u] \notin Linking
  BY DEF ListInv, OneLinker
<1>3. locked
  BY DEF ListInv, OneLinker
<1> QED BY <1>1, <1>2, <1>3 DEF OneLinker

-----------------------------------------------------------------------------
(* The invariant at the start and in the steps that leave the pointers.     *)

LEMMA InitInv == Init => ListInv
<1> SUFFICES ASSUME Init PROVE ListInv
  OBVIOUS
<1>1. \A t \in Threads : pc[t] = "idle"
  BY DEF Init
<1>2. TypeOK
  <2>1. pc \in [Threads -> WriterPC \cup Linking \cup {"iterate", "done", "panic"}]
    BY DEF Init, WriterPC
  <2>2. contents \in Seq(Items) /\ IsInjective(contents)
    BY DEF Init, IsInjective
  <2>3. visited \in [Readers -> Seq(Items)]
    BY DEF Init
  <2>4. iter \in [Readers -> [first : Pointer, curr : Pointer]]
    BY DEF Init, Pointer
  <2>5. preemptible \in BOOLEAN
    BY LListAssumption DEF Init
  <2> QED BY <2>1, <2>2, <2>3, <2>4, <2>5 DEF Init, TypeOK, Pointer
<1>3. OneLinker
  BY <1>1, Labels DEF OneLinker
<1>4. Ownership
  BY <1>1, Labels DEF Init, Ownership
<1>5. Alone
  BY <1>1 DEF Alone
<1>6. Linked
  BY <1>1, Labels DEF Init, Linked, LinkedAt, IsRing
<1>7. Iterating
  BY <1>1, Labels DEF Iterating, IteratingAt
<1> QED BY <1>2, <1>3, <1>4, <1>5, <1>6, <1>7 DEF ListInv

\* A writer enters one of the operations.
LEMMA CallInv ==
    ASSUME ListInv, NEW w \in Writers, CallAppend(w) \/ CallRemove(w) \/ CallPop(w)
    PROVE  ListInv'
<1>1. PICK l \in {"append", "remove", "pop"} : pc' = [pc EXCEPT ![w] = l]
  BY DEF CallAppend, CallRemove, CallPop, Goto
<1>2. /\ Enter(w) /\ pc[w] = "idle"
      /\ UNCHANGED <<kind, preemptible, list, next, prev, locked, iter, visited, contents>>
  BY DEF CallAppend, CallRemove, CallPop, Enter
<1>3. \A u \in Writers : pc'[u] = IF u = w THEN l ELSE pc[u]
  BY <1>1, Labels DEF ListInv, TypeOK
<1>4. \/ l = "append" /\ \E i \in Items \ (ToSet(contents) \cup Claimed) :
                            arg' = [arg EXCEPT ![w] = i]
      \/ /\ l = "remove" /\ kind = "registry"
         /\ \E i \in ToSet(contents) \ Claimed :
              /\ \/ i # Head(contents)
                 \/ RemoveHead = "any"
                 \/ RemoveHead = "lone" /\ Len(contents) = 1 /\ ~preemptible
              /\ arg' = [arg EXCEPT ![w] = i]
      \/ l = "pop" /\ kind = "stack" /\ arg' = arg
  <2>1. pc'[w] = l
    BY <1>3
  <2>2. w \in Threads /\ DOMAIN pc = Threads
    BY Labels DEF ListInv, TypeOK
  <2>3. CASE CallAppend(w)
    <3>1. l = "append"
      BY <2>1, <2>2, <2>3 DEF CallAppend, Goto
    <3> QED BY <3>1, <2>3 DEF CallAppend
  <2>4. CASE CallRemove(w)
    <3>1. l = "remove"
      BY <2>1, <2>2, <2>4 DEF CallRemove, Goto
    <3> QED BY <3>1, <2>4 DEF CallRemove
  <2>5. CASE CallPop(w)
    <3>1. l = "pop"
      BY <2>1, <2>2, <2>5 DEF CallPop, Goto
    <3> QED BY <3>1, <2>5 DEF CallPop
  <2> QED BY <2>3, <2>4, <2>5
<1>5. ToSet(contents) \subseteq Items
  BY DEF ListInv, TypeOK, ToSet
<1>6. TypeOK'
  BY <1>1, <1>2, <1>4, <1>5 DEF ListInv, TypeOK, WriterPC, Pointer
<1>7. OneLinker'
  BY <1>2, <1>3, Labels DEF ListInv, OneLinker
<1>8. /\ \A u \in Writers : u # w => arg'[u] = arg[u] /\ (arg'[w] # NULL => arg'[w] # arg[u])
      /\ l = "append" => arg'[w] \in Items \ ToSet(contents)
      /\ l = "remove" => /\ kind = "registry" /\ arg'[w] \in ToSet(contents)
                         /\ \/ RemoveHead = "any"
                            \/ arg'[w] # Head(contents)
                            \/ ~preemptible /\ Len(contents) = 1
      /\ l = "pop" => kind = "stack" /\ arg'[w] = NULL
  <2>1. \A u \in Writers : arg[u] \in Claimed
    BY DEF Claimed
  <2>2. arg[w] = NULL
    BY <1>2 DEF ListInv, Ownership
  <2> QED BY <1>4, <2>1, <2>2 DEF ListInv, TypeOK
<1>9. Ownership'
  <2>1. \A u, v \in Writers : arg'[u] = arg'[v] /\ arg'[u] # NULL => u = v
    BY <1>8 DEF ListInv, Ownership
  <2>2. ASSUME NEW u \in Writers, u # w
        PROVE  pc'[u] = pc[u] /\ arg'[u] = arg[u]
    BY <2>2, <1>3, <1>8
  <2>3. pc'[w] = l
    BY <1>3
  <2> QED BY <1>2, <1>8, <2>1, <2>2, <2>3 DEF ListInv, Ownership
<1>10. Alone' /\ (~preemptible => Iterating')
  BY <1>1, <1>2, WriterAlone
<1>11. HeadStays => Linked'
  BY <1>1, <1>2, <1>8, LinkedFrame DEF ListInv
<1> QED BY <1>2, <1>6, <1>7, <1>9, <1>10, <1>11 DEF ListInv, HeadStays

\* The lock is free and taken.
LEMMA LockInv ==
    ASSUME ListInv, NEW w \in Writers, Lock(w)
    PROVE  ListInv'
<1>1. PICK op \in {"append", "remove", "pop"} :
        pc[w] = op /\ pc' = [pc EXCEPT ![w] = Held[op]]
  BY DEF Lock, Goto
<1>2. /\ ~locked /\ locked' = TRUE
      /\ UNCHANGED <<kind, preemptible, list, next, prev, arg, iter, visited, contents>>
  BY DEF Lock
<1>3. \A u \in Writers : pc'[u] = IF u = w THEN Held[op] ELSE pc[u]
  BY <1>1, Labels DEF ListInv, TypeOK
<1>4. Held[op] \in {"append_held", "remove_held", "pop_held"}
  BY Labels
<1>5. TypeOK'
  BY <1>1, <1>2, <1>4, Labels DEF ListInv, TypeOK
<1>6. OneLinker'
  BY <1>2, <1>3 DEF ListInv, OneLinker
<1>7. Ownership'
  <2>1. \A u \in Writers : u # w => pc'[u] = pc[u]
    BY <1>3
  <2>2. pc'[w] = Held[op]
    BY <1>3
  <2> QED BY <1>1, <1>2, <2>1, <2>2, Labels DEF ListInv, Ownership
<1>8. Alone' /\ (~preemptible => Iterating')
  BY <1>1, <1>2, WriterAlone
<1>9. HeadStays => Linked'
  BY <1>1, <1>2, <1>4, LinkedFrame DEF ListInv
<1> QED BY <1>2, <1>5, <1>6, <1>7, <1>8, <1>9 DEF ListInv, HeadStays

\* The lock is given up.
LEMMA UnlockInv ==
    ASSUME ListInv, NEW w \in Writers, Unlock(w)
    PROVE  ListInv'
<1>1. /\ pc[w] = "unlock" /\ pc' = [pc EXCEPT ![w] = "idle"]
      /\ locked' = FALSE /\ arg' = [arg EXCEPT ![w] = NULL]
      /\ UNCHANGED <<kind, preemptible, list, next, prev, iter, visited, contents>>
  BY DEF Unlock, Goto
<1>2. \A u \in Writers : /\ pc'[u] = IF u = w THEN "idle" ELSE pc[u]
                         /\ arg'[u] = IF u = w THEN NULL ELSE arg[u]
  BY <1>1, Labels DEF ListInv, TypeOK
<1>3. TypeOK'
  BY <1>1 DEF ListInv, TypeOK, WriterPC, Pointer
<1>4. OneLinker'
  BY <1>1, Labels, LinkerStep
<1>5. Ownership'
  BY <1>1, <1>2 DEF ListInv, Ownership
<1>6. Alone' /\ (~preemptible => Iterating')
  BY <1>1, WriterAlone
<1>7. HeadStays => Linked'
  <2>1. {"idle", pc[w]} \cap {"close", "self", "clear", "fault"} = {}
    BY <1>1
  <2>2. \A u \in Writers : u # w => arg'[u] = arg[u]
    BY <1>2
  <2> QED BY <1>1, <2>1, <2>2, LinkedFrame DEF ListInv
<1> QED BY <1>1, <1>3, <1>4, <1>5, <1>6, <1>7 DEF ListInv, HeadStays

-----------------------------------------------------------------------------
(* The steps that change the pointers.                                      *)

\* With the lock in hand and no pointer changed yet, the list is a ring.
LEMMA RingHeld ==
    ASSUME ListInv, Linked, NEW w \in Writers,
           pc[w] \in {"append_held", "remove_held", "pop_held"}
    PROVE  IsRing(contents)
BY Labels DEF ListInv, OneLinker, Linked

\* What a ring says of its first and last items and of the ones between.
LEMMA RingFacts ==
    ASSUME NEW s \in Seq(Items), IsRing(s)
    PROVE  /\ s = <<>> <=> list = NULL
           /\ s = <<>> <=> Len(s) = 0
           /\ s # <<>> => /\ Len(s) \in Nat \ {0} /\ list = s[1] /\ list \in Items
                          /\ next[s[Len(s)]] = s[1] /\ prev[s[1]] = s[Len(s)]
                          /\ s[Len(s)] \in Items
           /\ \A k \in 1..(Len(s) - 1) : next[s[k]] = s[k + 1] /\ prev[s[k + 1]] = s[k]
<1>1. Len(s) \in Nat /\ (s = <<>> <=> Len(s) = 0)
  OBVIOUS
<1>2. CASE s = <<>>
  BY <1>1, <1>2 DEF IsRing
<1>3. CASE s # <<>>
  <2>1. Len(s) \in 1..Len(s) /\ 1 \in 1..Len(s) /\ After(Len(s), s) = 1
    BY <1>1, <1>3 DEF After
  <2>2. list = s[1] /\ list \in Items /\ s[Len(s)] \in Items
    BY <1>3, <2>1 DEF IsRing
  <2>3. next[s[Len(s)]] = s[1] /\ prev[s[1]] = s[Len(s)]
    BY <2>1 DEF IsRing
  <2>4. ASSUME NEW k \in 1..(Len(s) - 1)
        PROVE  next[s[k]] = s[k + 1] /\ prev[s[k + 1]] = s[k]
    <3>1. k \in 1..Len(s) /\ After(k, s) = k + 1
      BY <1>1 DEF After
    <3> QED BY <3>1 DEF IsRing
  <2> QED BY <1>1, <1>3, <2>1, <2>2, <2>3, <2>4, Labels
<1> QED BY <1>2, <1>3

\* The stores that link a new last item.
LEMMA AppendLinkInv ==
    ASSUME ListInv, NEW w \in Writers, AppendLink(w)
    PROVE  ListInv'
<1> DEFINE a == arg[w]
           c == contents
           n == Len(contents)
<1>1. /\ pc[w] = "append_held" /\ list # NULL
      /\ \/ prev[list] = NULL /\ pc' = [pc EXCEPT ![w] = "fault"] /\ UNCHANGED <<next, prev>>
         \/ /\ prev[list] # NULL
            /\ next' = [next EXCEPT ![prev[list]] = a]
            /\ prev' = [prev EXCEPT ![a] = prev[list], ![list] = a]
            /\ pc' = [pc EXCEPT ![w] = "close"]
      /\ UNCHANGED <<kind, preemptible, list, locked, arg, iter, visited, contents>>
  BY DEF AppendLink, Goto
<1>2. PICK l \in {"fault", "close"} : pc' = [pc EXCEPT ![w] = l]
  BY <1>1
<1>3. \A u \in Writers : pc'[u] = IF u = w THEN l ELSE pc[u]
  BY <1>2, Labels DEF ListInv, TypeOK
<1>4. a \in Items \ ToSet(c) /\ list \in Items
  BY <1>1 DEF ListInv, Ownership, TypeOK, Pointer
<1>5. TypeOK'
  BY <1>1, <1>2, <1>4, Labels DEF ListInv, TypeOK, WriterPC, Pointer
<1>6. OneLinker'
  BY <1>1, <1>2, Labels, LinkerStep
<1>7. Ownership'
  BY <1>1, <1>3 DEF ListInv, Ownership
<1>8. Alone' /\ (~preemptible => Iterating')
  BY <1>1, <1>2, WriterAlone
<1>9. HeadStays => Linked'
  <2> SUFFICES ASSUME HeadStays PROVE Linked'
    OBVIOUS
  <2>1. Linked /\ IsRing(c)
    BY <1>1, RingHeld DEF ListInv
  <2>2. c \in Seq(Items) /\ IsInjective(c)
    BY DEF ListInv, TypeOK
  <2>3. /\ n \in Nat \ {0} /\ list = c[1] /\ c # <<>>
        /\ prev[list] = c[n] /\ c[n] \in Items
        /\ \A k \in 1..(n - 1) : next[c[k]] = c[k + 1] /\ prev[c[k + 1]] = c[k]
    BY <1>1, <2>1, <2>2, RingFacts
  <2>4. /\ prev[list] # NULL
        /\ next' = [next EXCEPT ![c[n]] = a]
        /\ prev' = [prev EXCEPT ![a] = c[n], ![c[1]] = a]
        /\ pc' = [pc EXCEPT ![w] = "close"]
    BY <1>1, <2>3, Labels
  <2>5. \A k \in 1..n : c[k] \in Items /\ c[k] # a
    BY <1>4, <2>2 DEF ToSet
  <2>6. \A k \in 1..(n - 1) : c[k] # c[n] /\ c[k + 1] # c[1]
    BY <2>2, <2>3 DEF IsInjective
  <2>7. next \in [Items -> Pointer] /\ prev \in [Items -> Pointer]
    BY DEF ListInv, TypeOK
  <2>8. ASSUME NEW k \in 1..(n - 1)
        PROVE  next'[c[k]] = c[k + 1] /\ prev'[c[k + 1]] = c[k]
    <3>1. k \in 1..n /\ k + 1 \in 1..n
      BY <2>3
    <3> QED BY <3>1, <2>3, <2>4, <2>5, <2>6, <2>7
  <2>9. next'[c[n]] = a /\ prev'[a] = c[n] /\ prev'[list] = a
    BY <1>4, <2>3, <2>4, <2>5, <2>7
  <2>10. ClosePending(arg[w])'
    BY <1>1, <2>3, <2>8, <2>9 DEF ClosePending
  <2>11. LinkedAt(w)'
    <3>1. pc'[w] = "close"
      BY <2>4, Labels DEF ListInv, TypeOK
    <3> QED BY <3>1, <2>10 DEF LinkedAt
  <2> QED BY <1>1, <2>1, <2>4, <2>11, LinkedStep, Labels
<1> QED BY <1>1, <1>5, <1>6, <1>7, <1>8, <1>9 DEF ListInv, HeadStays

\* An item that was appended disturbs no other writer.
LEMMA AppendedOwn ==
    ASSUME ListInv, NEW w \in Writers, pc[w] \in {"close", "self"},
           pc' = [pc EXCEPT ![w] = "unlock"],
           contents' = Append(contents, arg[w]),
           UNCHANGED <<kind, preemptible, arg>>
    PROVE  Ownership'
<1>1. \A u \in Writers : pc'[u] = IF u = w THEN "unlock" ELSE pc[u]
  BY Labels DEF ListInv, TypeOK
<1>2. arg[w] \in Items \ ToSet(contents) /\ contents \in Seq(Items) /\ IsInjective(contents)
  BY DEF ListInv, Ownership, TypeOK
<1>3. ToSet(contents') = ToSet(contents) \cup {arg[w]}
  BY <1>2, AppendFacts
<1>4. contents # <<>> => Head(contents') = Head(contents)
  BY <1>2
<1>5. \A u \in Writers : u # w => arg[u] # arg[w]
  BY <1>2, Labels DEF ListInv, Ownership
<1>6. ASSUME NEW u \in Writers, u # w, pc[u] \in {"remove", "remove_held", "clear"}
      PROVE  /\ kind = "registry" /\ arg[u] \in ToSet(contents)
             /\ RemoveHead = "any" \/ arg[u] # Head(contents')
  <2>1. preemptible
    BY <1>6, Labels DEF ListInv, Alone
  <2>2. contents # <<>>
    BY <1>6 DEF ListInv, Ownership, ToSet
  <2> QED BY <1>4, <1>6, <2>1, <2>2 DEF ListInv, Ownership
<1>7. ASSUME NEW u \in Writers, u # w
      PROVE  /\ pc'[u] = pc[u]
             /\ pc[u] \in {"append", "append_held", "close", "self"} =>
                   arg[u] \in Items \ ToSet(contents')
  BY <1>1, <1>3, <1>5, <1>7 DEF ListInv, Ownership
<1> QED BY <1>1, <1>3, <1>6, <1>7 DEF ListInv, Ownership

\* The new last item's own next.
LEMMA AppendCloseInv ==
    ASSUME ListInv, NEW w \in Writers, AppendClose(w)
    PROVE  ListInv'
<1> DEFINE a == arg[w]
           c == contents
           n == Len(contents)
<1>1. /\ pc[w] = "close" /\ pc' = [pc EXCEPT ![w] = "unlock"]
      /\ next' = [next EXCEPT ![a] = list]
      /\ contents' = Append(c, a)
      /\ UNCHANGED <<kind, preemptible, list, prev, locked, arg, iter, visited>>
  BY DEF AppendClose, Goto
<1>2. a \in Items \ ToSet(c) /\ c \in Seq(Items) /\ IsInjective(c)
  BY <1>1 DEF ListInv, Ownership, TypeOK
<1>3. TypeOK'
  <2>1. contents' \in Seq(Items) /\ IsInjective(contents')
    BY <1>1, <1>2, AppendFacts
  <2> QED BY <2>1, <1>1, <1>2, Labels DEF ListInv, TypeOK
<1>4. OneLinker'
  BY <1>1, Labels, LinkerStep
<1>5. Ownership'
  BY <1>1, AppendedOwn
<1>6. Alone' /\ (~preemptible => Iterating')
  BY <1>1, WriterAlone
<1>7. HeadStays => Linked'
  <2> SUFFICES ASSUME HeadStays PROVE Linked'
    OBVIOUS
  <2>1. Linked /\ ClosePending(a)
    BY <1>1 DEF ListInv, Linked, LinkedAt
  <2> DEFINE d == Append(c, a)
  <2>2. /\ n \in Nat \ {0} /\ list = c[1]
        /\ \A k \in 1..(n - 1) : next[c[k]] = c[k + 1] /\ prev[c[k + 1]] = c[k]
        /\ next[c[n]] = a /\ prev[a] = c[n] /\ prev[c[1]] = a
    BY <1>2, <2>1 DEF ClosePending
  <2>3. /\ d \in Seq(Items) /\ Len(d) = n + 1 /\ d # <<>> /\ d[n + 1] = a
        /\ \A k \in 1..n : d[k] = c[k]
    BY <1>2, <2>2
  <2>4. \A k \in 1..n : c[k] \in Items /\ c[k] # a
    BY <1>2 DEF ToSet
  <2>5. next \in [Items -> Pointer]
    BY DEF ListInv, TypeOK
  <2> HIDE DEF d
  <2>6. next'[a] = c[1] /\ \A k \in 1..n : next'[c[k]] = next[c[k]]
    BY <1>1, <1>2, <2>2, <2>4, <2>5
  <2>7. ASSUME NEW k \in 1..n
        PROVE  next'[d[k]] = d[k + 1] /\ prev'[d[k + 1]] = d[k]
    <3>1. CASE k = n
      BY <3>1, <1>1, <2>2, <2>3, <2>6
    <3>2. CASE k # n
      <4>1. k \in 1..(n - 1) /\ k + 1 \in 1..n
        BY <3>2, <2>2
      <4> QED BY <4>1, <1>1, <2>2, <2>3, <2>6
    <3> QED BY <3>1, <3>2
  <2>8. next'[d[n + 1]] = d[1] /\ prev'[d[1]] = d[n + 1] /\ list' = d[1]
    BY <1>1, <2>2, <2>3, <2>6
  <2>9. IsRing(contents)'
    <3>1. contents' = d
      BY <1>1 DEF d
    <3>2. \A k \in 1..Len(d) : next'[d[k]] = d[After(k, d)] /\ prev'[d[After(k, d)]] = d[k]
      BY <2>2, <2>3, <2>7, <2>8 DEF After
    <3> QED BY <3>1, <3>2, <2>3, <2>8 DEF IsRing, After
  <2>10. LinkedAt(w)'
    BY <1>1, Labels DEF LinkedAt, ListInv, TypeOK
  <2> QED BY <1>1, <2>1, <2>9, <2>10, LinkedStep, Labels
<1> QED BY <1>1, <1>3, <1>4, <1>5, <1>6, <1>7 DEF ListInv, HeadStays

\* An empty list gets its first item ...
LEMMA AppendFirstInv ==
    ASSUME ListInv, NEW w \in Writers, AppendFirst(w)
    PROVE  ListInv'
<1>1. /\ pc[w] = "append_held" /\ list = NULL /\ list' = arg[w]
      /\ pc' = [pc EXCEPT ![w] = "self"]
      /\ UNCHANGED <<kind, preemptible, next, prev, locked, arg, iter, visited, contents>>
  BY DEF AppendFirst, Goto
<1>2. \A u \in Writers : pc'[u] = IF u = w THEN "self" ELSE pc[u]
  BY <1>1, Labels DEF ListInv, TypeOK
<1>3. TypeOK'
  BY <1>1, Labels DEF ListInv, TypeOK
<1>4. OneLinker'
  BY <1>1, Labels, LinkerStep
<1>5. Ownership'
  BY <1>1, <1>2 DEF ListInv, Ownership
<1>6. Alone' /\ (~preemptible => Iterating')
  BY <1>1, WriterAlone
<1>7. HeadStays => Linked'
  <2> SUFFICES ASSUME HeadStays PROVE Linked'
    OBVIOUS
  <2>1. Linked /\ IsRing(contents)
    BY <1>1, RingHeld DEF ListInv
  <2>2. contents = <<>>
    BY <1>1, <2>1, RingFacts DEF ListInv, TypeOK
  <2>3. LinkedAt(w)'
    BY <1>1, <1>2, <2>2 DEF LinkedAt
  <2> QED BY <1>1, <2>1, <2>3, LinkedStep, Labels
<1> QED BY <1>1, <1>3, <1>4, <1>5, <1>6, <1>7 DEF ListInv, HeadStays

\* ... which then points to itself.
LEMMA AppendSelfInv ==
    ASSUME ListInv, NEW w \in Writers, AppendSelf(w)
    PROVE  ListInv'
<1> DEFINE a == arg[w]
<1>1. /\ pc[w] = "self" /\ pc' = [pc EXCEPT ![w] = "unlock"]
      /\ next' = [next EXCEPT ![a] = a] /\ prev' = [prev EXCEPT ![a] = a]
      /\ contents' = Append(contents, a)
      /\ UNCHANGED <<kind, preemptible, list, locked, arg, iter, visited>>
  BY DEF AppendSelf, Goto
<1>2. /\ a \in Items \ ToSet(contents)
      /\ contents \in Seq(Items) /\ IsInjective(contents)
  BY <1>1 DEF ListInv, Ownership, TypeOK
<1>3. TypeOK'
  <2>1. contents' \in Seq(Items) /\ IsInjective(contents')
    BY <1>1, <1>2, AppendFacts
  <2> QED BY <2>1, <1>1, <1>2, Labels DEF ListInv, TypeOK, Pointer
<1>4. OneLinker'
  BY <1>1, Labels, LinkerStep
<1>5. Ownership'
  BY <1>1, AppendedOwn
<1>6. Alone' /\ (~preemptible => Iterating')
  BY <1>1, WriterAlone
<1>7. HeadStays => Linked'
  <2> SUFFICES ASSUME HeadStays PROVE Linked'
    OBVIOUS
  <2>1. Linked /\ contents = <<>> /\ list = a
    BY <1>1 DEF ListInv, Linked, LinkedAt
  <2>2. contents' = <<a>>
    BY <1>1, <2>1
  <2>3. next'[a] = a /\ prev'[a] = a
    BY <1>1, <1>2 DEF ListInv, TypeOK
  <2>4. IsRing(contents)'
    BY <1>1, <2>1, <2>2, <2>3 DEF IsRing, After
  <2>5. LinkedAt(w)'
    BY <1>1, Labels DEF LinkedAt, ListInv, TypeOK
  <2> QED BY <1>1, <2>1, <2>4, <2>5, LinkedStep, Labels
<1> QED BY <1>1, <1>3, <1>4, <1>5, <1>6, <1>7 DEF ListInv, HeadStays

\* The stores that take an item out.
LEMMA RemoveUnlinkInv ==
    ASSUME ListInv, NEW w \in Writers, RemoveUnlink(w)
    PROVE  ListInv'
<1> DEFINE i == arg[w]
           c == contents
           n == Len(contents)
<1>1. /\ pc[w] = "remove_held"
      /\ UNCHANGED <<kind, preemptible, locked, arg, iter, visited, contents>>
  BY DEF RemoveUnlink
<1>2. \/ list = NULL /\ pc' = [pc EXCEPT ![w] = "unlock"] /\ UNCHANGED <<list, next, prev>>
      \/ /\ list = i /\ next[i] = prev[i]
         /\ list' = NULL /\ pc' = [pc EXCEPT ![w] = "clear"] /\ UNCHANGED <<next, prev>>
      \/ /\ ~(list = i /\ next[i] = prev[i]) /\ NULL \in {next[i], prev[i]}
         /\ pc' = [pc EXCEPT ![w] = "fault"] /\ UNCHANGED <<list, next, prev>>
      \/ /\ ~(list = i /\ next[i] = prev[i]) /\ NULL \notin {next[i], prev[i]}
         /\ next' = [next EXCEPT ![prev[i]] = next[i]]
         /\ prev' = [prev EXCEPT ![next[i]] = prev[i]]
         /\ pc' = [pc EXCEPT ![w] = "clear"] /\ UNCHANGED list
  BY DEF RemoveUnlink, Goto
<1>3. PICK l \in {"unlock", "clear", "fault"} : pc' = [pc EXCEPT ![w] = l]
  BY <1>2
<1>4. \A u \in Writers : pc'[u] = IF u = w THEN l ELSE pc[u]
  BY <1>3, Labels DEF ListInv, TypeOK
<1>5. /\ i \in ToSet(c) /\ kind = "registry"
      /\ \/ RemoveHead = "any"
         \/ i # Head(c)
         \/ ~preemptible /\ n = 1
  BY <1>1 DEF ListInv, Ownership
<1>6. c \in Seq(Items) /\ IsInjective(c) /\ i \in Items
  BY <1>5 DEF ListInv, TypeOK, ToSet
<1>7. next[i] \in Pointer /\ prev[i] \in Pointer
  BY <1>6 DEF ListInv, TypeOK
<1>8. TypeOK'
  <2>1. list' \in Pointer /\ next' \in [Items -> Pointer] /\ prev' \in [Items -> Pointer]
    BY <1>2, <1>6, <1>7 DEF ListInv, TypeOK, Pointer
  <2>2. pc' \in [Threads -> WriterPC \cup Linking \cup {"iterate", "done", "panic"}]
    BY <1>3, Labels DEF ListInv, TypeOK, WriterPC
  <2> QED BY <2>1, <2>2, <1>1 DEF ListInv, TypeOK
<1>9. OneLinker'
  BY <1>1, <1>3, Labels, LinkerStep
<1>10. Ownership'
  BY <1>1, <1>4, <1>5 DEF ListInv, Ownership
<1>11. Alone' /\ (~preemptible => Iterating')
  BY <1>1, <1>3, WriterAlone
<1>12. HeadStays => Linked'
  <2> SUFFICES ASSUME HeadStays PROVE Linked'
    OBVIOUS
  <2>1. Linked /\ IsRing(c)
    BY <1>1, RingHeld DEF ListInv
  <2>2. /\ n \in Nat \ {0} /\ list = c[1] /\ list # NULL
        /\ next[c[n]] = c[1] /\ prev[c[1]] = c[n]
        /\ \A k \in 1..(n - 1) : next[c[k]] = c[k + 1] /\ prev[c[k + 1]] = c[k]
    <3>1. c # <<>>
      BY <1>5 DEF ToSet
    <3> QED BY <3>1, <1>6, <2>1, RingFacts
  <2>3. PICK j \in 1..n : c[j] = i /\ Without(i) = RemoveAt(c, j)
    BY <1>5, <1>6, WithoutFacts
  <2> PICK d : d = RemoveAt(c, j)
    OBVIOUS
  <2>4. /\ d \in Seq(Items) /\ Len(d) = n - 1
        /\ \A k \in 1..(n - 1) : d[k] = IF k < j THEN c[k] ELSE c[k + 1]
    BY <1>6, RemoveAtFacts
  <2>5. Without(i)' = d
    BY <1>1, <2>3 DEF Without
  <2>6. \A k, m \in 1..n : c[k] = c[m] => k = m
    BY <1>6 DEF IsInjective
  <2>7. \A k \in 1..n : c[k] \in Items
    BY <1>6
  <2>8. pc' = [pc EXCEPT ![w] = "clear"] /\ IsRing(d)'
    <3>1. CASE j = 1
      <4>1. n = 1
        BY <3>1, <1>5, <2>2, <2>3 DEF HeadStays
      <4>2. list = i /\ next[i] = prev[i]
        BY <3>1, <4>1, <2>2, <2>3
      <4>3. list' = NULL /\ pc' = [pc EXCEPT ![w] = "clear"]
        BY <4>2, <1>2, <2>2
      <4>4. d = <<>> /\ Len(d) = 0
        BY <4>1, <2>4
      <4> QED BY <4>3, <4>4 DEF IsRing
    <3>2. CASE j # 1
      <4>1. j - 1 \in 1..(n - 1) /\ (j - 1) + 1 = j
        BY <3>2, <2>2
      <4>2. prev[i] = c[j - 1] /\ prev[i] \in Items
        <5>1. prev[c[(j - 1) + 1]] = c[j - 1] /\ j - 1 \in 1..n
          BY <4>1, <2>2
        <5> QED BY <5>1, <4>1, <2>3, <2>7
      <4>3. next[i] = IF j = n THEN c[1] ELSE c[j + 1]
        BY <2>2, <2>3
      <4>4. next[i] \in Items
        BY <4>3, <2>2, <2>7
      <4>5. list # i
        BY <3>2, <2>2, <2>3, <2>6
      <4>6. /\ next' = [next EXCEPT ![prev[i]] = next[i]]
            /\ prev' = [prev EXCEPT ![next[i]] = prev[i]]
            /\ pc' = [pc EXCEPT ![w] = "clear"] /\ list' = list
        BY <1>2, <2>2, <4>2, <4>4, <4>5, Labels
      <4>7. next \in [Items -> Pointer] /\ prev \in [Items -> Pointer]
        BY DEF ListInv, TypeOK
      <4>8. /\ \A x \in Items : next'[x] = IF x = c[j - 1] THEN next[i] ELSE next[x]
            /\ \A x \in Items : prev'[x] = IF x = next[i] THEN c[j - 1] ELSE prev[x]
        BY <4>2, <4>6, <4>7
      <4>9. d # <<>> /\ d[1] = c[1] /\ n - 1 \in Nat \ {0}
        <5>1. n - 1 \in Nat \ {0} /\ 1 \in 1..(n - 1) /\ 1 < j
          BY <3>2, <4>1, <2>2
        <5>2. d[1] = c[1]
          BY <5>1, <2>4
        <5> QED BY <5>1, <5>2, <2>4
      <4>10. next'[d[n - 1]] = d[1] /\ prev'[d[1]] = d[n - 1]
        <5>1. CASE j = n
          <6>1. d[n - 1] = c[n - 1] /\ next[i] = c[1]
            BY <5>1, <4>3, <4>9, <2>4
          <6> QED BY <6>1, <5>1, <4>1, <4>8, <4>9, <2>2, <2>7
        <5>2. CASE j # n
          <6>1. d[n - 1] = c[n] /\ next[i] = c[j + 1] /\ j + 1 \in 1..n
            BY <5>2, <4>3, <4>9, <2>2, <2>4
          <6>2. c[n] # c[j - 1] /\ c[1] # c[j + 1] /\ n \in 1..n /\ 1 \in 1..n
            BY <5>2, <6>1, <4>1, <2>2, <2>6
          <6> QED BY <6>1, <6>2, <4>8, <4>9, <2>2, <2>7
        <5> QED BY <5>1, <5>2
      <4>11. ASSUME NEW k \in 1..((n - 1) - 1)
             PROVE  next'[d[k]] = d[k + 1] /\ prev'[d[k + 1]] = d[k]
        <5>1. /\ k \in 1..(n - 1) /\ k + 1 \in 1..(n - 1) /\ k \in 1..n /\ k + 1 \in 1..n
              /\ k + 2 \in 1..n /\ (k + 1) + 1 = k + 2
          BY <2>2
        <5>2. CASE k + 1 < j
          <6>1. d[k] = c[k] /\ d[k + 1] = c[k + 1]
            BY <5>1, <5>2, <2>4
          <6>2. c[k] # c[j - 1] /\ c[k + 1] # next[i]
            BY <5>1, <5>2, <4>1, <4>3, <2>2, <2>6
          <6> QED BY <6>1, <6>2, <5>1, <4>8, <2>2, <2>7
        <5>3. CASE k + 1 = j
          <6>1. d[k] = c[k] /\ d[k + 1] = c[k + 2] /\ k = j - 1 /\ j # n
            BY <5>1, <5>3, <2>4
          <6>2. next[i] = c[k + 2]
            BY <6>1, <5>1, <5>3, <4>3
          <6> QED BY <6>1, <6>2, <5>1, <4>8, <2>7
        <5>4. CASE k + 1 > j
          <6>1. d[k] = c[k + 1] /\ d[k + 1] = c[k + 2]
            BY <5>1, <5>4, <2>4
          <6>2. c[k + 1] # c[j - 1] /\ c[k + 2] # next[i]
            BY <5>1, <5>4, <4>1, <4>3, <2>2, <2>6
          <6>3. next[c[k + 1]] = c[k + 2] /\ prev[c[k + 2]] = c[k + 1]
            BY <5>1, <2>2
          <6> QED BY <6>1, <6>2, <6>3, <5>1, <4>8, <2>7
        <5> QED BY <5>1, <5>2, <5>3, <5>4
      <4>12. \A k \in 1..Len(d) : next'[d[k]] = d[After(k, d)] /\ prev'[d[After(k, d)]] = d[k]
        <5>1. \A k \in 1..(Len(d) - 1) : next'[d[k]] = d[k + 1] /\ prev'[d[k + 1]] = d[k]
          BY <4>11, <2>4
        <5>2. next'[d[Len(d)]] = d[1] /\ prev'[d[1]] = d[Len(d)]
          BY <4>10, <2>4
        <5> TAKE k \in 1..Len(d)
        <5>3. CASE k = Len(d)
          BY <5>2, <5>3 DEF After
        <5>4. CASE k # Len(d)
          <6>1. k \in 1..(Len(d) - 1) /\ After(k, d) = k + 1
            BY <5>4, <2>2, <2>4 DEF After
          <6> QED BY <6>1, <5>1
        <5> QED BY <5>3, <5>4
      <4>13. list' = Head(d)
        BY <4>6, <4>9, <2>2, <2>4
      <4> QED BY <4>6, <4>9, <4>12, <4>13 DEF IsRing, After
    <3> QED BY <3>1, <3>2
  <2>9. LinkedAt(w)'
    <3>1. pc'[w] = "clear"
      BY <2>8, Labels DEF ListInv, TypeOK
    <3>2. Without(arg[w])' = d
      BY <1>1, <2>5 DEF Without
    <3> QED BY <3>1, <3>2, <2>8 DEF LinkedAt
  <2> QED BY <1>1, <2>1, <2>8, <2>9, LinkedStep, Labels
<1> QED BY <1>1, <1>8, <1>9, <1>10, <1>11, <1>12 DEF ListInv, HeadStays

\* The resets of the item taken out.
LEMMA RemoveClearInv ==
    ASSUME ListInv, NEW w \in Writers, RemoveClear(w)
    PROVE  ListInv'
<1> DEFINE i == arg[w]
           c == contents
<1>1. /\ pc[w] = "clear" /\ pc' = [pc EXCEPT ![w] = "unlock"]
      /\ next' = [next EXCEPT ![i] = NULL] /\ prev' = [prev EXCEPT ![i] = NULL]
      /\ contents' = Without(i)
      /\ UNCHANGED <<kind, preemptible, list, locked, arg, iter, visited>>
  BY DEF RemoveClear, Goto
<1>2. /\ i \in ToSet(c) /\ kind = "registry"
      /\ \/ RemoveHead = "any"
         \/ i # Head(c)
         \/ ~preemptible /\ Len(c) = 1
  BY <1>1 DEF ListInv, Ownership
<1>3. c \in Seq(Items) /\ IsInjective(c)
  BY DEF ListInv, TypeOK
<1>4. PICK j \in 1..Len(c) : c[j] = i /\ Without(i) = RemoveAt(c, j)
  BY <1>2, <1>3, WithoutFacts
<1> PICK d : d = RemoveAt(c, j)
  OBVIOUS
<1>5. /\ d \in Seq(Items) /\ IsInjective(d) /\ Len(d) = Len(c) - 1
      /\ \A k \in 1..(Len(c) - 1) : d[k] = IF k < j THEN c[k] ELSE c[k + 1]
      /\ ToSet(d) = ToSet(c) \ {i} /\ contents' = d
  BY <1>1, <1>3, <1>4, RemoveAtFacts
<1>6. \A u \in Writers : pc'[u] = IF u = w THEN "unlock" ELSE pc[u]
  BY <1>1, Labels DEF ListInv, TypeOK
<1>7. i \in Items
  BY <1>3, <1>4
<1>8. TypeOK'
  <2>1. next' \in [Items -> Pointer] /\ prev' \in [Items -> Pointer]
    BY <1>1 DEF ListInv, TypeOK, Pointer
  <2>2. pc' \in [Threads -> WriterPC \cup Linking \cup {"iterate", "done", "panic"}]
    BY <1>1, Labels DEF ListInv, TypeOK
  <2> QED BY <2>1, <2>2, <1>1, <1>5 DEF ListInv, TypeOK
<1>9. OneLinker'
  BY <1>1, Labels, LinkerStep
<1>10. Ownership'
  <2>1. \A u \in Writers : u # w => arg[u] # i
    BY <1>7, Labels DEF ListInv, Ownership
  <2>2. ASSUME NEW u \in Writers, u # w, pc[u] \in {"remove", "remove_held", "clear"}
        PROVE  /\ kind = "registry" /\ arg[u] \in ToSet(d)
               /\ RemoveHead = "any" \/ arg[u] # Head(d)
    <3>1. preemptible
      BY <1>1, <2>2, Labels DEF ListInv, Alone
    <3>2. arg[u] \in ToSet(c) /\ (RemoveHead = "any" \/ arg[u] # Head(c))
      BY <2>2, <3>1 DEF ListInv, Ownership
    <3>3. RemoveHead # "any" => Head(d) = Head(c)
      <4> SUFFICES ASSUME RemoveHead # "any" PROVE Head(d) = Head(c)
        OBVIOUS
      <4>1. Len(c) \in Nat /\ Head(c) = c[1] /\ j # 1
        BY <1>2, <1>3, <1>4, <3>1
      <4>2. 1 \in 1..(Len(c) - 1) /\ 1 < j
        BY <4>1
      <4>3. d[1] = c[1] /\ Len(d) # 0
        BY <4>1, <4>2, <1>5
      <4> QED BY <4>1, <4>3, <1>5
    <3> QED BY <1>2, <1>5, <2>1, <2>2, <3>2, <3>3
  <2>3. ASSUME NEW u \in Writers, u # w
        PROVE  /\ pc'[u] = pc[u]
               /\ pc[u] \in {"append", "append_held", "close", "self"} =>
                     arg[u] \in Items \ ToSet(d)
    BY <1>5, <1>6, <2>3 DEF ListInv, Ownership
  <2> QED BY <1>1, <1>5, <1>6, <2>2, <2>3 DEF ListInv, Ownership
<1>11. Alone' /\ (~preemptible => Iterating')
  BY <1>1, WriterAlone
<1>12. HeadStays => Linked'
  <2> SUFFICES ASSUME HeadStays PROVE Linked'
    OBVIOUS
  <2>1. Linked /\ IsRing(d)
    BY <1>1, <1>4 DEF ListInv, Linked, LinkedAt
  <2>2. \A k \in 1..Len(d) : d[k] \in Items /\ d[k] # i
    <3>1. \A k \in 1..Len(d) : d[k] \in Items /\ d[k] \in ToSet(d)
      BY <1>5 DEF ToSet
    <3> QED BY <3>1, <1>5
  <2>3. \A x \in Items : x # i => next'[x] = next[x] /\ prev'[x] = prev[x]
    BY <1>1 DEF ListInv, TypeOK
  <2>4. \A k \in 1..Len(d) : After(k, d) \in 1..Len(d)
    BY <1>5 DEF After
  <2>5. \A k \in 1..Len(d) : /\ next'[d[k]] = d[After(k, d)]
                             /\ prev'[d[After(k, d)]] = d[k]
    <3> TAKE k \in 1..Len(d)
    <3>1. next[d[k]] = d[After(k, d)] /\ prev[d[After(k, d)]] = d[k]
      BY <2>1 DEF IsRing
    <3> QED BY <3>1, <2>2, <2>3, <2>4
  <2>6. IsRing(contents)'
    BY <1>1, <1>5, <2>1, <2>5 DEF IsRing, After
  <2>7. LinkedAt(w)'
    BY <1>1, Labels DEF LinkedAt, ListInv, TypeOK
  <2> QED BY <1>1, <2>1, <2>6, <2>7, LinkedStep, Labels
<1> QED BY <1>1, <1>8, <1>9, <1>10, <1>11, <1>12 DEF ListInv, HeadStays

\* The last item is popped.
LEMMA PopLastInv ==
    ASSUME ListInv, NEW w \in Writers, PopLast(w)
    PROVE  ListInv'
<1> DEFINE c == contents
           n == Len(contents)
<1>1. /\ pc[w] = "pop_held" /\ pc' = [pc EXCEPT ![w] = "unlock"]
      /\ UNCHANGED <<kind, preemptible, locked, arg, iter, visited>>
  BY DEF PopLast, Goto
<1>2. kind = "stack" /\ HeadStays /\ Linked
  BY <1>1 DEF ListInv, Ownership, HeadStays
<1>3. IsRing(c)
  BY <1>1, <1>2, RingHeld
<1>4. c \in Seq(Items) /\ IsInjective(c)
  BY DEF ListInv, TypeOK
<1>5. OneLinker'
  BY <1>1, Labels, LinkerStep
<1>6. Alone' /\ (~preemptible => Iterating')
  BY <1>1, WriterAlone
<1>7. \A u \in Writers : pc'[u] = IF u = w THEN "unlock" ELSE pc[u]
  BY <1>1, Labels DEF ListInv, TypeOK
<1>8. pc' \in [Threads -> WriterPC \cup Linking \cup {"iterate", "done", "panic"}]
  BY <1>1, Labels DEF ListInv, TypeOK
<1>9. LinkedAt(w)'
  BY <1>1, Labels DEF LinkedAt, ListInv, TypeOK
<1>10. CASE list = NULL
  <2>1. UNCHANGED <<list, next, prev, contents>>
    BY <1>10 DEF PopLast
  <2>2. TypeOK'
    BY <1>1, <1>8, <2>1 DEF ListInv, TypeOK
  <2>3. Ownership'
    BY <1>1, <1>7, <2>1 DEF ListInv, Ownership
  <2>4. IsRing(contents)'
    BY <1>3, <2>1 DEF IsRing, After
  <2>5. Linked'
    BY <1>1, <1>2, <1>9, <2>4, LinkedStep, Labels
  <2> QED BY <1>1, <1>5, <1>6, <2>2, <2>3, <2>5 DEF ListInv
<1>11. CASE list # NULL
  <2>1. /\ c # <<>> /\ n \in Nat \ {0} /\ list = c[1] /\ list \in Items
        /\ next[c[n]] = c[1] /\ prev[c[1]] = c[n] /\ c[n] \in Items
        /\ \A k \in 1..(n - 1) : next[c[k]] = c[k + 1] /\ prev[c[k + 1]] = c[k]
    BY <1>3, <1>4, <1>11, RingFacts
  <2>2. /\ contents' = Front(c)
        /\ \/ list = c[n] /\ list' = NULL /\ UNCHANGED <<next, prev>>
           \/ /\ list # c[n] /\ list' = list
              /\ prev' = [prev EXCEPT ![list] = prev[c[n]]]
              /\ next' = [next EXCEPT ![prev[c[n]]] = list]
    BY <1>11, <2>1 DEF PopLast
  <2> PICK d : d = Front(c)
    OBVIOUS
  <2>3. /\ d \in Seq(Items) /\ IsInjective(d) /\ Len(d) = n - 1
        /\ \A k \in 1..(n - 1) : d[k] = c[k]
        /\ ToSet(d) \subseteq ToSet(c) /\ contents' = d
    BY <1>4, <2>1, <2>2, FrontFacts
  <2>4. next \in [Items -> Pointer] /\ prev \in [Items -> Pointer] /\ list \in Pointer
    BY DEF ListInv, TypeOK
  <2>5. TypeOK'
    <3>1. list' \in Pointer /\ next' \in [Items -> Pointer] /\ prev' \in [Items -> Pointer]
      BY <2>1, <2>2, <2>4 DEF Pointer
    <3> QED BY <3>1, <1>1, <1>8, <2>3 DEF ListInv, TypeOK
  <2>6. Ownership'
    <3>1. ASSUME NEW u \in Writers
          PROVE  pc[u] \notin {"remove", "remove_held", "clear"}
      BY <1>2 DEF ListInv, Ownership
    <3> QED BY <1>1, <1>7, <2>3, <3>1 DEF ListInv, Ownership
  <2>7. IsRing(contents)'
    <3>1. CASE n = 1
      <4>1. list' = NULL /\ Len(d) = 0 /\ d = <<>>
        BY <3>1, <2>1, <2>2, <2>3
      <4> QED BY <4>1, <2>3 DEF IsRing
    <3>2. CASE n # 1
      <4>1. /\ n - 1 \in 1..(n - 1) /\ 1 \in 1..(n - 1) /\ 1 \in 1..n /\ n \in 1..n
            /\ (n - 1) + 1 = n /\ n - 1 \in 1..n
        <5>1. n \in Nat \ {0} /\ n # 1
          BY <3>2, <2>1
        <5> HIDE DEF n
        <5> QED BY <5>1
      <4>2. c[1] # c[n] /\ c[n - 1] \in Items
        BY <4>1, <3>2, <1>4 DEF IsInjective
      <4>3. prev[c[n]] = c[n - 1] /\ d # <<>> /\ d[1] = c[1] /\ d[n - 1] = c[n - 1]
        <5>1. prev[c[(n - 1) + 1]] = c[n - 1]
          BY <4>1, <2>1
        <5> QED BY <5>1, <4>1, <2>3
      <4>4. /\ list' = list
            /\ \A x \in Items : prev'[x] = IF x = c[1] THEN c[n - 1] ELSE prev[x]
            /\ \A x \in Items : next'[x] = IF x = c[n - 1] THEN c[1] ELSE next[x]
        BY <4>2, <4>3, <2>1, <2>2, <2>4
      <4>5. ASSUME NEW k \in 1..Len(d)
            PROVE  next'[d[k]] = d[After(k, d)] /\ prev'[d[After(k, d)]] = d[k]
        <5>1. CASE k = n - 1
          BY <5>1, <4>1, <4>2, <4>3, <4>4, <2>1, <2>3 DEF After
        <5>2. CASE k # n - 1
          <6>1. /\ k \in 1..(n - 1) /\ k + 1 \in 1..(n - 1) /\ After(k, d) = k + 1
                /\ k \in 1..n /\ k + 1 \in 1..n
            BY <5>2, <2>1, <2>3 DEF After
          <6>2. c[k] # c[n - 1] /\ c[k + 1] # c[1] /\ c[k] \in Items /\ c[k + 1] \in Items
            <7>1. \A x, y \in 1..n : c[x] \in Items /\ (c[x] = c[y] => x = y)
              BY <1>4 DEF IsInjective
            <7>2. k + 1 # 1
              BY <6>1
            <7> QED BY <7>1, <7>2, <6>1, <4>1, <5>2
          <6> QED BY <6>1, <6>2, <4>4, <2>1, <2>3
        <5> QED BY <5>1, <5>2
      <4>6. list' = Head(d)
        BY <4>3, <4>4, <2>1, <2>3
      <4> QED BY <4>3, <4>5, <4>6, <2>3 DEF IsRing, After
    <3> QED BY <3>1, <3>2
  <2>8. Linked'
    BY <1>1, <1>2, <1>9, <2>7, LinkedStep, Labels
  <2> QED BY <1>1, <1>5, <1>6, <2>5, <2>6, <2>8 DEF ListInv
<1> QED BY <1>10, <1>11

-----------------------------------------------------------------------------
(* The readers.                                                             *)

\* A reader changes nothing the writers see.
LEMMA ReaderFrame ==
    ASSUME ListInv, NEW r \in Readers, NEW l \in {"idle", "iterate", "done", "panic"},
           pc' = [pc EXCEPT ![r] = l], pc[r] # "idle" \/ Enter(r),
           UNCHANGED <<kind, preemptible, list, next, prev, locked, arg, contents>>
    PROVE  /\ OneLinker' /\ Ownership' /\ Alone'
           /\ HeadStays => Linked'
           /\ ~preemptible => \A t \in Threads : t # r => pc'[t] = "idle"
           /\ ~preemptible /\ HeadStays => IsRing(contents)
           /\ pc'[r] = l
           /\ pc' \in [Threads -> WriterPC \cup Linking \cup {"iterate", "done", "panic"}]
<1>1. \A t \in Threads : pc'[t] = IF t = r THEN l ELSE pc[t]
  BY Labels DEF ListInv, TypeOK
<1>2. \A w \in Writers : pc'[w] = pc[w]
  BY <1>1, Labels
<1>3. OneLinker'
  BY <1>2 DEF ListInv, OneLinker
<1>4. Ownership'
  BY <1>2 DEF ListInv, Ownership
<1>5. ~preemptible => \A t \in Threads : t # r => pc[t] = "idle"
  BY Labels DEF ListInv, Alone, Enter
<1>6. Alone'
  BY <1>1, <1>5 DEF Alone
<1>7. HeadStays => Linked'
  <2> SUFFICES ASSUME HeadStays PROVE Linked'
    OBVIOUS
  <2>1. Linked /\ (IsRing(contents)' <=> IsRing(contents))
    BY DEF ListInv, IsRing, After
  <2>2. \A w \in Writers : LinkedAt(w)' <=> LinkedAt(w)
    BY <1>2 DEF LinkedAt, ClosePending, IsRing, After, Without
  <2> QED BY <1>2, <2>1, <2>2 DEF Linked
<1>8. ~preemptible /\ HeadStays => IsRing(contents)
  BY <1>5, Labels DEF ListInv, Linked
<1>9. pc' \in [Threads -> WriterPC \cup Linking \cup {"iterate", "done", "panic"}]
  BY DEF ListInv, TypeOK, WriterPC
<1> QED BY <1>1, <1>3, <1>4, <1>5, <1>6, <1>7, <1>8, <1>9, Labels

\* An iteration begins, ends or is left.
LEMMA IterateOtherInv ==
    ASSUME ListInv, NEW r \in Readers,
           IteratorInit(r) \/ IterateEnd(r) \/ IterateReturn(r)
    PROVE  ListInv'
<1>1. UNCHANGED <<kind, preemptible, list, next, prev, locked, arg, contents>>
  BY DEF IteratorInit, IterateEnd, IterateReturn
<1>2. CASE IteratorInit(r)
  <2>1. /\ Enter(r) /\ pc' = [pc EXCEPT ![r] = "iterate"]
        /\ iter' = [iter EXCEPT ![r] = [first |-> list, curr |-> NULL]]
        /\ visited' = [visited EXCEPT ![r] = <<>>]
    BY <1>2 DEF IteratorInit, Goto
  <2>2. /\ OneLinker' /\ Ownership' /\ Alone' /\ (HeadStays => Linked')
        /\ ~preemptible => \A t \in Threads : t # r => pc'[t] = "idle"
        /\ pc'[r] = "iterate"
        /\ pc' \in [Threads -> WriterPC \cup Linking \cup {"iterate", "done", "panic"}]
    BY <1>1, <2>1, ReaderFrame
  <2>3. TypeOK'
    BY <1>1, <2>1, <2>2 DEF ListInv, TypeOK, Pointer
  <2>4. ~preemptible => Iterating'
    <3> SUFFICES ASSUME ~preemptible PROVE Iterating'
      OBVIOUS
    <3>1. iter'[r] = [first |-> list, curr |-> NULL] /\ visited'[r] = <<>>
      BY <2>1 DEF ListInv, TypeOK
    <3>2. contents \in Seq(Items) /\ SubSeq(contents, 1, 0) = <<>> /\ Len(contents) \in Nat
      BY DEF ListInv, TypeOK
    <3>3. IteratingAt(r)'
      BY <1>1, <2>2, <3>1, <3>2 DEF IteratingAt
    <3>4. ASSUME NEW q \in Readers, q # r PROVE IteratingAt(q)'
      BY <2>2, <3>4, Labels DEF IteratingAt
    <3> QED BY <3>3, <3>4 DEF Iterating
  <2> QED BY <1>1, <2>2, <2>3, <2>4 DEF ListInv, HeadStays
<1>3. CASE IterateEnd(r)
  <2>1. /\ pc[r] = "iterate" /\ pc' = [pc EXCEPT ![r] = "done"]
        /\ \/ iter[r].first = NULL
           \/ iter[r].curr # NULL /\ next[iter[r].curr] = iter[r].first
        /\ UNCHANGED <<iter, visited>>
    BY <1>3 DEF IterateEnd, Goto, Upcoming
  <2>2. /\ OneLinker' /\ Ownership' /\ Alone' /\ (HeadStays => Linked')
        /\ ~preemptible => \A t \in Threads : t # r => pc'[t] = "idle"
        /\ ~preemptible /\ HeadStays => IsRing(contents)
        /\ pc'[r] = "done"
        /\ pc' \in [Threads -> WriterPC \cup Linking \cup {"iterate", "done", "panic"}]
    BY <1>1, <2>1, ReaderFrame
  <2>3. TypeOK'
    BY <1>1, <2>1, <2>2 DEF ListInv, TypeOK
  <2>4. ~preemptible /\ HeadStays => Iterating'
    <3> SUFFICES ASSUME ~preemptible, HeadStays PROVE Iterating'
      OBVIOUS
    <3> DEFINE c == contents
               v == visited[r]
               m == Len(visited[r])
    <3>1. /\ Iterating /\ IsRing(c) /\ c \in Seq(Items) /\ IsInjective(c)
          /\ v \in Seq(Items) /\ m \in Nat
      BY <2>2 DEF ListInv, TypeOK
    <3>2. /\ iter[r].first = list /\ v = SubSeq(c, 1, m) /\ m <= Len(c)
          /\ iter[r].curr = IF v = <<>> THEN NULL ELSE Last(v)
      BY <2>1, <3>1 DEF Iterating, IteratingAt
    <3>3. m = Len(c)
      <4>1. CASE list = NULL
        BY <4>1, <3>1, <3>2, RingFacts
      <4>2. CASE list # NULL
        <5>1. v # <<>> /\ next[Last(v)] = list
          BY <2>1, <3>2, <4>2
        <5>2. m \in 1..Len(c) /\ Last(v) = v[m]
          BY <3>1, <3>2, <5>1 DEF Last
        <5>3. v[m] = c[m]
          BY <3>1, <3>2, <5>2
        <5>4. /\ Len(c) \in Nat \ {0} /\ list = c[1]
              /\ \A k \in 1..(Len(c) - 1) : next[c[k]] = c[k + 1]
          BY <3>1, <4>2, RingFacts
        <5>5. SUFFICES ASSUME m \in 1..(Len(c) - 1) PROVE FALSE
          BY <5>2, <5>4
        <5>6. c[m + 1] = c[1] /\ m + 1 \in 1..Len(c) /\ 1 \in 1..Len(c) /\ m + 1 # 1
          BY <5>1, <5>2, <5>3, <5>4, <5>5
        <5> QED BY <5>6, <3>1 DEF IsInjective
      <4> QED BY <4>1, <4>2
    <3> QED BY <1>1, <2>1, <2>2, <3>2, <3>3, Labels DEF Iterating, IteratingAt
  <2> QED BY <1>1, <2>2, <2>3, <2>4 DEF ListInv, HeadStays
<1>4. CASE IterateReturn(r)
  <2>1. /\ pc[r] = "done" /\ pc' = [pc EXCEPT ![r] = "idle"]
        /\ iter' = [iter EXCEPT ![r] = [first |-> NULL, curr |-> NULL]]
        /\ visited' = [visited EXCEPT ![r] = <<>>]
    BY <1>4 DEF IterateReturn, Goto
  <2>2. /\ OneLinker' /\ Ownership' /\ Alone' /\ (HeadStays => Linked')
        /\ ~preemptible => \A t \in Threads : t # r => pc'[t] = "idle"
        /\ pc'[r] = "idle"
        /\ pc' \in [Threads -> WriterPC \cup Linking \cup {"iterate", "done", "panic"}]
    BY <1>1, <2>1, ReaderFrame
  <2>3. TypeOK'
    BY <1>1, <2>1, <2>2 DEF ListInv, TypeOK, Pointer
  <2>4. ~preemptible => Iterating'
    BY <2>2, Labels DEF Iterating, IteratingAt
  <2> QED BY <1>1, <2>2, <2>3, <2>4 DEF ListInv, HeadStays
<1> QED BY <1>2, <1>3, <1>4

\* The iterator hands out an item.
LEMMA IterateItemInv ==
    ASSUME ListInv, NEW r \in Readers, IterateItem(r)
    PROVE  ListInv'
<1> DEFINE curr == IF iter[r].curr = NULL THEN iter[r].first ELSE next[iter[r].curr]
<1>1. /\ pc[r] = "iterate" /\ iter[r].first # NULL
      /\ iter[r].curr = NULL \/ curr # iter[r].first
      /\ UNCHANGED <<kind, preemptible, list, next, prev, locked, arg, contents>>
      /\ \/ curr = NULL /\ pc' = [pc EXCEPT ![r] = "panic"] /\ UNCHANGED <<iter, visited>>
         \/ /\ curr # NULL /\ pc' = pc
            /\ iter' = [iter EXCEPT ![r].curr = curr]
            /\ visited' = [visited EXCEPT ![r] = Append(@, curr)]
  BY DEF IterateItem, Goto, Upcoming
<1>2. PICK l \in {"iterate", "panic"} :
        pc' = [pc EXCEPT ![r] = l] /\ (l = "panic" <=> curr = NULL)
  BY <1>1 DEF ListInv, TypeOK
<1>3. /\ OneLinker' /\ Ownership' /\ Alone' /\ (HeadStays => Linked')
      /\ ~preemptible => \A t \in Threads : t # r => pc'[t] = "idle"
      /\ ~preemptible /\ HeadStays => IsRing(contents)
      /\ pc'[r] = l
      /\ pc' \in [Threads -> WriterPC \cup Linking \cup {"iterate", "done", "panic"}]
  BY <1>1, <1>2, ReaderFrame
<1>4. /\ iter[r] \in [first : Pointer, curr : Pointer] /\ visited[r] \in Seq(Items)
      /\ curr \in Pointer
  BY DEF ListInv, TypeOK, Pointer
<1>5. curr # NULL => /\ iter' = [iter EXCEPT ![r].curr = curr] /\ curr \in Items
                     /\ visited' = [visited EXCEPT ![r] = Append(@, curr)]
  BY <1>1, <1>4 DEF Pointer
<1>6. TypeOK'
  <2>1. visited' \in [Readers -> Seq(Items)]
    <3>1. CASE curr = NULL
      BY <1>1, <3>1 DEF ListInv, TypeOK
    <3>2. CASE curr # NULL
      <4>1. Append(visited[r], curr) \in Seq(Items) /\ visited \in [Readers -> Seq(Items)]
        BY <1>4, <1>5, <3>2 DEF ListInv, TypeOK
      <4> HIDE DEF curr
      <4> QED BY <4>1, <1>5, <3>2
    <3> QED BY <3>1, <3>2
  <2>2. iter' \in [Readers -> [first : Pointer, curr : Pointer]]
    <3>0. iter \in [Readers -> [first : Pointer, curr : Pointer]]
      BY DEF ListInv, TypeOK
    <3>1. CASE curr = NULL
      BY <1>1, <3>0, <3>1
    <3>2. CASE curr # NULL
      <4>1. iter' = [iter EXCEPT ![r].curr = curr]
        BY <1>5, <3>2
      <4> HIDE DEF curr
      <4> QED BY <1>4, <3>0, <4>1
    <3> QED BY <3>1, <3>2
  <2> QED BY <1>1, <1>3, <2>1, <2>2 DEF ListInv, TypeOK
<1>7. ~preemptible /\ HeadStays => Iterating'
  <2> SUFFICES ASSUME ~preemptible, HeadStays PROVE Iterating'
    OBVIOUS
  <2> DEFINE c == contents
             v == visited[r]
             m == Len(visited[r])
  <2>1. /\ Iterating /\ IsRing(c) /\ c \in Seq(Items) /\ IsInjective(c)
        /\ v \in Seq(Items) /\ m \in Nat
    BY <1>3 DEF ListInv, TypeOK
  <2>2. /\ iter[r].first = list /\ v = SubSeq(c, 1, m) /\ m <= Len(c)
        /\ iter[r].curr = IF v = <<>> THEN NULL ELSE Last(v)
    BY <1>1, <2>1 DEF Iterating, IteratingAt
  <2>3. /\ Len(c) \in Nat \ {0} /\ list = c[1] /\ next[c[Len(c)]] = c[1]
        /\ \A k \in 1..(Len(c) - 1) : next[c[k]] = c[k + 1]
        /\ \A k \in 1..Len(c) : c[k] \in Items
    BY <1>1, <2>1, <2>2, RingFacts
  <2>4. m < Len(c) /\ curr = c[m + 1]
    <3>1. CASE v = <<>>
      <4>1. m = 0 /\ curr = list
        BY <3>1, <2>2
      <4> QED BY <4>1, <2>3
    <3>2. CASE v # <<>>
      <4>1. m \in 1..Len(c) /\ Last(v) = v[m]
        BY <2>1, <2>2, <3>2 DEF Last
      <4>2. v[m] = c[m]
        BY <2>1, <2>2, <4>1
      <4>3. iter[r].curr = c[m] /\ c[m] # NULL
        BY <2>2, <2>3, <3>2, <4>1, <4>2, Labels
      <4>4. curr = next[c[m]] /\ curr # c[1]
        BY <1>1, <2>2, <2>3, <4>3
      <4>5. m # Len(c)
        BY <4>4, <2>3
      <4>6. m \in 1..(Len(c) - 1)
        BY <4>1, <4>5, <2>3
      <4> QED BY <4>4, <4>6, <2>3
    <3> QED BY <3>1, <3>2
  <2>5. m + 1 \in 1..Len(c) /\ curr \in Items /\ curr # NULL
    BY <2>1, <2>3, <2>4, Labels
  <2> HIDE DEF curr
  <2>6. visited'[r] = Append(v, curr) /\ iter'[r].curr = curr /\ iter'[r].first = list
    BY <1>4, <1>5, <2>2, <2>5 DEF ListInv, TypeOK
  <2>7. /\ Len(visited'[r]) = m + 1 /\ Last(visited'[r]) = curr /\ visited'[r] # <<>>
    BY <2>1, <2>5, <2>6 DEF Last
  <2>8. Append(v, curr) = SubSeq(c, 1, m + 1)
    <3>1. SubSeq(c, 1, m + 1) \in Seq(Items) /\ Len(SubSeq(c, 1, m + 1)) = m + 1
      BY <2>1, <2>5
    <3>2. \A k \in 1..(m + 1) : SubSeq(c, 1, m + 1)[k] = c[k]
      BY <2>1, <2>5
    <3>3. /\ Append(v, curr) \in Seq(Items) /\ Len(Append(v, curr)) = m + 1
          /\ \A k \in 1..m : Append(v, curr)[k] = v[k]
          /\ Append(v, curr)[m + 1] = curr
      BY <2>1, <2>5
    <3>4. \A k \in 1..m : v[k] = c[k]
      BY <2>1, <2>2
    <3>5. \A k \in 1..(m + 1) : Append(v, curr)[k] = SubSeq(c, 1, m + 1)[k]
      BY <3>2, <3>3, <3>4, <2>1, <2>4
    <3> QED BY <3>1, <3>3, <3>5
  <2>9. l = "iterate"
    BY <1>2, <2>5 DEF curr
  <2>10. IteratingAt(r)'
    <3>1. pc'[r] = "iterate" /\ list' = list /\ contents' = contents
      BY <1>1, <1>3, <2>9
    <3>2. m + 1 <= Len(c)
      BY <2>5, <2>3
    <3> QED BY <3>1, <3>2, <2>6, <2>7, <2>8 DEF IteratingAt
  <2>11. ASSUME NEW q \in Readers, q # r PROVE IteratingAt(q)'
    BY <1>3, <2>11, Labels DEF IteratingAt
  <2> QED BY <2>10, <2>11 DEF Iterating
<1> QED BY <1>1, <1>3, <1>6, <1>7 DEF ListInv, HeadStays

-----------------------------------------------------------------------------
(* The theorems.                                                            *)

\* Every step keeps the invariant.
LEMMA NextInv == ListInv /\ [Next]_vars => ListInv'
<1> SUFFICES ASSUME ListInv, [Next]_vars PROVE ListInv'
  OBVIOUS
<1>1. ASSUME NEW w \in Writers, WriterNext(w)
      PROVE  ListInv'
  <2>1. CASE CallAppend(w) \/ CallRemove(w) \/ CallPop(w)
    BY <2>1, CallInv
  <2>2. CASE Lock(w)
    BY <2>2, LockInv
  <2>3. CASE Unlock(w)
    BY <2>3, UnlockInv
  <2>4. CASE AppendLink(w)
    BY <2>4, AppendLinkInv
  <2>5. CASE AppendClose(w)
    BY <2>5, AppendCloseInv
  <2>6. CASE AppendFirst(w)
    BY <2>6, AppendFirstInv
  <2>7. CASE AppendSelf(w)
    BY <2>7, AppendSelfInv
  <2>8. CASE RemoveUnlink(w)
    BY <2>8, RemoveUnlinkInv
  <2>9. CASE RemoveClear(w)
    BY <2>9, RemoveClearInv
  <2>10. CASE PopLast(w)
    BY <2>10, PopLastInv
  <2> QED BY <1>1, <2>1, <2>2, <2>3, <2>4, <2>5, <2>6, <2>7, <2>8, <2>9, <2>10 DEF WriterNext
<1>2. ASSUME NEW r \in Readers, ReaderNext(r)
      PROVE  ListInv'
  BY <1>2, IterateItemInv, IterateOtherInv DEF ReaderNext
<1>3. CASE UNCHANGED vars
  <2>1. UNCHANGED <<kind, preemptible, list, next, prev, locked, pc, arg, iter, visited, contents>>
    BY <1>3 DEF vars
  <2>2. TypeOK' /\ OneLinker' /\ Ownership' /\ Alone'
    BY <2>1 DEF ListInv, TypeOK, OneLinker, Ownership, Alone
  <2>3. Linked => Linked'
    <3>1. IsRing(contents)' <=> IsRing(contents)
      BY <2>1 DEF IsRing, After
    <3>2. \A w \in Writers : LinkedAt(w)' <=> LinkedAt(w)
      BY <2>1 DEF LinkedAt, ClosePending, IsRing, After, Without
    <3> QED BY <2>1, <3>1, <3>2 DEF Linked
  <2>4. Iterating => Iterating'
    BY <2>1 DEF Iterating, IteratingAt
  <2> QED BY <2>1, <2>2, <2>3, <2>4 DEF ListInv, HeadStays
<1> QED BY <1>1, <1>2, <1>3 DEF Next

(* The lock of kernel/src/data/llist.c is exclusive, and while the first     *)
(* item of a list stays first, the stores of append, remove and pop take     *)
(* the pointers from one ring to the next, whatever interleaves with them.   *)
THEOREM ListCorrect == Spec => []ListInv
<1> QED BY InitInv, NextInv, PTL DEF Spec

\* Only readers panic, and only writers fault.
Roles == (\A w \in Writers : pc[w] # "panic") /\ (\A r \in Readers : pc[r] # "fault")

LEMMA RolesKept == Spec => []Roles
<1>1. Init => Roles
  BY Labels DEF Init, Roles
<1>2. ListInv /\ Roles /\ [Next]_vars => Roles'
  <2> SUFFICES ASSUME ListInv, Roles, [Next]_vars PROVE Roles'
    OBVIOUS
  <2>1. pc \in [Threads -> WriterPC \cup Linking \cup {"iterate", "done", "panic"}]
    BY DEF ListInv, TypeOK
  <2>2. ASSUME NEW w \in Writers, WriterNext(w)
        PROVE  \E l : l # "panic" /\ pc' = [pc EXCEPT ![w] = l]
    BY <2>2, Labels DEF WriterNext, CallAppend, CallRemove, CallPop, Lock, Unlock,
         AppendLink, AppendClose, AppendFirst, AppendSelf, RemoveUnlink, RemoveClear,
         PopLast, Goto
  <2>3. ASSUME NEW r \in Readers, ReaderNext(r)
        PROVE  pc' = pc \/ \E l : l # "fault" /\ pc' = [pc EXCEPT ![r] = l]
    BY <2>3 DEF ReaderNext, IteratorInit, IterateItem, IterateEnd, IterateReturn, Goto
  <2>4. CASE \E w \in Writers : WriterNext(w)
    BY <2>1, <2>2, <2>4, Labels DEF Roles
  <2>5. CASE \E r \in Readers : ReaderNext(r)
    BY <2>1, <2>3, <2>5, Labels DEF Roles
  <2>6. CASE UNCHANGED vars
    BY <2>6 DEF vars, Roles
  <2> QED BY <2>4, <2>5, <2>6 DEF Next
<1> QED BY <1>1, <1>2, ListCorrect, PTL DEF Spec

(* No writer, and in system calls no iterator of kernel/src/data/llist.c,    *)
(* follows a null pointer, while the first item of the list stays first.     *)
THEOREM NoFault == Spec => [](HeadStays => LockedNeverFaults)
<1>1. ListInv /\ Roles => (HeadStays => LockedNeverFaults)
  BY DEF ListInv, Roles, LockedNeverFaults, Linked, LinkedAt, Iterating, IteratingAt,
         Threads
<1> QED BY <1>1, ListCorrect, RolesKept, PTL

(* An iteration in a system call hands out the items of the list, each once  *)
(* and in order.                                                             *)
THEOREM IterationCorrect == Spec => [](HeadStays => IterationIsContents)
<1>1. ListInv => (HeadStays => IterationIsContents)
  <2> SUFFICES ASSUME ListInv, HeadStays, ~preemptible, NEW r \in Readers, pc[r] = "done"
               PROVE  visited[r] = contents
    BY DEF IterationIsContents
  <2>1. visited[r] = SubSeq(contents, 1, Len(visited[r])) /\ Len(visited[r]) = Len(contents)
    BY DEF ListInv, Iterating, IteratingAt
  <2>2. contents \in Seq(Items)
    BY DEF ListInv, TypeOK
  <2> QED BY <2>1, <2>2, SubSeqFull
<1> QED BY <1>1, ListCorrect, PTL

-----------------------------------------------------------------------------
(* Walking the list.                                                        *)

\* Walk is what its definition says: for every m there is a function on 0..m that
\* follows the pointers, because one on 0..(m - 1) is extended by one more step.
LEMMA WalkDef ==
    ASSUME Cardinality(Items) \in Nat
    PROVE  Walk = [n \in 0..Cardinality(Items) |->
                      IF n = 0 THEN list
                      ELSE IF Walk[n - 1] = NULL THEN NULL ELSE next[Walk[n - 1]]]
<1> DEFINE Follows(f, m) ==
             f = [n \in 0..m |-> IF n = 0 THEN list
                                 ELSE IF f[n - 1] = NULL THEN NULL ELSE next[f[n - 1]]]
           none == {m \in Nat : ~ \E f : Follows(f, m)}
<1>1. none = {}
  <2> SUFFICES ASSUME none # {} PROVE FALSE
    OBVIOUS
  <2>1. none \in SUBSET Nat
    OBVIOUS
  <2>2. PICK m \in none : \A y \in none : m <= y
    <3> HIDE DEF none
    <3> QED BY <2>1, LeastNat
  <2>3. m \in Nat /\ ~ \E f : Follows(f, m)
    BY <2>2
  <2>4. m # 0
    <3> SUFFICES ASSUME m = 0 PROVE FALSE
      OBVIOUS
    <3> DEFINE g == [n \in 0..0 |-> list]
    <3>1. Follows(g, 0)
      OBVIOUS
    <3> QED BY <3>1, <2>3
  <2>5. m - 1 \in Nat /\ m - 1 \notin none
    BY <2>2, <2>3, <2>4
  <2>6. PICK f : Follows(f, m - 1)
    BY <2>5
  <2> DEFINE g == [n \in 0..m |->
                     IF n = m THEN IF f[m - 1] = NULL THEN NULL ELSE next[f[m - 1]]
                     ELSE f[n]]
  <2>7. ASSUME NEW n \in 0..m
        PROVE  g[n] = IF n = 0 THEN list ELSE IF g[n - 1] = NULL THEN NULL ELSE next[g[n - 1]]
    <3>1. n # 0 => n - 1 \in 0..m /\ n - 1 # m /\ g[n - 1] = f[n - 1]
      BY <2>3
    <3>2. CASE n = m
      BY <3>1, <3>2, <2>4
    <3>3. CASE n # m
      <4>1. n \in 0..(m - 1) /\ g[n] = f[n]
        BY <3>3, <2>3
      <4>2. f[n] = IF n = 0 THEN list ELSE IF f[n - 1] = NULL THEN NULL ELSE next[f[n - 1]]
        BY <4>1, <2>6
      <4> HIDE DEF g
      <4> QED BY <4>1, <4>2, <3>1
    <3> QED BY <3>2, <3>3
  <2>8. Follows(g, m)
    BY <2>7
  <2> QED BY <2>3, <2>8
<1>2. \E f : Follows(f, Cardinality(Items))
  BY <1>1
<1> QED BY <1>2 DEF Walk

\* The walk along a ring: item by item to the end, and back to the first.
LEMMA WalkRing ==
    ASSUME ListInv, IsRing(contents), contents # <<>>
    PROVE  /\ Cardinality(Items) \in Nat /\ Len(contents) \in 1..Cardinality(Items)
           /\ \A n \in 0..(Len(contents) - 1) : Walk[n] = contents[n + 1]
           /\ Walk[Len(contents)] = contents[1]
<1> DEFINE c == contents
           L == Len(contents)
<1>1. c \in Seq(Items) /\ IsInjective(c)
  BY DEF ListInv, TypeOK
<1>2. Cardinality(Items) \in Nat /\ L <= Cardinality(Items)
  BY <1>1, LenBound
<1>3. /\ L \in Nat \ {0} /\ list = c[1] /\ next[c[L]] = c[1]
      /\ \A k \in 1..(L - 1) : next[c[k]] = c[k + 1]
  BY <1>1, RingFacts
<1>4. \A k \in 1..L : c[k] # NULL
  BY <1>1, Labels
<1>5. /\ Walk[0] = list
      /\ \A n \in 1..Cardinality(Items) :
            Walk[n] = IF Walk[n - 1] = NULL THEN NULL ELSE next[Walk[n - 1]]
  <2>1. \A n \in 0..Cardinality(Items) :
           Walk[n] = IF n = 0 THEN list
                     ELSE IF Walk[n - 1] = NULL THEN NULL ELSE next[Walk[n - 1]]
    BY <1>2, WalkDef
  <2> QED BY <1>2, <2>1
<1> DEFINE off == {n \in 0..(L - 1) : Walk[n] # c[n + 1]}
<1>6. off = {}
  <2> SUFFICES ASSUME off # {} PROVE FALSE
    OBVIOUS
  <2>1. off \in SUBSET Nat
    OBVIOUS
  <2>2. PICK x \in off : \A y \in off : x <= y
    <3> HIDE DEF off
    <3> QED BY <2>1, LeastNat
  <2>3. x \in 0..(L - 1) /\ Walk[x] # c[x + 1]
    BY <2>2
  <2>4. x # 0
    BY <2>3, <1>3, <1>5
  <2>5. x - 1 \in 0..(L - 1) /\ x - 1 \notin off
    BY <2>2, <2>3, <2>4, <1>3
  <2>6. Walk[x - 1] = c[x] /\ x \in 1..(L - 1) /\ x \in 1..Cardinality(Items) /\ x \in 1..L
    <3>1. (x - 1) + 1 = x
      BY <2>3
    <3>2. Walk[x - 1] = c[(x - 1) + 1]
      BY <2>5
    <3> QED BY <3>1, <3>2, <2>3, <2>4, <1>2, <1>3
  <2>7. Walk[x] = next[c[x]]
    BY <2>6, <1>4, <1>5
  <2> QED BY <2>3, <2>6, <2>7, <1>3
<1>7. \A n \in 0..(L - 1) : Walk[n] = c[n + 1]
  BY <1>6
<1>8. L - 1 \in 0..(L - 1) /\ (L - 1) + 1 = L /\ L \in 1..Cardinality(Items) /\ L \in 1..L
  BY <1>2, <1>3
<1>9. Walk[L - 1] = c[L]
  BY <1>7, <1>8
<1>10. Walk[L] = next[c[L]]
  BY <1>4, <1>5, <1>8, <1>9
<1> QED BY <1>2, <1>3, <1>7, <1>8, <1>10

(* Whenever the lock of a list is free, llist_count, llist_get and           *)
(* llist_get_position of kernel/src/data/llist.c see the items that the      *)
(* completed operations leave, in order, while the first item stays first.   *)
THEOREM ContentsCorrect == Spec => [](HeadStays => ListIsContents)
<1>1. ListInv => (HeadStays => ListIsContents)
  <2> SUFFICES ASSUME ListInv, HeadStays, ~locked
               PROVE  IF contents = <<>> THEN list = NULL
                      ELSE /\ Closed
                           /\ llist_count = Len(contents)
                           /\ \A k \in 1..Len(contents) :
                                 /\ llist_get(k - 1) = contents[k]
                                 /\ llist_get_position(contents[k]) = k - 1
                                 /\ prev[next[contents[k]]] = contents[k]
    BY DEF ListIsContents
  <2> DEFINE c == contents
             L == Len(contents)
  <2>1. c \in Seq(Items) /\ IsInjective(c)
    BY DEF ListInv, TypeOK
  <2>2. IsRing(c)
    BY Labels DEF ListInv, OneLinker, Linked
  <2>3. CASE c = <<>>
    BY <2>1, <2>2, <2>3, RingFacts
  <2>4. CASE c # <<>>
    <3>1. L \in Nat \ {0} /\ list = c[1] /\ list # NULL
      BY <2>1, <2>2, <2>4, RingFacts
    <3>2. /\ Cardinality(Items) \in Nat /\ L \in 1..Cardinality(Items)
          /\ \A n \in 0..(L - 1) : Walk[n] = c[n + 1]
          /\ Walk[L] = c[1]
      BY <2>2, <2>4, WalkRing
    <3>3. \A x, y \in 1..L : c[x] = c[y] => x = y
      BY <2>1 DEF IsInjective
    <3>4. Closed
      BY <3>1, <3>2 DEF Closed
    <3>5. \A m \in 1..(L - 1) : Walk[m] # list
      <4> TAKE m \in 1..(L - 1)
      <4>1. m \in 0..(L - 1) /\ m + 1 \in 1..L /\ 1 \in 1..L /\ m + 1 # 1
        BY <3>1
      <4> QED BY <4>1, <3>1, <3>2, <3>3
    <3>6. llist_count = L
      <4>1. \A n \in 1..Cardinality(Items) :
              (Walk[n] = list /\ \A m \in 1..(n - 1) : Walk[m] # list) <=> n = L
        <5> TAKE n \in 1..Cardinality(Items)
        <5>1. CASE n < L
          BY <5>1, <3>1, <3>5
        <5>2. CASE n = L
          BY <5>2, <3>1, <3>2, <3>5
        <5>3. CASE n > L
          <6>1. L \in 1..(n - 1) /\ Walk[L] = list /\ n # L
            BY <5>3, <3>1, <3>2
          <6> QED BY <6>1
        <5> QED BY <5>1, <5>2, <5>3, <3>1
      <4> QED BY <4>1, <3>1, <3>2 DEF llist_count
    <3>7. ASSUME NEW k \in 1..L
          PROVE  /\ llist_get(k - 1) = c[k]
                 /\ llist_get_position(c[k]) = k - 1
                 /\ prev[next[c[k]]] = c[k]
      <4>1. k - 1 \in 0..(L - 1) /\ (k - 1) + 1 = k /\ ~ (k - 1 >= L)
        BY <3>1
      <4>2. Walk[k - 1] = c[k]
        BY <4>1, <3>2
      <4>3. llist_get(k - 1) = c[k]
        BY <3>1, <3>6, <4>1, <4>2 DEF llist_get
      <4>4. \A n \in 0..(L - 1) : Walk[n] = c[k] <=> n = k - 1
        <5> TAKE n \in 0..(L - 1)
        <5>1. n + 1 \in 1..L /\ Walk[n] = c[n + 1]
          BY <3>1, <3>2
        <5> QED BY <5>1, <4>1, <4>2, <3>3
      <4>5. llist_get_position(c[k]) = k - 1
        <5> DEFINE found == {n \in 0..(llist_count - 1) : Walk[n] = c[k]}
        <5>1. found = {k - 1}
          BY <3>6, <4>1, <4>4
        <5>2. llist_get_position(c[k]) =
                IF found = {} THEN llist_count ELSE CHOOSE n \in found : TRUE
          BY DEF llist_get_position
        <5> HIDE DEF found
        <5> QED BY <5>1, <5>2
      <4>6. prev[next[c[k]]] = c[k]
        BY <2>2 DEF IsRing
      <4> QED BY <4>3, <4>5, <4>6
    <3> QED BY <2>4, <3>4, <3>6, <3>7
  <2> QED BY <2>3, <2>4
<1> QED BY <1>1, ListCorrect, PTL

=============================================================================
