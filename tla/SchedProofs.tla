---------------------------- MODULE SchedProofs ----------------------------
(* Proofs about the scheduler of Sched, for any set of threads and any tick *)
(* and timeout lengths.                                                     *)
EXTENDS Sched, TLAPS

-----------------------------------------------------------------------------
(* What the list operations do to the set of members and to repetition.     *)

\* Appending a new element adds it and repeats nothing.
LEMMA AppendFacts ==
    ASSUME NEW T, NEW s \in Seq(T), NEW e \in T, NoRepeat(s), e \notin ToSet(s)
    PROVE  /\ Append(s, e) \in Seq(T)
           /\ NoRepeat(Append(s, e))
           /\ ToSet(Append(s, e)) = ToSet(s) \cup {e}
BY DEF NoRepeat, ToSet

\* Concatenating two lists that share no element joins their members.
LEMMA ConcatFacts ==
    ASSUME NEW T, NEW s \in Seq(T), NEW r \in Seq(T), NoRepeat(s), NoRepeat(r),
           ToSet(s) \cap ToSet(r) = {}
    PROVE  /\ s \o r \in Seq(T)
           /\ NoRepeat(s \o r)
           /\ ToSet(s \o r) = ToSet(s) \cup ToSet(r)
<1>1. s \o r \in Seq(T) /\ DOMAIN (s \o r) = 1..(Len(s) + Len(r))
  OBVIOUS
<1>2. \A i \in 1..(Len(s) + Len(r)) :
        (s \o r)[i] = IF i <= Len(s) THEN s[i] ELSE r[i - Len(s)]
  OBVIOUS
<1>3. NoRepeat(s \o r)
  <2> SUFFICES ASSUME NEW i \in 1..(Len(s) + Len(r)), NEW j \in 1..(Len(s) + Len(r)),
                      (s \o r)[i] = (s \o r)[j]
               PROVE  i = j
    BY <1>1 DEF NoRepeat
  <2>1. CASE i <= Len(s) /\ j <= Len(s)
    BY <2>1, <1>2 DEF NoRepeat
  <2>2. CASE i > Len(s) /\ j > Len(s)
    <3>1. i - Len(s) \in DOMAIN r /\ j - Len(s) \in DOMAIN r
      BY <2>2
    <3>2. r[i - Len(s)] = r[j - Len(s)]
      BY <2>2, <1>2
    <3>3. i - Len(s) = j - Len(s)
      BY <3>1, <3>2 DEF NoRepeat
    <3> QED BY <3>3
  <2>3. CASE i <= Len(s) /\ j > Len(s)
    <3>1. s[i] \in ToSet(s) /\ r[j - Len(s)] \in ToSet(r)
      BY <2>3 DEF ToSet
    <3> QED BY <3>1, <2>3, <1>2
  <2>4. CASE j <= Len(s) /\ i > Len(s)
    <3>1. s[j] \in ToSet(s) /\ r[i - Len(s)] \in ToSet(r)
      BY <2>4 DEF ToSet
    <3> QED BY <3>1, <2>4, <1>2
  <2> QED BY <2>1, <2>2, <2>3, <2>4
<1>4. ToSet(s \o r) \subseteq ToSet(s) \cup ToSet(r)
  BY <1>1, <1>2 DEF ToSet
<1>5. \A i \in DOMAIN r : r[i] = (s \o r)[i + Len(s)] /\ i + Len(s) \in DOMAIN (s \o r)
  BY <1>1, <1>2
<1>6. \A i \in DOMAIN s : s[i] = (s \o r)[i] /\ i \in DOMAIN (s \o r)
  BY <1>1, <1>2
<1>7. ToSet(s) \cup ToSet(r) \subseteq ToSet(s \o r)
  BY <1>5, <1>6 DEF ToSet
<1> QED BY <1>1, <1>3, <1>4, <1>7

\* Popping a queue from its end visits every member once.
LEMMA ReverseFacts ==
    ASSUME NEW T, NEW s \in Seq(T), NoRepeat(s)
    PROVE  /\ Reverse(s) \in Seq(T)
           /\ NoRepeat(Reverse(s))
           /\ ToSet(Reverse(s)) = ToSet(s)
<1>1. /\ Reverse(s) \in Seq(T) /\ DOMAIN Reverse(s) = 1..Len(s)
      /\ \A i \in 1..Len(s) : Reverse(s)[i] = s[(Len(s) - i) + 1]
  BY DEF Reverse
<1>2. NoRepeat(Reverse(s))
  BY <1>1 DEF NoRepeat
<1>3. \A i \in 1..Len(s) :
        (Len(s) - i) + 1 \in 1..Len(s) /\ s[i] = Reverse(s)[(Len(s) - i) + 1]
  BY <1>1
<1>4. ToSet(Reverse(s)) \subseteq ToSet(s)
  BY <1>1, <1>3 DEF ToSet
<1>5. ToSet(s) \subseteq ToSet(Reverse(s))
  BY <1>1, <1>3 DEF ToSet
<1> QED BY <1>1, <1>2, <1>4, <1>5

\* Taking the last element off leaves the others.
LEMMA FrontFacts ==
    ASSUME NEW T, NEW s \in Seq(T), s # <<>>, NoRepeat(s)
    PROVE  /\ Front(s) \in Seq(T)
           /\ NoRepeat(Front(s))
           /\ Last(s) \in ToSet(s)
           /\ ToSet(Front(s)) = ToSet(s) \ {Last(s)}
<1>1. /\ Len(s) \in Nat \ {0} /\ Last(s) = s[Len(s)]
      /\ Front(s) \in Seq(T) /\ DOMAIN Front(s) = 1..(Len(s) - 1)
      /\ \A i \in 1..(Len(s) - 1) : Front(s)[i] = s[i]
  BY DEF Front, Last
<1> QED BY <1>1 DEF NoRepeat, ToSet

\* Removing the element at a position leaves the others.
LEMMA RemoveAtFacts ==
    ASSUME NEW T, NEW s \in Seq(T), NEW i \in DOMAIN s, NoRepeat(s)
    PROVE  /\ RemoveAt(s, i) \in Seq(T)
           /\ NoRepeat(RemoveAt(s, i))
           /\ ToSet(RemoveAt(s, i)) = ToSet(s) \ {s[i]}
<1> DEFINE r == RemoveAt(s, i)
<1>1. Len(s) \in Nat /\ i \in 1..Len(s)
  OBVIOUS
<1>2. /\ r \in Seq(T) /\ DOMAIN r = 1..(Len(s) - 1)
      /\ \A k \in 1..(Len(s) - 1) : r[k] = IF k < i THEN s[k] ELSE s[k + 1]
  <2> DEFINE a == SubSeq(s, 1, i - 1)
             b == SubSeq(s, i + 1, Len(s))
  <2>1. a \in Seq(T) /\ Len(a) = i - 1 /\ \A k \in 1..(i - 1) : a[k] = s[k]
    BY <1>1
  <2>2. b \in Seq(T) /\ Len(b) = Len(s) - i
    BY <1>1
  <2>3. \A k \in 1..(Len(s) - i) : b[k] = s[k + i]
    BY <1>1
  <2>4. r = a \o b
    BY DEF RemoveAt
  <2> HIDE DEF a, b, r
  <2>5. r \in Seq(T) /\ Len(r) = Len(s) - 1
    BY <2>1, <2>2, <2>4, <1>1
  <2>6. \A k \in 1..(Len(s) - 1) : r[k] = IF k < i THEN a[k] ELSE b[k - (i - 1)]
    BY <2>1, <2>2, <2>4, <1>1
  <2>7. \A k \in 1..(Len(s) - 1) : ~(k < i) => b[k - (i - 1)] = s[k + 1]
    <3> SUFFICES ASSUME NEW k \in 1..(Len(s) - 1), ~(k < i)
                 PROVE  b[k - (i - 1)] = s[k + 1]
      OBVIOUS
    <3>1. k - (i - 1) \in 1..(Len(s) - i) /\ (k - (i - 1)) + i = k + 1
      BY <1>1
    <3> QED BY <3>1, <2>3
  <2> QED BY <2>1, <2>5, <2>6, <2>7, <1>1
<1> HIDE DEF r
<1>3. NoRepeat(r)
  <2> SUFFICES ASSUME NEW j \in DOMAIN r, NEW k \in DOMAIN r, r[j] = r[k]
               PROVE  j = k
    BY DEF NoRepeat
  <2> DEFINE Up(x) == IF x < i THEN x ELSE x + 1
  <2>1. Up(j) \in DOMAIN s /\ Up(k) \in DOMAIN s /\ s[Up(j)] = s[Up(k)]
    BY <1>1, <1>2
  <2>2. Up(j) = Up(k)
    BY <2>1 DEF NoRepeat
  <2> QED BY <2>2, <1>1, <1>2
<1>4. ToSet(r) \subseteq ToSet(s) \ {s[i]}
  BY <1>1, <1>2 DEF NoRepeat, ToSet
<1>5. \A k \in 1..Len(s) : k # i =>
        IF k < i THEN k \in DOMAIN r /\ r[k] = s[k]
                 ELSE k - 1 \in DOMAIN r /\ r[k - 1] = s[k]
  BY <1>1, <1>2
<1>6. ToSet(s) \ {s[i]} \subseteq ToSet(r)
  BY <1>1, <1>5 DEF ToSet
<1> QED BY <1>2, <1>3, <1>4, <1>6 DEF r

-----------------------------------------------------------------------------
(* What a task switch establishes: the thread chosen is on the CPU's list    *)
(* and can run.                                                              *)
LEMMA SwitchFacts ==
    ASSUME NEW from, Switch(from)
    PROVE  curr' \in ToSet(cpu') /\ CanRun(curr)'
BY DEF Switch, CanRun

\* ... and what it leaves behind has the right types.
LEMMA SwitchType ==
    ASSUME NEW from, Switch(from), cpu' \in Seq(Threads)
    PROVE  curr' \in Threads /\ fresh' \in BOOLEAN
<1>1. curr' \in Threads
  <2>1. ToSet(cpu') \subseteq Threads
    BY DEF ToSet
  <2> QED BY <2>1, SwitchFacts
<1>2. fresh' \in BOOLEAN
  BY DEF Switch
<1> QED BY <1>1, <1>2

\* A task switch after which the idle thread is where and what it was.
LEMMA ReadyFacts ==
    ASSUME AlwaysReady, NEW from, Switch(from), Idle \in ToSet(cpu'),
           dead'[Idle] = dead[Idle], cond'[Idle] = cond[Idle]
    PROVE  AlwaysReady'
<1>1. curr' \in ToSet(cpu') /\ CanRun(curr)'
  BY SwitchFacts
<1>2. CanRun(Idle)'
  BY DEF AlwaysReady, CanRun
<1> QED BY <1>1, <1>2 DEF AlwaysReady

\* The empty queue.
LEMMA EmptyFacts == /\ <<>> \in Seq(Threads) /\ NoRepeat(<<>>) /\ ToSet(<<>>) = {}
BY DEF NoRepeat, ToSet

-----------------------------------------------------------------------------
(* SchedInv while the links are whole, which every step but those that harm  *)
(* them starts from and leads to.                                            *)
SInv == TypeOK /\ Consistent

\* Nobody with interrupts disabled is in the middle of an append, except the
\* current thread at its next store.
LEMMA Unmasked ==
    ASSUME TypeOK, MaskedAppends,
           IntrOn(curr) \/ isr[curr] # <<>> \/ pc[curr] \notin Storing
    PROVE  \A t \in Threads \ Kernel : pc[t] \notin Storing
<1> SUFFICES ASSUME NEW t \in Threads \ Kernel, pc[t] \in Storing PROVE FALSE
  OBVIOUS
<1>1. curr = t /\ ~fresh /\ isr[t] = <<>>
  BY DEF MaskedAppends
<1>2. IntrOn(curr)
  BY <1>1
<1> QED BY <1>1, <1>2 DEF IntrOn, Storing, Removing

\* Steps that add no thread to the lists and leave every thread where it is in
\* the code.
LEMMA FrameInv ==
    ASSUME SInv, UNCHANGED <<pc, arg, cpulock>>,
           IntrOn(curr) \/ isr[curr] # <<>> \/ pc[curr] \notin Storing,
           \A u \in Threads : dead[u] => dead'[u],
           ToSet(queue') \cup ToSet(cpu') \subseteq
               ToSet(queue) \cup ToSet(cpu) \cup UNION {ToSet(isr[t]) : t \in Threads},
           \A t \in Threads : ToSet(isr'[t]) \subseteq
               ToSet(queue) \cup UNION {ToSet(isr[u]) : u \in Threads}
    PROVE  /\ FreedNowhere' /\ ListedIsCreated' /\ OneCreator'
           /\ RemovedIsDead' /\ CpuLockHeld' /\ MaskedAppends'
<1> USE DEF SInv, Consistent
<1>1. \A u \in Threads : Nowhere(u) => Nowhere(u)'
  BY DEF Nowhere
<1>2. FreedNowhere' /\ CpuLockHeld' /\ OneCreator'
  BY <1>1 DEF FreedNowhere, CpuLockHeld, OneCreator
<1>3. RemovedIsDead'
  BY <1>1 DEF RemovedIsDead
<1>4. MaskedAppends'
  <2>1. \A t \in Threads \ Kernel : pc[t] \notin Storing
    BY Unmasked
  <2> QED BY <2>1 DEF MaskedAppends
<1>5. ListedIsCreated'
  BY DEF ListedIsCreated
<1> QED BY <1>2, <1>3, <1>4, <1>5

\* The initial state.
LEMMA SInvInit == Init => SInv
<1> SUFFICES ASSUME Init PROVE SInv
  OBVIOUS
<1> USE SchedAssumption
<1>1. ToSet(queue) = {Main} /\ ToSet(cpu) = {Idle}
  BY DEF Init, ToSet
<1>2. queue \in Seq(Threads) /\ cpu \in Seq(Threads)
  BY DEF Init
<1>3. TypeOK
  <2>1. pc \in [Threads -> PCs]
    BY DEF Init, PCs
  <2>2. /\ arg \in [Threads -> Threads \cup {NoThread}]
        /\ waited \in [Threads -> 0..WaitCap]
        /\ isr \in [Threads -> Seq(Threads)]
    BY EmptyFacts DEF Init
  <2>3. cond \in [Threads -> BOOLEAN] /\ dead \in [Threads -> BOOLEAN]
    BY DEF Init
  <2> QED BY <1>2, <2>1, <2>2, <2>3 DEF Init, TypeOK
<1>4. NoRepeat(queue) /\ NoRepeat(cpu)
  BY DEF Init, NoRepeat
<1>5. Placed
  BY <1>1, <1>4, EmptyFacts DEF Init, Placed
<1>6. ListedIsCreated /\ OneCreator /\ RemovedIsDead /\ AlwaysReady
  BY <1>1, EmptyFacts
     DEF Init, ListedIsCreated, OneCreator, RemovedIsDead, AlwaysReady, CanRun, Removing,
         Enqueueing, Storing
<1>7. FreedNowhere /\ CpuLockHeld /\ MaskedAppends
  BY DEF Init, FreedNowhere, CpuLockHeld, MaskedAppends, Storing, Enqueueing
<1> QED
  BY <1>3, <1>5, <1>6, <1>7 DEF SInv, Consistent

-----------------------------------------------------------------------------
(* Steps of the timer interrupt.                                             *)

\* Time passing keeps the recorded waits bounded.
LEMMA ElapseType ==
    ASSUME TypeOK, Elapse PROVE waited' \in [Threads -> 0..WaitCap]
BY SchedAssumption DEF TypeOK, Elapse

\* An interrupt that only takes the queue's lock.
LEMMA TickTakesLockInv ==
    ASSUME SInv, TickTakesLock PROVE SInv'
<1> USE DEF SInv, Consistent, TickTakesLock
<1>1. TypeOK'
  <2>1. curr' \in Threads /\ fresh' \in BOOLEAN
    BY SwitchType DEF TypeOK
  <2> QED BY <2>1, ElapseType DEF TypeOK
<1>2. Placed'
  BY DEF Placed
<1>3. AlwaysReady'
  BY ReadyFacts DEF AlwaysReady
<1>4. /\ FreedNowhere' /\ ListedIsCreated' /\ OneCreator'
      /\ RemovedIsDead' /\ CpuLockHeld' /\ MaskedAppends'
  BY FrameInv
<1> QED BY <1>1, <1>2, <1>3, <1>4

\* What moving the queue to the CPU's list does.
LEMMA DrainFacts ==
    ASSUME TypeOK, Placed
    PROVE  /\ cpu \o Reverse(queue) \in Seq(Threads)
           /\ NoRepeat(cpu \o Reverse(queue))
           /\ ToSet(cpu \o Reverse(queue)) = ToSet(cpu) \cup ToSet(queue)
<1>1. /\ Reverse(queue) \in Seq(Threads) /\ NoRepeat(Reverse(queue))
      /\ ToSet(Reverse(queue)) = ToSet(queue)
  BY ReverseFacts DEF TypeOK, Placed
<1> QED
  BY <1>1, ConcatFacts DEF TypeOK, Placed

\* An interrupt that empties the queue.
LEMMA TickDrainsInv ==
    ASSUME SInv, TickDrains PROVE SInv'
<1> USE DEF SInv, Consistent, TickDrains
<1>1. TypeOK'
  <2>1. curr' \in Threads /\ fresh' \in BOOLEAN
    BY SwitchType, DrainFacts
  <2> QED BY <2>1, ElapseType, DrainFacts, EmptyFacts DEF TypeOK
<1>2. Placed'
  BY DrainFacts, EmptyFacts DEF Placed
<1>3. /\ FreedNowhere' /\ ListedIsCreated' /\ OneCreator'
      /\ RemovedIsDead' /\ CpuLockHeld' /\ MaskedAppends'
  <2>1. ToSet(queue') = {} /\ ToSet(cpu') = ToSet(cpu) \cup ToSet(queue)
    BY DrainFacts, EmptyFacts
  <2> QED BY <2>1, FrameInv
<1>4. AlwaysReady'
  BY ReadyFacts, DrainFacts DEF AlwaysReady
<1> QED BY <1>1, <1>2, <1>3, <1>4

\* An interrupt that is caught by the lock of the CPU's list.
LEMMA TickSpinsInv ==
    ASSUME SInv, TickSpins PROVE SInv'
<1> USE DEF SInv, Consistent, TickSpins
<1>1. /\ Front(queue) \in Seq(Threads) /\ NoRepeat(Front(queue))
      /\ Last(queue) \in ToSet(queue) /\ Last(queue) \in Threads
      /\ ToSet(Front(queue)) = ToSet(queue) \ {Last(queue)}
  <2>1. Last(queue) \in ToSet(queue)
    BY FrontFacts DEF TypeOK, Placed
  <2>2. Last(queue) \in Threads
    BY <2>1 DEF TypeOK, ToSet
  <2> QED BY <2>1, <2>2, FrontFacts DEF TypeOK, Placed
<1>2. /\ isr' = [isr EXCEPT ![curr] = Append(isr[curr], Last(queue))]
      /\ curr \in Threads /\ isr[curr] \in Seq(Threads)
      /\ Append(isr[curr], Last(queue)) \in Seq(Threads)
      /\ NoRepeat(Append(isr[curr], Last(queue)))
      /\ ToSet(Append(isr[curr], Last(queue))) = ToSet(isr[curr]) \cup {Last(queue)}
  <2>1. curr \in Threads /\ isr[curr] \in Seq(Threads)
    BY DEF TypeOK
  <2>2. NoRepeat(isr[curr]) /\ Last(queue) \notin ToSet(isr[curr])
    BY <1>1, <2>1 DEF Placed
  <2> QED BY <1>1, <2>1, <2>2, AppendFacts
<1>3. TypeOK'
  <2>1. curr' \in Threads /\ fresh' \in BOOLEAN
    BY SwitchType DEF TypeOK
  <2> QED BY <2>1, <1>1, <1>2, ElapseType DEF TypeOK
<1>4. Placed'
  BY <1>1, <1>2 DEF Placed, TypeOK
<1>5. /\ FreedNowhere' /\ ListedIsCreated' /\ OneCreator'
      /\ RemovedIsDead' /\ CpuLockHeld' /\ MaskedAppends'
  <2>1. \A t \in Threads : ToSet(isr'[t]) \subseteq ToSet(isr[t]) \cup ToSet(queue)
    BY <1>1, <1>2 DEF TypeOK
  <2>2. ToSet(queue') \subseteq ToSet(queue) /\ cpu' = cpu
    BY <1>1
  <2> QED BY <2>1, <2>2, FrameInv
<1>6. AlwaysReady'
  BY ReadyFacts DEF AlwaysReady
<1> QED BY <1>3, <1>4, <1>5, <1>6

\* The caught interrupt goes on.
LEMMA IsrResumeInv ==
    ASSUME SInv, IsrResume PROVE SInv'
<1> USE DEF SInv, Consistent, IsrResume
<1> DEFINE item == Last(isr[curr])
           rest == Front(isr[curr])
<1>0. /\ curr \in Threads /\ isr[curr] \in Seq(Threads)
      /\ item \in ToSet(isr[curr]) /\ rest \in Seq(Threads) /\ NoRepeat(rest)
      /\ ToSet(rest) = ToSet(isr[curr]) \ {item}
  BY FrontFacts DEF TypeOK, Placed
<1>1. /\ item \in Threads /\ item \notin ToSet(cpu) /\ item \notin ToSet(queue)
      /\ \A t \in Threads : item \in ToSet(isr[t]) => t = curr
  <2>1. item \in Threads
    BY <1>0 DEF ToSet
  <2> QED BY <1>0, <2>1 DEF Placed
<1>2. /\ Append(cpu, item) \in Seq(Threads) /\ NoRepeat(Append(cpu, item))
      /\ ToSet(Append(cpu, item)) = ToSet(cpu) \cup {item}
  BY <1>1, AppendFacts DEF Placed, TypeOK
<1>3. /\ Reverse(queue) \in Seq(Threads) /\ NoRepeat(Reverse(queue))
      /\ ToSet(Reverse(queue)) = ToSet(queue)
  BY ReverseFacts DEF Placed, TypeOK
<1>4. /\ cpu' \in Seq(Threads) /\ NoRepeat(cpu')
      /\ ToSet(cpu') = ToSet(cpu) \cup {item} \cup ToSet(queue)
  <2> DEFINE a == Append(cpu, item)
             b == Reverse(queue)
  <2>1. /\ a \in Seq(Threads) /\ b \in Seq(Threads) /\ NoRepeat(a) /\ NoRepeat(b)
        /\ ToSet(a) \cap ToSet(b) = {}
    BY <1>1, <1>2, <1>3 DEF Placed
  <2>2. cpu' = a \o b
    OBVIOUS
  <2>3. ToSet(a) \cup ToSet(b) = ToSet(cpu) \cup {item} \cup ToSet(queue)
    BY <1>2, <1>3
  <2> HIDE DEF a, b, item
  <2>4. /\ a \o b \in Seq(Threads) /\ NoRepeat(a \o b)
        /\ ToSet(a \o b) = ToSet(a) \cup ToSet(b)
    BY ONLY <2>1, ConcatFacts
  <2> QED BY <2>2, <2>3, <2>4
<1>5. TypeOK'
  <2>1. curr' \in Threads /\ fresh' \in BOOLEAN
    BY SwitchType, <1>4
  <2> QED BY <2>1, <1>0, <1>4, EmptyFacts DEF TypeOK
<1>6. Placed'
  BY <1>0, <1>1, <1>4, EmptyFacts DEF Placed, TypeOK
<1>7. /\ FreedNowhere' /\ ListedIsCreated' /\ OneCreator'
      /\ RemovedIsDead' /\ CpuLockHeld' /\ MaskedAppends'
  <2>1. \A t \in Threads : ToSet(isr'[t]) \subseteq ToSet(isr[t])
    BY <1>0 DEF TypeOK
  <2>2. ToSet(queue') = {}
    BY EmptyFacts
  <2>3. item \in UNION {ToSet(isr[t]) : t \in Threads}
    BY <1>0
  <2> HIDE DEF item
  <2> QED BY <1>4, <2>1, <2>2, <2>3, FrameInv
<1>8. AlwaysReady'
  BY <1>4, ReadyFacts DEF AlwaysReady
<1> QED BY <1>5, <1>6, <1>7, <1>8

-----------------------------------------------------------------------------
(* Steps that change no list: locks, spinning, blocking, exiting.            *)

\* A thread that yields, whatever it did to its own runnability before.
LEMMA YieldInv ==
    ASSUME SInv, NEW t \in Threads, Yield(t),
           isr[curr] # <<>> \/ pc[curr] \notin Storing,
           cond' \in [Threads -> BOOLEAN], dead' \in [Threads -> BOOLEAN],
           \A u \in Threads : dead[u] => dead'[u],
           dead'[Idle] = dead[Idle], cond'[Idle] = cond[Idle]
    PROVE  SInv'
<1> USE DEF SInv, Consistent, Yield
<1>1. TypeOK'
  <2>1. curr' \in Threads /\ fresh' \in BOOLEAN
    BY SwitchType DEF TypeOK
  <2> QED BY <2>1 DEF TypeOK
<1>2. Placed'
  BY DEF Placed
<1>3. /\ FreedNowhere' /\ ListedIsCreated' /\ OneCreator'
      /\ RemovedIsDead' /\ CpuLockHeld' /\ MaskedAppends'
  BY FrameInv
<1>4. AlwaysReady'
  BY ReadyFacts DEF AlwaysReady
<1> QED BY <1>1, <1>2, <1>3, <1>4

\* Steps after which every list, the current thread and the flags are the same.
LEMMA QuietInv ==
    ASSUME SInv, TypeOK',
           UNCHANGED <<queue, cpu, curr, dead, isr>>,
           \A t \in Threads : cond'[t] => cond[t],
           \A t \in Threads : pc'[t] \in {"none", "new"} => pc[t] \in {"none", "new"},
           FreedNowhere', OneCreator', RemovedIsDead', CpuLockHeld', MaskedAppends'
    PROVE  SInv'
<1> USE DEF SInv, Consistent
<1>1. Placed'
  BY DEF Placed
<1>2. ListedIsCreated'
  <2>1. ToSet(queue) \subseteq Threads /\ ToSet(cpu) \subseteq Threads
    <3>1. queue \in Seq(Threads) /\ cpu \in Seq(Threads)
      BY DEF TypeOK
    <3> QED BY <3>1 DEF ToSet
  <2>2. \A u \in Threads : ToSet(isr[u]) \subseteq Threads
    BY DEF TypeOK, ToSet
  <2> QED BY <2>1, <2>2 DEF ListedIsCreated, TypeOK
<1>3. AlwaysReady'
  BY SchedAssumption DEF AlwaysReady, CanRun, TypeOK
<1> QED BY <1>1, <1>2, <1>3

\* The simple steps of sched_enqueue_thread and its callers: one thread moves on
\* in its code, and perhaps the thread it creates.
LEMMA EnqueueInv ==
    ASSUME SInv, NEW t \in Threads,
           \/ \E n \in Threads : Create(t, n)
           \/ EnqAcquire(t) \/ EnqTimeout(t) \/ EnqRead(t) \/ EnqStore(t) \/ EnqUnlock(t)
    PROVE  SInv'
<1> USE SchedAssumption DEF SInv, Consistent, Running, Goto, Removing, Enqueueing, Storing
<1>1. ASSUME NEW n \in Threads, Create(t, n) PROVE SInv'
  <2> USE <1>1 DEF Create
  <2>1. TypeOK'
    <3>1. pc' \in [Threads -> PCs]
      BY DEF TypeOK, PCs
    <3>2. arg' \in [Threads -> Threads \cup {NoThread}]
      BY DEF TypeOK
    <3>3. waited' \in [Threads -> 0..WaitCap]
      BY DEF TypeOK
    <3> QED BY <3>1, <3>2, <3>3 DEF TypeOK
  <2>2. OneCreator'
    BY DEF OneCreator, TypeOK
  <2>3. RemovedIsDead'
    BY DEF RemovedIsDead, TypeOK, Nowhere
  <2>4. \A u \in Threads : pc'[u] \in {"none", "new"} => pc[u] \in {"none", "new"}
    BY DEF TypeOK
  <2>5. FreedNowhere'
    BY DEF FreedNowhere, Nowhere, TypeOK
  <2>6. CpuLockHeld' /\ MaskedAppends'
    BY DEF CpuLockHeld, MaskedAppends, TypeOK
  <2> QED BY <2>1, <2>2, <2>3, <2>4, <2>5, <2>6, QuietInv
<1>2. CASE EnqAcquire(t) \/ EnqRead(t) \/ EnqStore(t)
  <2>1. PICK label \in {"append"} \cup Storing :
            /\ pc' = [pc EXCEPT ![t] = label]
            /\ pc[t] \in Enqueueing /\ (label \in Storing => pc[t] \in {"append"} \cup Storing)
    BY <1>2 DEF EnqAcquire, EnqRead, EnqStore, Stored
  <2>2. /\ curr = t /\ isr[t] = <<>> /\ fresh' = FALSE /\ qlock' \in BOOLEAN
        /\ UNCHANGED <<queue, cpu, cpulock, curr, arg, waited, cond, dead, isr, harm>>
    BY <1>2 DEF EnqAcquire, EnqRead, EnqStore, TypeOK
  <2>3. TypeOK'
    BY <2>1, <2>2 DEF TypeOK, PCs
  <2>4. \A u \in Threads : pc'[u] = IF u = t THEN label ELSE pc[u]
    BY <2>1 DEF TypeOK
  <2>5. OneCreator'
    <3>1. \A u \in Threads : pc'[u] \in Enqueueing => pc[u] \in Enqueueing
      BY <2>1, <2>4
    <3>2. \A u \in Threads : pc[u] = "new" => pc'[u] = "new"
      BY <2>1, <2>4
    <3> QED BY <2>2, <3>1, <3>2 DEF OneCreator
  <2>6. \A u \in Threads : pc'[u] \in {"none", "new"} => pc[u] \in {"none", "new"}
    BY <2>1, <2>4
  <2>7. RemovedIsDead'
    <3>1. \A u \in Threads : pc'[u] \in Removing => pc[u] = pc'[u]
      BY <2>4
    <3>2. \A u \in Threads : Nowhere(u)' = Nowhere(u)
      BY <2>2 DEF Nowhere
    <3> QED BY <2>2, <2>6, <3>1, <3>2 DEF RemovedIsDead
  <2>8. FreedNowhere'
    BY <2>2, <2>4 DEF FreedNowhere, Nowhere
  <2>9. CpuLockHeld'
    BY <2>1, <2>2, <2>4 DEF CpuLockHeld
  <2>10. MaskedAppends'
    BY <2>1, <2>2, <2>4 DEF MaskedAppends
  <2> QED BY <2>2, <2>3, <2>5, <2>6, <2>7, <2>8, <2>9, <2>10, QuietInv
<1>3. CASE EnqTimeout(t) \/ EnqUnlock(t)
  <2>1. /\ pc[t] \in {"enq", "enq_unlock"} /\ pc' = [pc EXCEPT ![t] = "run"]
        /\ arg' = [arg EXCEPT ![t] = NoThread] /\ qlock' \in BOOLEAN
        /\ UNCHANGED <<queue, cpu, cpulock, curr, waited, cond, dead, isr, harm>>
        /\ fresh' = FALSE
    BY <1>3 DEF EnqTimeout, EnqUnlock, TypeOK
  <2>2. TypeOK'
    BY <2>1 DEF TypeOK, PCs
  <2>3. \A u \in Threads : /\ pc'[u] = IF u = t THEN "run" ELSE pc[u]
                           /\ arg'[u] = IF u = t THEN NoThread ELSE arg[u]
    BY <2>1 DEF TypeOK
  <2>4. OneCreator'
    BY <2>1, <2>3 DEF OneCreator
  <2>5. RemovedIsDead'
    BY <2>1, <2>3 DEF RemovedIsDead, Nowhere
  <2>6. \A u \in Threads : pc'[u] \in {"none", "new"} => pc[u] \in {"none", "new"}
    BY <2>3
  <2>7. FreedNowhere'
    BY <2>1, <2>3 DEF FreedNowhere, Nowhere
  <2>8. CpuLockHeld' /\ MaskedAppends'
    BY <2>1, <2>3 DEF CpuLockHeld, MaskedAppends
  <2> QED BY <2>1, <2>2, <2>4, <2>5, <2>6, <2>7, <2>8, QuietInv
<1> QED BY <1>1, <1>2, <1>3

\* The append itself: the new thread was nowhere, so it is in one place now.
LEMMA EnqAppendInv ==
    ASSUME SInv, NEW t \in Threads, EnqAppend(t)
    PROVE  SInv'
<1> USE DEF SInv, Consistent, Running, EnqAppend, Enqueueing, Storing
<1> DEFINE n == arg[t]
<1>1. n \in Threads /\ pc[n] = "new" /\ n # t
  BY DEF OneCreator
<1>2. n \notin ToSet(queue) /\ n \notin ToSet(cpu) /\ \A u \in Threads : n \notin ToSet(isr[u])
  BY <1>1 DEF ListedIsCreated
<1>3. /\ queue' \in Seq(Threads) /\ NoRepeat(queue')
      /\ ToSet(queue') = ToSet(queue) \cup {n}
  BY <1>1, <1>2, AppendFacts DEF Placed, TypeOK
<1>4. /\ pc' = [pc EXCEPT ![t] = "enq_unlock", ![n] = "run"]
      /\ UNCHANGED <<cpu, curr, arg, cond, dead, isr, qlock, cpulock, waited, harm>>
      /\ fresh' = FALSE
  OBVIOUS
<1> HIDE DEF n, EnqAppend
<1>5. TypeOK'
  BY <1>1, <1>3, <1>4 DEF TypeOK, PCs
<1>6. Placed'
  BY <1>2, <1>3, <1>4 DEF Placed
<1>7. ListedIsCreated'
  <2>1. ToSet(queue) \subseteq Threads /\ ToSet(cpu) \subseteq Threads
    <3>1. queue \in Seq(Threads) /\ cpu \in Seq(Threads)
      BY DEF TypeOK
    <3> QED BY <3>1 DEF ToSet
  <2>2. \A u \in Threads : ToSet(isr[u]) \subseteq Threads
    BY DEF TypeOK, ToSet
  <2> QED BY <2>1, <2>2, <1>1, <1>2, <1>3, <1>4 DEF ListedIsCreated, TypeOK
<1>8. OneCreator'
  <2>1. \A u \in Threads : pc[u] \in Enqueueing /\ u # t => arg[u] # n
    BY DEF OneCreator, n, EnqAppend
  <2>2. SUFFICES ASSUME NEW u \in Threads, pc'[u] \in Enqueueing
               PROVE  /\ arg[u] \in Threads /\ pc'[arg[u]] = "new"
                      /\ \A v \in Threads :
                            pc'[v] \in Enqueueing /\ arg[v] = arg[u] => v = u
    BY <1>4 DEF OneCreator
  <2>3. \A v \in Threads : pc'[v] \in Enqueueing =>
           v # t /\ pc[v] \in Enqueueing
    BY <1>4, <1>1 DEF TypeOK
  <2>4. arg[u] \in Threads /\ pc[arg[u]] = "new" /\ arg[u] # n
    BY <2>1, <2>2, <2>3 DEF OneCreator
  <2>5. arg[u] # t
    BY <2>4 DEF EnqAppend
  <2>6. pc'[arg[u]] = "new"
    BY <2>4, <2>5, <1>4 DEF TypeOK
  <2> QED BY <2>2, <2>3, <2>4, <2>6 DEF OneCreator
<1>a. \A u \in Threads : u # n /\ Nowhere(u) => Nowhere(u)'
  BY <1>3, <1>4 DEF Nowhere
<1>b. \A u \in Threads :
         pc'[u] = IF u = n THEN "run" ELSE IF u = t THEN "enq_unlock" ELSE pc[u]
  BY <1>1, <1>4 DEF TypeOK
<1>9. RemovedIsDead'
  <2>1. \A u \in Threads : pc'[u] \in Removing => pc[u] = pc'[u]
    BY <1>b DEF Removing
  <2>2. \A u \in Threads : pc[u] \notin {"none", "new"} => pc'[u] \notin {"none", "new"} /\ u # n
    BY <1>1, <1>b
  <2> QED BY <1>4, <1>a, <2>1, <2>2 DEF RemovedIsDead
<1>c. FreedNowhere'
  BY <1>1, <1>a, <1>b DEF FreedNowhere
<1>d. CpuLockHeld'
  <2>1. \A u \in Threads : pc[u] \in {"unlink", "rem_unlock"} => pc'[u] = pc[u]
    BY <1>1, <1>b DEF EnqAppend
  <2> QED BY <1>4, <2>1 DEF CpuLockHeld
<1>e. MaskedAppends'
  <2>1. \A u \in Threads : pc'[u] \in Enqueueing => pc[u] = pc'[u]
    BY <1>b
  <2> QED BY <1>4, <2>1 DEF MaskedAppends
<1>10. AlwaysReady'
  BY <1>4 DEF AlwaysReady, CanRun
<1> QED BY <1>5, <1>6, <1>7, <1>8, <1>9, <1>10, <1>c, <1>d, <1>e

-----------------------------------------------------------------------------
(* Steps of sched_remove_thread.                                             *)

\* Everything but the unlinking.
LEMMA RemovalInv ==
    ASSUME SInv, NEW t \in Threads,
           \/ \E u \in Threads : RemFind(t, u)
           \/ RemFound(t) \/ RemAcquire(t) \/ RemUnlock(t)
    PROVE  SInv'
<1> USE SchedAssumption DEF SInv, Consistent, Running, Goto, Removing, Enqueueing, Storing
<1>1. ASSUME NEW u \in Threads, RemFind(t, u) PROVE SInv'
  <2> USE <1>1 DEF RemFind
  <2>1. TypeOK'
    BY DEF TypeOK, PCs
  <2>2. OneCreator'
    BY DEF OneCreator, TypeOK
  <2>3. RemovedIsDead'
    BY DEF RemovedIsDead, TypeOK, ListedIsCreated, Nowhere
  <2>4. \A v \in Threads : pc'[v] \in {"none", "new"} => pc[v] \in {"none", "new"}
    BY DEF TypeOK
  <2>5. FreedNowhere'
    BY DEF FreedNowhere, Nowhere, TypeOK
  <2>6. CpuLockHeld' /\ MaskedAppends'
    BY DEF CpuLockHeld, MaskedAppends, TypeOK
  <2> QED BY <2>1, <2>2, <2>3, <2>4, <2>5, <2>6, QuietInv
<1>2. CASE RemFound(t) \/ RemAcquire(t)
  <2>1. PICK label \in {"rem", "unlink"} :
            /\ pc' = [pc EXCEPT ![t] = label] /\ pc[t] \in {"find", "rem"}
            /\ cpulock' => cpulock \/ label = "unlink"
    BY <1>2 DEF RemFound, RemAcquire
  <2>2. /\ waited' \in [Threads -> 0..WaitCap] /\ cpulock' \in BOOLEAN
        /\ UNCHANGED <<queue, qlock, cpu, curr, arg, cond, dead, isr, harm>>
        /\ fresh' = FALSE
    <3>1. CASE RemFound(t)
      BY <3>1 DEF RemFound, TypeOK
    <3>2. CASE RemAcquire(t)
      BY <3>2 DEF RemAcquire, TypeOK
    <3> QED BY <1>2, <3>1, <3>2
  <2>3. TypeOK'
    BY <2>1, <2>2 DEF TypeOK, PCs
  <2>4. \A v \in Threads : pc'[v] = IF v = t THEN label ELSE pc[v]
    BY <2>1 DEF TypeOK
  <2>5. OneCreator'
    BY <2>1, <2>2, <2>4 DEF OneCreator
  <2>6. RemovedIsDead'
    BY <2>1, <2>2, <2>4 DEF RemovedIsDead, Nowhere
  <2>7. \A v \in Threads : pc'[v] \in {"none", "new"} => pc[v] \in {"none", "new"}
    BY <2>1, <2>4
  <2>8. FreedNowhere'
    BY <2>1, <2>2, <2>4 DEF FreedNowhere, Nowhere
  <2>9. CpuLockHeld'
    BY <2>1, <2>4 DEF CpuLockHeld
  <2>10. MaskedAppends'
    BY <2>1, <2>2, <2>4 DEF MaskedAppends
  <2> QED BY <2>2, <2>3, <2>5, <2>6, <2>7, <2>8, <2>9, <2>10, QuietInv
<1>3. CASE RemUnlock(t)
  <2>1. /\ curr = t /\ pc[t] = "rem_unlock"
        /\ pc' = [pc EXCEPT ![t] = "run", ![arg[t]] = "gone"]
        /\ arg' = [arg EXCEPT ![t] = NoThread] /\ cpulock' = FALSE
        /\ UNCHANGED <<queue, qlock, cpu, curr, waited, cond, dead, isr, harm>>
        /\ fresh' = FALSE
    BY <1>3 DEF RemUnlock
  <2>2. /\ arg[t] \in Threads /\ pc[arg[t]] \notin {"none", "new"} /\ Nowhere(arg[t])
    BY <2>1 DEF RemovedIsDead
  <2>3. TypeOK'
    BY <2>1, <2>2 DEF TypeOK, PCs
  <2>4. \A v \in Threads : pc'[v] \in {"none", "new"} => pc[v] \in {"none", "new"}
    BY <2>1, <2>2 DEF TypeOK
  <2>5. \A v \in Threads : pc'[v] = pc[v] \/ pc'[v] \in {"run", "gone"}
    BY <2>1, <2>2 DEF TypeOK
  <2>6. \A v \in Threads : pc[v] \in {"none", "new"} => pc'[v] = pc[v]
    BY <2>1, <2>2 DEF TypeOK
  <2>7. \A v \in Threads : pc'[v] \notin {"run", "gone"} => arg'[v] = arg[v]
    BY <2>1, <2>2 DEF TypeOK
  <2>8. OneCreator'
    BY <2>5, <2>6, <2>7 DEF OneCreator
  <2>9. \A v \in Threads : Nowhere(v)' = Nowhere(v)
    BY <2>1 DEF Nowhere
  <2>10. RemovedIsDead'
    BY <2>1, <2>4, <2>5, <2>7, <2>9 DEF RemovedIsDead
  <2>11. FreedNowhere'
    <3>1. \A v \in Threads : pc'[v] = "gone" => pc[v] = "gone" \/ v = arg[t]
      BY <2>1, <2>2 DEF TypeOK
    <3> QED BY <2>2, <2>9, <3>1 DEF FreedNowhere
  <2>12. CpuLockHeld'
    BY <2>1 DEF CpuLockHeld
  <2>13. MaskedAppends'
    BY <2>1, <2>5 DEF MaskedAppends
  <2> QED BY <2>1, <2>3, <2>4, <2>8, <2>10, <2>11, <2>12, <2>13, QuietInv
<1> QED BY <1>1, <1>2, <1>3

\* Unlinking takes out a thread that has exited, hence neither the idle thread
\* nor the current one.
LEMMA RemUnlinkInv ==
    ASSUME SInv, NEW t \in Threads, RemUnlink(t)
    PROVE  SInv'
<1> USE DEF SInv, Consistent, Running, Goto
<1>1. PICK i \in DOMAIN cpu : cpu[i] = arg[t] /\ cpu' = RemoveAt(cpu, i)
  BY DEF RemUnlink
<1>2. /\ curr = t /\ pc[t] = "unlink" /\ pc' = [pc EXCEPT ![t] = "rem_unlock"]
      /\ UNCHANGED <<queue, qlock, cpulock, curr, arg, waited, cond, dead, isr, harm>>
      /\ fresh' = FALSE
  BY DEF RemUnlink
<1>3. arg[t] \in Threads /\ dead[arg[t]]
  BY <1>2 DEF RemovedIsDead, Removing
<1>4. /\ cpu' \in Seq(Threads) /\ NoRepeat(cpu') /\ ToSet(cpu') = ToSet(cpu) \ {arg[t]}
  BY <1>1, RemoveAtFacts DEF TypeOK, Placed
<1>5. TypeOK'
  <2>1. pc' \in [Threads -> PCs]
    BY <1>2 DEF TypeOK, PCs, Removing
  <2> QED BY <2>1, <1>2, <1>4 DEF TypeOK
<1>6. Placed'
  BY <1>2, <1>4 DEF Placed
<1>7. ListedIsCreated'
  <2>1. ToSet(queue) \subseteq Threads /\ ToSet(cpu) \subseteq Threads
    BY DEF TypeOK, ToSet
  <2>2. \A u \in Threads : ToSet(isr[u]) \subseteq Threads
    BY DEF TypeOK, ToSet
  <2> QED BY <2>1, <2>2, <1>2, <1>4 DEF ListedIsCreated, TypeOK
<1>a. \A u \in Threads : pc'[u] = IF u = t THEN "rem_unlock" ELSE pc[u]
  BY <1>2 DEF TypeOK
<1>b. \A u \in Threads : Nowhere(u) => Nowhere(u)'
  BY <1>2, <1>4 DEF Nowhere
<1>c. Nowhere(arg[t])'
  <2>1. arg[t] \in ToSet(cpu)
    BY <1>1 DEF ToSet
  <2>2. arg[t] \notin ToSet(queue) /\ \A u \in Threads : arg[t] \notin ToSet(isr[u])
    BY <2>1 DEF Placed
  <2> QED BY <1>2, <1>4, <2>2 DEF Nowhere
<1>8. OneCreator'
  BY <1>2, <1>a DEF OneCreator, Enqueueing, Storing
<1>9. RemovedIsDead'
  BY <1>2, <1>a, <1>b, <1>c DEF RemovedIsDead, Removing
<1>d. FreedNowhere' /\ CpuLockHeld'
  BY <1>2, <1>a, <1>b DEF FreedNowhere, CpuLockHeld
<1>e. MaskedAppends'
  BY <1>2, <1>a DEF MaskedAppends, Enqueueing, Storing
<1>10. Idle # arg[t] /\ curr # arg[t]
  BY <1>3 DEF AlwaysReady, CanRun
<1>11. AlwaysReady'
  BY <1>2, <1>4, <1>10 DEF AlwaysReady, CanRun
<1> QED BY <1>5, <1>6, <1>7, <1>8, <1>9, <1>11, <1>d, <1>e

-----------------------------------------------------------------------------
(* What the rest of the kernel does.                                         *)

\* Blocking, exiting and spinning: run_sched() finds the idle thread at least.
LEMMA BlockingInv ==
    ASSUME SInv, NEW t \in Threads,
           Block(t) \/ Exit(t) \/ EnqSpin(t) \/ RemSpin(t)
    PROVE  SInv'
<1> USE SchedAssumption DEF SInv
<1>0. pc[curr] \notin Storing
  BY DEF Block, Exit, EnqSpin, RemSpin, Running, Storing
<1>1. CASE Block(t)
  <2>1. /\ cond' = [cond EXCEPT ![t] = TRUE] /\ dead' = dead /\ t # Idle /\ Yield(t)
    BY <1>1 DEF Block
  <2>2. cond' \in [Threads -> BOOLEAN] /\ cond'[Idle] = cond[Idle]
    BY <2>1 DEF TypeOK
  <2> QED BY <1>0, <2>1, <2>2, YieldInv DEF TypeOK
<1>2. CASE Exit(t)
  <2>1. /\ dead' = [dead EXCEPT ![t] = TRUE] /\ cond' = cond /\ t # Idle /\ Yield(t)
    BY <1>2 DEF Exit
  <2>2. /\ dead' \in [Threads -> BOOLEAN] /\ dead'[Idle] = dead[Idle]
        /\ \A u \in Threads : dead[u] => dead'[u]
    BY <2>1 DEF TypeOK
  <2> QED BY <1>0, <2>1, <2>2, YieldInv DEF TypeOK
<1>3. CASE EnqSpin(t) \/ RemSpin(t)
  <2>1. UNCHANGED <<cond, dead>> /\ Yield(t)
    BY <1>3 DEF EnqSpin, RemSpin
  <2> QED BY <1>0, <2>1, YieldInv DEF TypeOK
<1> QED BY <1>1, <1>2, <1>3

\* A signal only makes a thread runnable.
LEMMA SignalInv ==
    ASSUME SInv, NEW u \in Threads, Signal(u) PROVE SInv'
<1> USE DEF SInv, Consistent, Signal
<1>1. cond' \in [Threads -> BOOLEAN] /\ \A v \in Threads : cond'[v] => cond[v]
  BY DEF TypeOK
<1>2. TypeOK'
  BY <1>1 DEF TypeOK
<1>3. FreedNowhere' /\ OneCreator' /\ RemovedIsDead' /\ CpuLockHeld' /\ MaskedAppends'
  BY FrameInv
<1> QED BY <1>1, <1>2, <1>3, QuietInv

\* execve: the new thread was nowhere, and the one it replaces is not the idle
\* thread.
LEMMA ExecInv ==
    ASSUME SInv, NEW t \in Threads, NEW n \in Threads, Exec(t, n)
    PROVE  SInv'
<1> USE SchedAssumption DEF SInv, Consistent
<1>1. PICK i \in DOMAIN cpu : cpu[i] = t /\ cpu' = Append(RemoveAt(cpu, i), n)
  BY DEF Exec
<1>2. /\ pc[t] = "run" /\ pc[n] = "none" /\ t # Idle
      /\ pc' = [pc EXCEPT ![t] = "gone", ![n] = "run"]
      /\ UNCHANGED <<queue, qlock, cpulock, arg, waited, cond, dead, isr, harm>>
      /\ t = curr
      /\ Switch(n)
  BY DEF Exec, Running
<1>3. n \notin ToSet(queue) /\ n \notin ToSet(cpu) /\ \A u \in Threads : n \notin ToSet(isr[u])
  BY <1>2 DEF ListedIsCreated
<1>4. /\ cpu' \in Seq(Threads) /\ NoRepeat(cpu')
      /\ ToSet(cpu') = (ToSet(cpu) \ {t}) \cup {n}
  <2> DEFINE r == RemoveAt(cpu, i)
  <2>1. r \in Seq(Threads) /\ NoRepeat(r) /\ ToSet(r) = ToSet(cpu) \ {t}
    BY <1>1, RemoveAtFacts DEF TypeOK, Placed
  <2>2. cpu' = Append(r, n)
    BY <1>1
  <2> HIDE DEF r
  <2>3. n \notin ToSet(r)
    BY <1>3, <2>1
  <2> QED BY <2>1, <2>2, <2>3, AppendFacts
<1>5. curr' \in Threads /\ fresh' \in BOOLEAN
  BY <1>2, <1>4, SwitchType
<1>6. \A u \in Threads : pc'[u] = IF u = n THEN "run" ELSE IF u = t THEN "gone" ELSE pc[u]
  BY <1>2 DEF TypeOK
<1>7. TypeOK'
  <2>1. pc' \in [Threads -> PCs]
    BY <1>2 DEF TypeOK, PCs
  <2> QED BY <2>1, <1>2, <1>4, <1>5 DEF TypeOK
<1>8. Placed'
  <2>1. ToSet(queue) \cap ToSet(cpu') = {}
    BY <1>3, <1>4 DEF Placed
  <2>2. \A u \in Threads : ToSet(isr[u]) \cap ToSet(cpu') = {}
    BY <1>3, <1>4 DEF Placed
  <2> HIDE DEF SInv, Consistent
  <2> QED BY <2>1, <2>2, <1>2, <1>4 DEF Placed, SInv, Consistent
<1>9. ListedIsCreated'
  <2>1. ToSet(queue) \subseteq Threads /\ ToSet(cpu) \subseteq Threads
    <3>1. queue \in Seq(Threads) /\ cpu \in Seq(Threads)
      BY DEF TypeOK
    <3> QED BY <3>1 DEF ToSet
  <2>2. \A u \in Threads : ToSet(isr[u]) \subseteq Threads
    BY DEF TypeOK, ToSet
  <2>3. \A u \in Threads : pc[u] \notin {"none", "new"} => pc'[u] \notin {"none", "new"}
    BY <1>6
  <2>4. pc'[n] \notin {"none", "new"}
    BY <1>6
  <2>5. \A u \in ToSet(queue) \cup ToSet(cpu') : pc'[u] \notin {"none", "new"}
    BY <2>1, <2>3, <2>4, <1>4 DEF ListedIsCreated
  <2>6. \A u \in Threads : \A m \in ToSet(isr[u]) : pc'[m] \notin {"none", "new"}
    BY <2>2, <2>3 DEF ListedIsCreated
  <2> QED BY <2>5, <2>6, <1>2 DEF ListedIsCreated
<1>10. OneCreator'
  <2>1. \A u \in Threads : pc'[u] \in Enqueueing => pc[u] \in Enqueueing
    BY <1>6 DEF Enqueueing, Storing
  <2>2. \A u \in Threads : pc[u] = "new" => pc'[u] = "new"
    BY <1>2, <1>6
  <2>3. arg' = arg
    BY <1>2
  <2> QED BY <2>1, <2>2, <2>3 DEF OneCreator
<1>11. RemovedIsDead'
  <2>1. \A u \in Threads : pc'[u] \in Removing => pc[u] \in Removing
    BY <1>6 DEF Removing
  <2>2. \A u \in Threads : pc[u] \notin {"none", "new"} => pc'[u] \notin {"none", "new"}
    BY <1>6
  <2>3. \A u \in Threads : u # n /\ Nowhere(u) => Nowhere(u)'
    BY <1>2, <1>4 DEF Nowhere
  <2>4. \A u \in Threads : pc'[u] \in Removing => pc'[u] = pc[u]
    BY <1>6 DEF Removing
  <2> QED BY <2>1, <2>2, <2>3, <2>4, <1>2 DEF RemovedIsDead
<1>a. FreedNowhere'
  <2>1. \A u \in Threads : u # n /\ Nowhere(u) => Nowhere(u)'
    BY <1>2, <1>4 DEF Nowhere
  <2>2. t # n /\ Nowhere(t)'
    <3>1. t \in ToSet(cpu)
      BY <1>1 DEF ToSet
    <3>2. t \notin ToSet(queue) /\ \A u \in Threads : t \notin ToSet(isr[u])
      BY <3>1 DEF Placed
    <3> QED BY <1>2, <1>4, <3>2 DEF Nowhere
  <2> QED BY <1>6, <2>1, <2>2 DEF FreedNowhere
<1>b. CpuLockHeld'
  BY <1>2, <1>6 DEF CpuLockHeld
<1>c. MaskedAppends'
  <2>1. \A u \in Threads \ Kernel : pc[u] \notin Storing
    BY <1>2, Unmasked DEF Storing
  <2> QED BY <1>6, <2>1 DEF MaskedAppends, Enqueueing, Storing
<1>12. Idle \in ToSet(cpu')
  BY <1>2, <1>4 DEF AlwaysReady
<1>13. AlwaysReady'
  BY <1>2, <1>12, ReadyFacts
<1> QED BY <1>7, <1>8, <1>9, <1>10, <1>11, <1>13, <1>a, <1>b, <1>c

-----------------------------------------------------------------------------
(* The theorems.                                                             *)

\* A step starts from whole links, or there is nothing left to show.
LEMMA SchedInvInit == Init => SchedInv
BY SInvInit DEF SchedInv, SInv

\* The steps that harm the links leave the rest alone.
LEMMA HarmInv ==
    ASSUME SchedInv, NEW what \in {"torn", "freed", "strayed"}, Harm(what) PROVE SchedInv'
BY DEF SchedInv, TypeOK, Harm

\* SchedInv is inductive: one case per action of Next.
LEMMA SchedInvStep == SchedInv /\ [Next]_vars => SchedInv'
<1> SUFFICES ASSUME SchedInv, [Next]_vars PROVE SchedInv'
  OBVIOUS
<1>1. CASE UNCHANGED vars
  BY <1>1 DEF vars, SchedInv, TypeOK, Consistent, Placed, FreedNowhere, Nowhere,
              ListedIsCreated, OneCreator, RemovedIsDead, CpuLockHeld, MaskedAppends,
              AlwaysReady, CanRun
<1>2. CASE \/ TickTears \/ IsrTears
           \/ \E t \in Threads : EnqTears(t) \/ RemTimeout(t) \/ RemStrays(t)
           \/ \E t, n \in Threads : ExecStrays(t, n)
  <2>1. \E what \in {"torn", "freed", "strayed"} : Harm(what)
    BY <1>2 DEF TickTears, IsrTears, EnqTears, RemTimeout, RemStrays, ExecStrays
  <2> QED BY <2>1, HarmInv
<1>3. ASSUME SInv' PROVE SchedInv'
  BY <1>3 DEF SInv, SchedInv
<1>4. CASE TickTakesLock \/ TickDrains \/ TickSpins
  <2>1. SInv
    BY <1>4 DEF TickTakesLock, TickDrains, TickSpins, IntrOn, SchedInv, SInv
  <2> QED BY <1>3, <1>4, <2>1, TickTakesLockInv, TickDrainsInv, TickSpinsInv
<1>5. CASE IsrSpin \/ IsrResume
  <2>1. SInv
    BY <1>5 DEF IsrSpin, IsrResume, SchedInv, SInv
  <2>2. CASE IsrSpin
    <3>1. UNCHANGED <<cond, dead>> /\ Yield(curr) /\ curr \in Threads /\ isr[curr] # <<>>
      BY <2>1, <2>2 DEF IsrSpin, SInv, TypeOK
    <3> QED BY <1>3, <2>1, <3>1, YieldInv DEF SInv, TypeOK
  <2> QED BY <1>3, <1>5, <2>1, <2>2, IsrResumeInv
<1>6. ASSUME NEW t \in Threads,
             \/ EnqAcquire(t) \/ EnqTimeout(t) \/ EnqSpin(t)
             \/ EnqRead(t) \/ EnqStore(t) \/ EnqAppend(t) \/ EnqUnlock(t)
      PROVE  SchedInv'
  <2>1. SInv
    BY <1>6 DEF EnqAcquire, EnqTimeout, EnqSpin, EnqRead, EnqStore, EnqAppend, EnqUnlock,
                Running, SchedInv, SInv
  <2> QED BY <1>3, <1>6, <2>1, EnqueueInv, EnqAppendInv, BlockingInv
<1>7. ASSUME NEW t \in Threads,
             RemFound(t) \/ RemAcquire(t) \/ RemSpin(t) \/ RemUnlink(t) \/ RemUnlock(t)
      PROVE  SchedInv'
  <2>1. SInv
    BY <1>7 DEF RemFound, RemAcquire, RemSpin, RemUnlink, RemUnlock, Running, SchedInv, SInv
  <2> QED BY <1>3, <1>7, <2>1, RemovalInv, RemUnlinkInv, BlockingInv
<1>8. ASSUME NEW t \in Threads, Block(t) \/ Signal(t) \/ Exit(t) PROVE SchedInv'
  <2>1. SInv
    BY <1>8 DEF Block, Signal, Exit, Running, IntrOn, SchedInv, SInv
  <2> QED BY <1>3, <1>8, <2>1, BlockingInv, SignalInv
<1>9. ASSUME NEW t \in Threads, NEW u \in Threads, Create(t, u) \/ RemFind(t, u) \/ Exec(t, u)
      PROVE  SchedInv'
  <2>1. SInv
    BY <1>9 DEF Create, RemFind, Exec, Running, SchedInv, SInv
  <2> QED BY <1>3, <1>9, <2>1, EnqueueInv, RemovalInv, ExecInv
<1> QED
  BY <1>1, <1>2, <1>4, <1>5, <1>6, <1>7, <1>8, <1>9
     DEF Next, Tick, Call, Proceed, Enqueue, Removal, Harmed

(* The inductive invariant holds in every reachable state of the scheduler,  *)
(* for any threads and any lengths of ticks and timeouts: types, and while   *)
(* the links are whole placement, creation, removal and the runnability of   *)
(* the idle and current threads.                                             *)
THEOREM SchedSafe == Spec => []SchedInv
BY SchedInvInit, SchedInvStep, PTL DEF Spec

(* As long as no append was interrupted by a pop and no listed thread freed, *)
(* sched_enqueue_thread, sched_processes, sched_remove_thread and            *)
(* sched_replace_thread put no thread in two places or twice in a list, and  *)
(* leave no freed thread in one.                                             *)
THEOREM SchedOnePlace == Spec => []OnePlace
<1>1. SchedInv => OnePlace
  BY DEF SchedInv, Consistent, OnePlace
<1> QED BY <1>1, SchedSafe, PTL

(* As long as the links are whole, sched_next_process finds a thread to run: *)
(* its panic is unreachable and its circular walk starts on the list.        *)
THEOREM SchedNeverAllBlocked == Spec => []NeverAllBlocked
<1>1. SchedInv => NeverAllBlocked
  BY DEF SchedInv, Consistent, AlwaysReady, NeverAllBlocked
<1> QED BY <1>1, SchedSafe, PTL

-----------------------------------------------------------------------------
(* Creators that append with interrupts disabled.                            *)

Uninterrupted == \A t \in Kernel : pc[t] \notin Enqueueing

\* A thread starts to enqueue another only in Create.
LEMMA EnqueuersCreate ==
    ASSUME SchedInv, Next, NEW t \in Threads, pc'[t] \in Enqueueing
    PROVE  pc[t] \in Enqueueing \/ t \in Creators
<1> USE SchedAssumption DEF SchedInv, TypeOK, Enqueueing, Storing
<1>1. CASE Tick
  BY <1>1 DEF Tick, TickTakesLock, TickDrains, TickSpins, TickTears, Harm
<1>2. CASE IsrSpin \/ IsrResume \/ IsrTears \/ Harmed
  BY <1>2 DEF IsrSpin, IsrResume, IsrTears, Yield, Harm, Harmed, vars
<1>3. ASSUME NEW v \in Threads, Enqueue(v) PROVE pc[t] \in Enqueueing \/ t \in Creators
  <2>1. CASE EnqAcquire(v) \/ EnqRead(v)
    BY <2>1 DEF EnqAcquire, EnqRead, Running, Goto
  <2>2. CASE EnqStore(v)
    <3>1. PICK label \in DOMAIN Stored : Running(v, label) /\ Goto(v, Stored[label])
      BY <2>2 DEF EnqStore
    <3>2. label \in Storing
      BY DEF Stored
    <3> QED BY <3>1, <3>2 DEF Running, Goto
  <2>3. CASE EnqTimeout(v) \/ EnqUnlock(v)
    BY <2>3 DEF EnqTimeout, EnqUnlock, Goto
  <2>4. CASE EnqSpin(v) \/ EnqTears(v)
    BY <2>4 DEF EnqSpin, EnqTears, Yield, Harm
  <2>5. CASE EnqAppend(v)
    <3>1. pc' = [pc EXCEPT ![v] = "enq_unlock", ![arg[v]] = "run"]
      BY <2>5 DEF EnqAppend
    <3> QED BY <3>1
  <2> QED BY <1>3, <2>1, <2>2, <2>3, <2>4, <2>5 DEF Enqueue
<1>4. ASSUME NEW v \in Threads, Removal(v) PROVE pc[t] \in Enqueueing \/ t \in Creators
  <2>1. CASE RemFound(v) \/ RemAcquire(v) \/ RemUnlink(v)
    BY <2>1 DEF RemFound, RemAcquire, RemUnlink, Goto
  <2>2. CASE RemTimeout(v) \/ RemSpin(v) \/ RemStrays(v)
    BY <2>2 DEF RemTimeout, RemSpin, RemStrays, Yield, Harm
  <2>3. CASE RemUnlock(v)
    <3>1. pc' = [pc EXCEPT ![v] = "run", ![arg[v]] = "gone"]
      BY <2>3 DEF RemUnlock
    <3> QED BY <3>1
  <2> QED BY <1>4, <2>1, <2>2, <2>3 DEF Removal
<1>5. ASSUME NEW v \in Threads, Block(v) \/ Signal(v) \/ Exit(v)
      PROVE  pc[t] \in Enqueueing \/ t \in Creators
  BY <1>5 DEF Block, Signal, Exit, Yield
<1>6. ASSUME NEW v \in Threads, NEW u \in Threads,
             Create(v, u) \/ RemFind(v, u) \/ Exec(v, u) \/ ExecStrays(v, u)
      PROVE  pc[t] \in Enqueueing \/ t \in Creators
  <2>1. CASE Create(v, u)
    <3>1. pc' = [pc EXCEPT ![v] = "enq", ![u] = "new"] /\ v \in Creators
      BY <2>1 DEF Create
    <3> QED BY <3>1
  <2>2. CASE RemFind(v, u)
    BY <2>2 DEF RemFind, Goto
  <2>3. CASE Exec(v, u)
    <3>1. pc' = [pc EXCEPT ![v] = "gone", ![u] = "run"]
      BY <2>3 DEF Exec
    <3> QED BY <3>1
  <2>4. CASE ExecStrays(v, u)
    BY <2>4 DEF ExecStrays, Harm
  <2> QED BY <1>6, <2>1, <2>2, <2>3, <2>4
<1> QED BY <1>1, <1>2, <1>3, <1>4, <1>5, <1>6 DEF Next, Call, Proceed

\* The links are torn by the steps that say so.
LEMMA TearingSteps ==
    ASSUME SchedInv, Next, harm = "none", harm' = "torn"
    PROVE  TickTears \/ IsrTears \/ \E t \in Threads : EnqTears(t)
<1>1. ~Tick \/ TickTears
  BY DEF Tick, TickTakesLock, TickDrains, TickSpins
<1>2. ~(IsrSpin \/ IsrResume \/ Harmed)
  BY DEF IsrSpin, IsrResume, Yield, Harmed
<1>3. ASSUME NEW t \in Threads, Enqueue(t) PROVE EnqTears(t)
  BY <1>3 DEF Enqueue, EnqAcquire, EnqTimeout, EnqSpin, EnqRead, EnqStore, EnqAppend,
              EnqUnlock, Yield
<1>4. ASSUME NEW t \in Threads PROVE ~Removal(t)
  BY DEF Removal, RemFound, RemAcquire, RemTimeout, RemSpin, RemUnlink, RemStrays, RemUnlock,
         Yield, Harm
<1>5. ~Call
  BY DEF Call, Block, Signal, Exit, Create, RemFind, Exec, ExecStrays, Yield, Harm
<1> QED BY <1>1, <1>2, <1>3, <1>4, <1>5 DEF Next, Proceed

\* Nothing happens after the links are harmed.
LEMMA HarmedStops == harm # "none" /\ Next => UNCHANGED vars
<1> SUFFICES ASSUME harm # "none", Next PROVE UNCHANGED vars
  OBVIOUS
<1>1. ~Tick
  BY DEF Tick, TickTakesLock, TickDrains, TickSpins, TickTears, IntrOn
<1>2. ~Call
  BY DEF Call, Block, Signal, Exit, Create, RemFind, Exec, ExecStrays, Running, IntrOn
<1>3. ~Proceed
  BY DEF Proceed, IsrSpin, IsrResume, IsrTears, Enqueue, EnqAcquire, EnqTimeout, EnqSpin,
         EnqRead, EnqTears, EnqStore, EnqAppend, EnqUnlock, Removal, RemFound, RemAcquire,
         RemTimeout, RemSpin, RemUnlink, RemStrays, RemUnlock, Running
<1> QED BY <1>1, <1>2, <1>3 DEF Next, Harmed

\* Without kernel threads that create others nobody is met in an append.
LEMMA NeverTornStep ==
    ASSUME Creators \cap Kernel = {}, SchedInv, Uninterrupted, AppendsWhole, [Next]_vars
    PROVE  AppendsWhole' /\ Uninterrupted'
<1> USE SchedAssumption
<1>1. CASE UNCHANGED vars
  BY <1>1 DEF vars, AppendsWhole, Uninterrupted
<1>2. CASE Next
  <2>1. Uninterrupted'
    BY <1>2, EnqueuersCreate DEF Uninterrupted
  <2>2. AppendsWhole'
    <3>1. SUFFICES ASSUME harm' = "torn" PROVE FALSE
      BY DEF AppendsWhole
    <3>2. CASE harm = "none"
      <4>1. ASSUME NEW u \in Threads, pc[u] \in Storing
            PROVE  u \notin Kernel /\ curr = u /\ ~fresh /\ isr[u] = <<>>
        BY <3>2, <4>1 DEF Uninterrupted, Enqueueing, SchedInv, Consistent, MaskedAppends
      <4>2. ~HalfAppended \/ (curr \notin Kernel /\ ~fresh /\ isr[curr] = <<>> /\ pc[curr] \in Storing)
        BY <4>1 DEF HalfAppended
      <4>3. ~TickTears
        BY <4>2 DEF TickTears, IntrOn, Storing, Removing
      <4>4. ~IsrTears
        BY <4>2 DEF IsrTears
      <4>5. ASSUME NEW t \in Threads PROVE ~EnqTears(t)
        BY <4>1 DEF EnqTears, Running, Storing
      <4> QED BY <1>2, <3>1, <3>2, <4>3, <4>4, <4>5, TearingSteps
    <3>3. CASE harm # "none"
      <4>1. UNCHANGED vars
        BY <1>2, <3>3, HarmedStops
      <4> QED BY <3>1, <4>1 DEF vars, AppendsWhole
    <3> QED BY <3>2, <3>3
  <2> QED BY <2>1, <2>2
<1> QED BY <1>1, <1>2

(* With one CPU and creators that run with interrupts disabled -- system     *)
(* calls, no kernel thread that calls add_task or thread_spawn -- the timer  *)
(* interrupt never pops the queue in the middle of an append, in spite of    *)
(* the lock that keeps nobody out.                                           *)
THEOREM MaskedCreatorsAppendWhole ==
    ASSUME Creators \cap Kernel = {} PROVE Spec => []AppendsWhole
<1>1. Init => AppendsWhole /\ Uninterrupted
  BY SchedAssumption DEF Init, AppendsWhole, Uninterrupted, Enqueueing, Storing
<1> QED BY <1>1, SchedSafe, NeverTornStep, PTL DEF Spec

\* With one reaper at most, the CPU list's lock is never found taken.
LEMMA NeverFreedStep ==
    ASSUME NEW r \in Threads, Reapers \subseteq {r}, SchedInv, NoDanglingThread, [Next]_vars
    PROVE  NoDanglingThread'
<1>1. ASSUME NEW t \in Threads, RemTimeout(t) PROVE FALSE
  <2>1. Consistent /\ pc[t] = "rem" /\ cpulock
    BY <1>1 DEF RemTimeout, Running, SchedInv
  <2>2. PICK u \in Threads : pc[u] \in {"unlink", "rem_unlock"}
    BY <2>1 DEF Consistent, CpuLockHeld
  <2>3. u \in Reapers /\ t \in Reapers
    BY <2>1, <2>2 DEF Consistent, RemovedIsDead, Removing
  <2> QED BY <2>1, <2>2, <2>3
<1>2. CASE UNCHANGED vars
  BY <1>2 DEF vars, NoDanglingThread
<1>3. ~Tick \/ harm' # "freed"
  BY DEF Tick, TickTakesLock, TickDrains, TickSpins, TickTears, Harm, NoDanglingThread
<1>4. ~Call \/ harm' # "freed"
  BY DEF Call, Block, Signal, Exit, Create, RemFind, Exec, ExecStrays, Yield, Harm, NoDanglingThread
<1>5. ~(IsrSpin \/ IsrResume \/ IsrTears \/ Harmed) \/ harm' # "freed"
  BY DEF IsrSpin, IsrResume, IsrTears, Yield, Harm, Harmed, vars, NoDanglingThread
<1>6. ASSUME NEW t \in Threads, Enqueue(t) PROVE harm' # "freed"
  BY <1>6 DEF Enqueue, EnqAcquire, EnqTimeout, EnqSpin, EnqRead, EnqTears, EnqStore, EnqAppend,
              EnqUnlock, Yield, Harm, NoDanglingThread
<1>7. ASSUME NEW t \in Threads, Removal(t) PROVE harm' # "freed"
  BY <1>1, <1>7 DEF Removal, RemFound, RemAcquire, RemSpin, RemUnlink, RemStrays, RemUnlock,
                    Yield, Harm, NoDanglingThread
<1> QED BY <1>2, <1>3, <1>4, <1>5, <1>6, <1>7 DEF Next, Proceed, NoDanglingThread

(* If only one thread ever reaps children, sched_remove_thread never times   *)
(* out and thread_destroy frees no thread that a list still leads to,        *)
(* although the timer interrupt wants the same lock.                         *)
THEOREM OneReaperFreesUnlisted ==
    ASSUME NEW r \in Threads, Reapers \subseteq {r} PROVE Spec => []NoDanglingThread
<1>1. Init => NoDanglingThread
  BY DEF Init, NoDanglingThread
<1> QED BY <1>1, SchedSafe, NeverFreedStep, PTL DEF Spec

=============================================================================
