---------------------------- MODULE DelayProofs ----------------------------
(* Proofs about sleeping in Delay, for any threads, any number of time      *)
(* blocks and any delays, with any depth of nested timer interrupts.        *)
EXTENDS Delay, FiniteSetTheorems, WellFoundedInduction, TLAPS

-----------------------------------------------------------------------------
(* The constants, and the first of a set of time blocks.                    *)

LEMMA Constants ==
    /\ Len(Ring) \in Nat \ {0} /\ Ring[1] \in Threads
    /\ Ring[1] \notin Sleepers
    /\ Sleepers \subseteq Threads /\ Reapers \subseteq Threads
    /\ Sleepers \cap Reapers = {}
    /\ MaxBlocks \in Nat /\ TickNs \in Nat \ {0} /\ Delays \subseteq Nat
    /\ Nobody \notin Threads
    /\ \A m \in Modes : m.masked \subseteq Sleepers /\ m.reaping \in BOOLEAN
<1>1. Len(Ring) \in Nat \ {0} /\ DOMAIN Ring = 1..Len(Ring)
  BY DelayAssumption
<1>2. Ring[1] \in Threads
  BY <1>1 DEF Threads, ToSet
<1> QED BY <1>1, <1>2, DelayAssumption

\* The threads on the scheduler's list are finitely many.
LEMMA SleepersFinite == IsFiniteSet(Sleepers)
<1>1. Len(Ring) \in Nat /\ DOMAIN Ring = 1..Len(Ring)
  BY DelayAssumption
<1>2. IsFiniteSet(1..Len(Ring))
  BY <1>1, FS_Interval
<1>3. Ring \in Surjection(1..Len(Ring), Threads)
  BY <1>1, DelayAssumption DEF Surjection, Threads, ToSet
<1>4. IsFiniteSet(Threads)
  BY <1>2, <1>3, FS_Surjection
<1> QED BY <1>4, Constants, FS_Subset

\* Min of a set of time blocks is one of them.
LEMMA MinSlot ==
    ASSUME NEW S \in SUBSET Nat, S # {}
    PROVE  Min(S) \in S /\ \A j \in S : Min(S) <= j
<1>1. PICK x \in S : \A y \in S : ~ (<<y, x>> \in OpToRel(<, Nat))
  BY NatLessThanWellFounded, WFMin, Zenon
<1>2. \A y \in S : x <= y
  <2> TAKE y \in S
  <2>1. ~ (y < x)
    BY <1>1 DEF OpToRel
  <2> QED BY <2>1
<1> QED BY <1>2 DEF Min

\* The labels of delay() at which a thread takes, and at which it has, the lock.
LEMMA Labels ==
    /\ DOMAIN Held = {"cond", "item", "asleep", "free"}
    /\ DOMAIN After = {"cond_held", "item_held", "free_held"}
    /\ \A l \in DOMAIN Held : Held[l] \in DOMAIN After
    /\ PCs = {"run", "arm", "append", "panic", "cond", "item", "asleep", "free",
              "cond_held", "item_held", "free_held"}
    /\ After["cond_held"] = "arm" /\ After["item_held"] = "append"
    /\ After["free_held"] = "run"
    /\ Held["cond"] = "cond_held" /\ Held["item"] = "item_held"
    /\ Held["asleep"] = "free_held" /\ Held["free"] = "free_held"
BY DEF Held, After, PCs

\* The switch goes to a thread that is not blocked.
LEMMA SwitchReady ==
    ASSUME NEW from, Switch(from)
    PROVE  curr' \in Threads \ blocked' /\ fresh' = TRUE
BY DEF Switch

-----------------------------------------------------------------------------
(* The invariant holds at the start and through every step.                 *)

LEMMA InitInv == Init => SleepInv
<1> SUFFICES ASSUME Init PROVE SleepInv
  OBVIOUS
<1>1. TypeOK
  <2>1. curr \in Threads /\ mode \in Modes /\ fresh \in BOOLEAN
    BY Constants DEF Init
  <2>2. pc \in [Threads -> PCs] /\ \A t \in Threads : pc[t] = "run"
    BY Labels DEF Init
  <2>3. blocks \in [Slots -> [owner : Threads \cup {Nobody}, left : Nat]]
    BY DEF Init, FreeBlock
  <2>4. isr \in [Threads -> Seq(Slots)]
    BY DEF Init
  <2>5. masked \in [Threads -> BOOLEAN]
    BY Constants DEF Init
  <2> QED BY <2>1, <2>2, <2>3, <2>4, <2>5 DEF Init, TypeOK
<1>2. \A t \in Threads : ~ Holds(t)
  BY Labels DEF Init, Holds
<1>3. AllocExclusive
  BY <1>2 DEF Init, AllocExclusive
<1>4. BlocksOwned
  BY DEF Init, BlocksOwned, FreeBlock
<1>5. Quiet => Undisturbed
  BY <1>2, Constants DEF Init, Quiet, Undisturbed, SleeperHasEvent
<1> QED BY <1>1, <1>3, <1>4, <1>5 DEF SleepInv

\* What running the events of a set of time blocks does: the blocks are given
\* back and their owners, if they wait, no longer are blocked.
LEMMA EventsKeepInv ==
    ASSUME TypeOK, AllocExclusive, BlocksOwned,
           NEW b \in [Slots -> [owner : Threads \cup {Nobody}, left : Nat]],
           \A i \in Slots : b[i].owner = blocks[i].owner,
           NEW gone \in SUBSET Slots, NEW woken,
           woken = {b[i].owner : i \in gone},
           \A i \in gone : b[i].owner # Nobody,
           blocks' = [i \in Slots |-> IF i \in gone THEN FreeBlock ELSE b[i]],
           waiting' = waiting \ woken,
           blocked' = blocked \ (woken \cap waiting),
           isr' \in [Threads -> Seq(Slots)],
           UNCHANGED <<mode, pc, masked, alloc>>,
           curr' \in Threads \ blocked', fresh' = TRUE
    PROVE  /\ TypeOK' /\ AllocExclusive' /\ BlocksOwned'
           /\ SleeperHasEvent => SleeperHasEvent'
<1>1. \A i \in Slots : blocks'[i].owner = IF i \in gone THEN Nobody ELSE blocks[i].owner
  BY DEF FreeBlock
<1>2. TypeOK'
  <2>1. blocks' \in [Slots -> [owner : Threads \cup {Nobody}, left : Nat]]
    BY DEF FreeBlock
  <2> QED BY <2>1 DEF TypeOK
<1>3. AllocExclusive'
  BY DEF AllocExclusive, Holds
<1>4. BlocksOwned'
  <2>1. \A i, j \in Slots : blocks'[i].owner = blocks'[j].owner /\ blocks'[i].owner # Nobody
                            => i = j
    <3> TAKE i, j \in Slots
    <3> HAVE blocks'[i].owner = blocks'[j].owner /\ blocks'[i].owner # Nobody
    <3>1. i \notin gone /\ j \notin gone
      BY <1>1
    <3>2. blocks[i].owner = blocks[j].owner /\ blocks[i].owner # Nobody
      BY <3>1, <1>1
    <3> QED BY <3>2 DEF BlocksOwned
  <2>2. ASSUME NEW i \in Slots, blocks'[i].owner # Nobody
        PROVE  blocks'[i].owner \notin woken
    BY <2>2, <1>1 DEF BlocksOwned
  <2> QED BY <1>1, <2>1, <2>2 DEF BlocksOwned
<1>5. SleeperHasEvent => SleeperHasEvent'
  BY <1>1 DEF SleeperHasEvent
<1> QED BY <1>2, <1>3, <1>4, <1>5

\* The timer interrupt.
LEMMA TickInv == SleepInv /\ Tick => SleepInv'
<1> SUFFICES ASSUME SleepInv, Tick PROVE SleepInv'
  OBVIOUS
<1> USE DEF SleepInv
<1> DEFINE b == Elapsed
           fired == {i \in 1..MaxBlocks : Expired(b, i)}
           caught == {i \in fired : alloc /\ b[i].owner \in waiting}
           last == IF caught = {} THEN MaxBlocks ELSE Min(caught)
           gone == {i \in fired : i <= last}
           woken == {b[i].owner : i \in gone}
<1>1. /\ blocks' = [i \in Slots |-> IF i \in fired /\ i <= last THEN FreeBlock ELSE b[i]]
      /\ waiting' = waiting \ woken
      /\ blocked' = blocked \ (woken \cap waiting)
      /\ isr' = [isr EXCEPT ![curr] = IF caught = {} THEN @ ELSE Append(@, last)]
      /\ UNCHANGED <<mode, pc, masked, alloc>>
      /\ IntrOn(curr)
  BY DEF Tick, Events
<1>2. curr' \in Threads \ blocked' /\ fresh' = TRUE
  BY SwitchReady DEF Tick
<1>3. /\ b \in [Slots -> [owner : Threads \cup {Nobody}, left : Nat]]
      /\ \A i \in Slots : b[i].owner = blocks[i].owner
  <2>1. ASSUME NEW i \in Slots
        PROVE  /\ b[i] \in [owner : Threads \cup {Nobody}, left : Nat]
               /\ b[i].owner = blocks[i].owner
    <3>1. blocks[i] \in [owner : Threads \cup {Nobody}, left : Nat]
      BY DEF TypeOK
    <3>2. b[i] = [blocks[i] EXCEPT !.left = IF @ > TickNs THEN @ - TickNs ELSE 0]
      BY DEF Elapsed
    <3>3. (IF blocks[i].left > TickNs THEN blocks[i].left - TickNs ELSE 0) \in Nat
      BY <3>1, Constants
    <3> HIDE DEF b
    <3> QED BY <3>1, <3>2, <3>3
  <2>2. b = [i \in Slots |-> b[i]]
    BY DEF Elapsed
  <2> HIDE DEF b
  <2> QED BY <2>1, <2>2
<1>4. fired \subseteq Slots /\ \A i \in fired : b[i].owner # Nobody
  BY DEF Slots, Expired
<1> HIDE DEF b
<1>5. caught # {} => last \in Slots
  <2> SUFFICES ASSUME caught # {} PROVE Min(caught) \in caught
    BY <1>4
  <2>1. caught \in SUBSET Nat
    BY <1>4, Constants DEF Slots
  <2> QED BY <2>1, MinSlot
<1>6. isr' \in [Threads -> Seq(Slots)]
  BY <1>1, <1>5 DEF TypeOK
<1>7. /\ gone \in SUBSET Slots /\ \A i \in gone : b[i].owner # Nobody
      /\ blocks' = [i \in Slots |-> IF i \in gone THEN FreeBlock ELSE b[i]]
  BY <1>1, <1>4
<1>8. caught = {} => isr' = isr
  BY <1>1 DEF TypeOK
<1>9. Undisturbed => caught = {}
  <2> SUFFICES ASSUME Undisturbed PROVE ~ alloc
    OBVIOUS
  <2>1. ~ Holds(curr)
    BY <1>1, Constants, Labels DEF IntrOn, TypeOK, Undisturbed, Holds
  <2> QED BY <2>1 DEF AllocExclusive, Undisturbed
<1>10. Undisturbed => \A t \in Sleepers : pc[t] \notin {"item", "item_held", "append"}
  BY <1>1, Constants DEF IntrOn, TypeOK, Undisturbed
<1>11. Undisturbed => \A t \in Threads : ~ Holds(t)
  BY <1>9, <1>1, Constants, Labels DEF IntrOn, TypeOK, Undisturbed, Holds
<1>12. /\ TypeOK' /\ AllocExclusive' /\ BlocksOwned'
       /\ SleeperHasEvent => SleeperHasEvent'
  <2> HIDE DEF gone, fired, caught, last
  <2> QED BY <1>1, <1>2, <1>3, <1>6, <1>7, EventsKeepInv
<1>13. Quiet' => Undisturbed'
  <2> SUFFICES ASSUME Quiet PROVE Undisturbed'
    BY <1>1 DEF Quiet
  <2> QED BY <1>1, <1>8, <1>9, <1>10, <1>11, <1>12 DEF Undisturbed, Holds
<1> QED BY <1>12, <1>13

\* A caught interrupt that goes on.
LEMMA IsrResumeInv == SleepInv /\ IsrResume => SleepInv'
<1> SUFFICES ASSUME SleepInv, IsrResume PROVE SleepInv'
  OBVIOUS
<1> USE DEF SleepInv
<1> DEFINE next == Last(isr[curr]) + 1
           gone == {i \in next..MaxBlocks : Expired(blocks, i)}
           woken == {blocks[i].owner : i \in gone}
<1>1. /\ isr[curr] # <<>>
      /\ blocks' = [i \in Slots |-> IF i \in gone THEN FreeBlock ELSE blocks[i]]
      /\ waiting' = waiting \ woken
      /\ blocked' = blocked \ (woken \cap waiting)
      /\ isr' = [isr EXCEPT ![curr] = Front(@)]
      /\ UNCHANGED <<mode, pc, masked, alloc>>
  BY DEF IsrResume
<1>2. curr' \in Threads \ blocked' /\ fresh' = TRUE
  BY SwitchReady DEF IsrResume
<1>3. isr[curr] \in Seq(Slots) /\ Last(isr[curr]) \in Slots /\ Front(isr[curr]) \in Seq(Slots)
  BY <1>1 DEF TypeOK, Last, Front
<1>4. gone \in SUBSET Slots /\ \A i \in gone : blocks[i].owner # Nobody
  BY <1>3, Constants DEF Slots, Expired
<1>5. isr' \in [Threads -> Seq(Slots)]
  BY <1>1, <1>3 DEF TypeOK
<1>6. /\ TypeOK' /\ AllocExclusive' /\ BlocksOwned'
  <2>1. blocks \in [Slots -> [owner : Threads \cup {Nobody}, left : Nat]]
    BY DEF TypeOK
  <2> HIDE DEF gone
  <2> QED BY <2>1, <1>1, <1>2, <1>4, <1>5, EventsKeepInv
<1>7. ~ Quiet'
  BY <1>1 DEF Quiet, Undisturbed, TypeOK
<1> QED BY <1>6, <1>7

\* A switch away from a thread that waits for the allocator's lock.
LEMMA SpinInv ==
    ASSUME SleepInv, alloc, NEW t \in Threads, curr = t,
           isr[t] # <<>> \/ pc[t] \in DOMAIN Held,
           UNCHANGED <<mode, pc, masked, alloc, blocks, waiting, blocked, isr>>,
           Switch(t)
    PROVE  SleepInv'
<1>1. curr' \in Threads \ blocked' /\ fresh' = TRUE
  BY SwitchReady
<1>2. ~ Quiet
  BY Labels DEF SleepInv, Undisturbed, AllocExclusive, Holds
<1>3. TypeOK'
  BY <1>1 DEF SleepInv, TypeOK
<1>4. AllocExclusive'
  BY DEF SleepInv, AllocExclusive, Holds
<1>5. BlocksOwned'
  BY <1>1 DEF SleepInv, BlocksOwned
<1>6. ~ Quiet'
  BY <1>2 DEF Quiet
<1> QED BY <1>3, <1>4, <1>5, <1>6 DEF SleepInv

\* A thread enters delay(), or wait() starts to free its child.
LEMMA CallInv ==
    ASSUME SleepInv, NEW t \in Threads, CallDelay(t) \/ CallFree(t)
    PROVE  SleepInv'
<1>1. PICK l \in {"cond", "free"} :
        /\ pc[t] = "run" /\ pc' = [pc EXCEPT ![t] = l] /\ fresh' = FALSE /\ curr = t
        /\ UNCHANGED <<mode, curr, masked, alloc, blocks, waiting, blocked, isr>>
        /\ IF l = "cond" THEN t \in Sleepers ELSE mode.reaping
  BY DEF CallDelay, CallFree, Running, Goto
<1>2. TypeOK'
  BY <1>1, Labels DEF SleepInv, TypeOK
<1>3. \A u \in Threads : Holds(u)' <=> Holds(u)
  BY <1>1, Labels DEF SleepInv, TypeOK, Holds
<1>4. AllocExclusive'
  BY <1>1, <1>3 DEF SleepInv, AllocExclusive
<1>5. BlocksOwned'
  BY <1>1 DEF SleepInv, BlocksOwned, TypeOK
<1>6. Quiet' => Undisturbed'
  <2> SUFFICES ASSUME Quiet PROVE Undisturbed'
    BY <1>1 DEF Quiet
  <2>1. l = "cond" /\ t \in Sleepers
    BY <1>1 DEF Quiet
  <2> QED BY <1>1, <1>3, <2>1, Constants DEF SleepInv, Undisturbed, TypeOK, SleeperHasEvent
<1> QED BY <1>2, <1>4, <1>5, <1>6 DEF SleepInv

\* lock(&alloc_lock) finds the lock free.
LEMMA AcquireInv ==
    ASSUME SleepInv, NEW t \in Threads, Acquire(t)
    PROVE  SleepInv'
<1>1. /\ curr = t /\ pc[t] \in DOMAIN Held /\ ~ alloc /\ alloc' = TRUE
      /\ pc' = [pc EXCEPT ![t] = Held[pc[t]]] /\ fresh' = FALSE
      /\ UNCHANGED <<mode, curr, masked, blocks, waiting, blocked, isr>>
  BY DEF Acquire, Running, Goto
<1>2. Held[pc[t]] \in {"cond_held", "item_held", "free_held"}
  BY <1>1, Labels
<1>3. TypeOK'
  <2>1. t \notin Sleepers => Held[pc[t]] = "free_held"
    BY <1>1, Labels DEF SleepInv, TypeOK
  <2> QED BY <1>1, <1>2, <2>1, Labels DEF SleepInv, TypeOK
<1>4. \A u \in Threads : ~ Holds(u) /\ (Holds(u)' <=> u = t)
  BY <1>1, <1>2, Labels DEF SleepInv, TypeOK, AllocExclusive, Holds
<1>5. AllocExclusive'
  BY <1>1, <1>4 DEF AllocExclusive
<1>6. t \notin blocked
  BY <1>1 DEF SleepInv, BlocksOwned
<1>7. BlocksOwned'
  BY <1>1, <1>6, Labels DEF SleepInv, BlocksOwned, TypeOK
<1>8. Quiet' => Undisturbed'
  <2> SUFFICES ASSUME Quiet PROVE Undisturbed'
    BY <1>1 DEF Quiet
  <2>1. t \in Sleepers
    BY <1>1, Labels DEF SleepInv, Undisturbed
  <2>2. Held[pc[t]] = "item_held" => pc[t] = "item"
    BY <1>1, Labels
  <2>3. \A u \in Threads \ Sleepers : pc'[u] = "run"
    BY <1>1, <2>1, Constants DEF SleepInv, Undisturbed, TypeOK
  <2>4. \A u \in Sleepers : pc'[u] \in {"item", "item_held", "append"} =>
           curr = u /\ \E i \in Slots : blocks[i].owner = u
    BY <1>1, <1>2, <2>2, Constants DEF SleepInv, Undisturbed, TypeOK
  <2> QED BY <1>1, <1>4, <2>3, <2>4 DEF SleepInv, Undisturbed, SleeperHasEvent
<1> QED BY <1>3, <1>5, <1>7, <1>8 DEF SleepInv

\* The lock is given up.
LEMMA ReleaseInv ==
    ASSUME SleepInv, NEW t \in Threads, Release(t)
    PROVE  SleepInv'
<1>1. /\ curr = t /\ pc[t] \in DOMAIN After /\ alloc' = FALSE
      /\ pc' = [pc EXCEPT ![t] = After[pc[t]]] /\ fresh' = FALSE
      /\ UNCHANGED <<mode, curr, masked, blocks, waiting, blocked, isr>>
  BY DEF Release, Running, Goto
<1>2. After[pc[t]] \in {"arm", "append", "run"}
  BY <1>1, Labels
<1>3. TypeOK'
  <2>1. t \notin Sleepers => After[pc[t]] = "run"
    BY <1>1, Labels DEF SleepInv, TypeOK
  <2> QED BY <1>1, <1>2, <2>1, Labels DEF SleepInv, TypeOK
<1>4. \A u \in Threads : ~ Holds(u)'
  BY <1>1, <1>2, Labels DEF SleepInv, TypeOK, AllocExclusive, Holds
<1>5. AllocExclusive'
  BY <1>1, <1>4 DEF AllocExclusive
<1>6. BlocksOwned'
  BY <1>1, Labels DEF SleepInv, BlocksOwned, TypeOK
<1>7. Quiet' => Undisturbed'
  <2> SUFFICES ASSUME Quiet PROVE Undisturbed'
    BY <1>1 DEF Quiet
  <2>1. t \in Sleepers
    BY <1>1, Labels DEF SleepInv, Undisturbed
  <2>2. After[pc[t]] = "append" => pc[t] = "item_held"
    BY <1>1, Labels
  <2>3. \A u \in Threads \ Sleepers : pc'[u] = "run"
    BY <1>1, <2>1, Constants DEF SleepInv, Undisturbed, TypeOK
  <2>4. \A u \in Sleepers : pc'[u] \in {"item", "item_held", "append"} =>
           curr = u /\ \E i \in Slots : blocks[i].owner = u
    BY <1>1, <1>2, <2>2, Constants DEF SleepInv, Undisturbed, TypeOK
  <2> QED BY <1>1, <1>4, <2>3, <2>4 DEF SleepInv, Undisturbed, SleeperHasEvent
<1> QED BY <1>3, <1>5, <1>6, <1>7 DEF SleepInv

\* add_time_block sets up the first free block, or panics.
LEMMA ArmInv ==
    ASSUME SleepInv, NEW t \in Threads, Arm(t)
    PROVE  SleepInv'
<1> DEFINE free == {i \in Slots : blocks[i].owner = Nobody}
<1>1. /\ curr = t /\ pc[t] = "arm" /\ masked' = [masked EXCEPT ![t] = TRUE]
      /\ fresh' = FALSE
      /\ UNCHANGED <<mode, curr, alloc, waiting, blocked, isr>>
  BY DEF Arm, Running
<1>2. t \in Sleepers
  BY <1>1 DEF SleepInv, TypeOK
<1>3. \A i \in Slots : blocks[i].owner # t
  BY <1>1, Constants DEF SleepInv, BlocksOwned
<1>4. CASE free = {}
  <2>1. pc' = [pc EXCEPT ![t] = "panic"] /\ blocks' = blocks
    BY <1>4 DEF Arm, Goto
  <2>2. TypeOK'
    BY <1>1, <1>2, <2>1, Labels DEF SleepInv, TypeOK
  <2>3. \A u \in Threads : Holds(u)' <=> Holds(u)
    BY <1>1, <2>1, Labels DEF SleepInv, TypeOK, Holds
  <2>4. AllocExclusive'
    BY <1>1, <2>3 DEF SleepInv, AllocExclusive
  <2>5. BlocksOwned'
    BY <1>1, <1>3, <2>1 DEF SleepInv, BlocksOwned, TypeOK
  <2>6. Quiet' => Undisturbed'
    <3> SUFFICES ASSUME Quiet PROVE Undisturbed'
      BY <1>1 DEF Quiet
    <3> QED BY <1>1, <1>2, <2>1, <2>3, Constants
            DEF SleepInv, Undisturbed, TypeOK, SleeperHasEvent
  <2> QED BY <2>2, <2>4, <2>5, <2>6 DEF SleepInv
<1>5. CASE free # {}
  <2>1. PICK d \in Delays :
          /\ blocks' = [blocks EXCEPT ![Min(free)] = [owner |-> t, left |-> d]]
          /\ pc' = [pc EXCEPT ![t] = "item"]
    BY <1>5 DEF Arm, Goto
  <2>2. Min(free) \in free
    <3>1. free \in SUBSET Nat
      BY Constants DEF Slots
    <3> QED BY <3>1, <1>5, MinSlot
  <2> DEFINE m == Min(free)
  <2>3. m \in Slots /\ blocks[m].owner = Nobody
    BY <2>2
  <2>4. blocks' \in [Slots -> [owner : Threads \cup {Nobody}, left : Nat]]
    BY <2>1, <2>3, Constants DEF SleepInv, TypeOK
  <2>5. \A i \in Slots : blocks'[i].owner = IF i = m THEN t ELSE blocks[i].owner
    BY <2>1, <2>3 DEF SleepInv, TypeOK
  <2> HIDE DEF m, free
  <2>6. TypeOK'
    BY <1>1, <1>2, <2>1, <2>4, Labels DEF SleepInv, TypeOK
  <2>7. \A u \in Threads : Holds(u)' <=> Holds(u)
    BY <1>1, <2>1, Labels DEF SleepInv, TypeOK, Holds
  <2>8. AllocExclusive'
    BY <1>1, <2>7 DEF SleepInv, AllocExclusive
  <2>9. \A u \in Threads : pc'[u] = IF u = t THEN "item" ELSE pc[u]
    BY <2>1 DEF SleepInv, TypeOK
  <2>10. BlocksOwned'
    <3>1. ASSUME NEW i \in Slots, NEW j \in Slots,
                 blocks'[i].owner = blocks'[j].owner, blocks'[i].owner # Nobody
          PROVE  i = j
      BY <3>1, <1>3, <2>5 DEF SleepInv, BlocksOwned
    <3>2. ASSUME NEW i \in Slots, blocks'[i].owner # Nobody
          PROVE  \/ pc'[blocks'[i].owner] \in {"item", "item_held", "append"}
                 \/ /\ pc'[blocks'[i].owner] = "asleep"
                    /\ blocks'[i].owner \in blocked \cap waiting
      <4>1. CASE i = m
        BY <4>1, <2>5, <2>9
      <4>2. CASE i # m
        <5>1. blocks'[i].owner = blocks[i].owner /\ blocks[i].owner # t
          BY <4>2, <2>5, <1>3
        <5>2. blocks[i].owner \in Threads
          BY <3>2, <5>1 DEF SleepInv, TypeOK
        <5> QED BY <3>2, <5>1, <5>2, <2>9 DEF SleepInv, BlocksOwned
      <4> QED BY <4>1, <4>2
    <3> QED BY <3>1, <3>2, <1>1 DEF SleepInv, BlocksOwned
  <2>11. Quiet' => Undisturbed'
    <3> SUFFICES ASSUME Quiet PROVE Undisturbed'
      BY <1>1 DEF Quiet
    <3>1. \A u : (\E i \in Slots : blocks[i].owner = u) /\ u \in Threads =>
                \E i \in Slots : blocks'[i].owner = u
      BY <2>3, <2>5, Constants
    <3>2. \E i \in Slots : blocks'[i].owner = t
      BY <2>3, <2>5
    <3>3. SleeperHasEvent'
      BY <1>1, <3>1, Constants DEF SleepInv, TypeOK, Undisturbed, SleeperHasEvent
    <3>4. \A u \in Sleepers : pc'[u] \in {"item", "item_held", "append"} =>
             curr = u /\ \E i \in Slots : blocks'[i].owner = u
      BY <1>1, <2>9, <3>1, <3>2, Constants DEF SleepInv, Undisturbed
    <3>5. \A u \in Sleepers : masked'[u]
      BY <1>1, Constants DEF SleepInv, Undisturbed, TypeOK
    <3> QED BY <1>1, <1>2, <2>7, <2>9, <3>3, <3>4, <3>5 DEF SleepInv, Undisturbed
  <2> QED BY <2>6, <2>8, <2>10, <2>11 DEF SleepInv
<1> QED BY <1>4, <1>5

\* The thread joins the cond's list and blocks.
LEMMA SleepStepInv ==
    ASSUME SleepInv, NEW t \in Threads, Sleep(t)
    PROVE  SleepInv'
<1>1. /\ curr = t /\ pc[t] = "append" /\ waiting' = waiting \cup {t}
      /\ blocked' = blocked \cup {t} /\ pc' = [pc EXCEPT ![t] = "asleep"]
      /\ UNCHANGED <<mode, masked, alloc, blocks, isr>>
  BY DEF Sleep, Running, Goto
<1>2. curr' \in Threads \ blocked' /\ fresh' = TRUE
  BY SwitchReady DEF Sleep
<1>3. t \in Sleepers
  BY <1>1 DEF SleepInv, TypeOK
<1>4. TypeOK'
  BY <1>1, <1>2, <1>3, Labels DEF SleepInv, TypeOK
<1>5. \A u \in Threads : Holds(u)' <=> Holds(u)
  BY <1>1, Labels DEF SleepInv, TypeOK, Holds
<1>6. AllocExclusive'
  BY <1>1, <1>5 DEF SleepInv, AllocExclusive
<1>7. BlocksOwned'
  BY <1>1, <1>2 DEF SleepInv, BlocksOwned, TypeOK
<1>8. Quiet' => Undisturbed'
  <2> SUFFICES ASSUME Quiet PROVE Undisturbed'
    BY <1>1 DEF Quiet
  <2>1. ~ Holds(t)
    BY <1>1, Labels DEF Holds
  <2>2. \A u \in Threads : ~ Holds(u)
    BY <1>1, <2>1 DEF SleepInv, Undisturbed
  <2>3. \A u \in Sleepers : pc'[u] \notin {"item", "item_held", "append"}
    BY <1>1, Constants DEF SleepInv, Undisturbed, TypeOK
  <2>4. SleeperHasEvent'
    BY <1>1, <1>3 DEF SleepInv, Undisturbed, SleeperHasEvent
  <2> QED BY <1>1, <1>3, <1>5, <2>2, <2>3, <2>4 DEF SleepInv, Undisturbed, TypeOK
<1> QED BY <1>4, <1>6, <1>7, <1>8 DEF SleepInv

\* Every step keeps the invariant.
LEMMA NextInv == SleepInv /\ [Next]_vars => SleepInv'
<1> SUFFICES ASSUME SleepInv, [Next]_vars PROVE SleepInv'
  OBVIOUS
<1>1. CASE Tick
  BY <1>1, TickInv
<1>2. ASSUME NEW t \in Threads, Step(t)
      PROVE  SleepInv'
  <2>1. CASE CallDelay(t) \/ CallFree(t)
    BY <2>1, CallInv
  <2>2. CASE Acquire(t)
    BY <2>2, AcquireInv
  <2>3. CASE Spin(t)
    BY <2>3, SpinInv DEF Spin, Running
  <2>4. CASE Release(t)
    BY <2>4, ReleaseInv
  <2>5. CASE Arm(t)
    BY <2>5, ArmInv
  <2>6. CASE Sleep(t)
    BY <2>6, SleepStepInv
  <2>7. CASE curr = t /\ IsrSpin
    BY <2>7, SpinInv DEF IsrSpin
  <2>8. CASE curr = t /\ IsrResume
    BY <2>8, IsrResumeInv
  <2> QED BY <1>2, <2>1, <2>2, <2>3, <2>4, <2>5, <2>6, <2>7, <2>8 DEF Step
<1>3. CASE UNCHANGED vars
  BY <1>3 DEF vars, SleepInv, TypeOK, AllocExclusive, BlocksOwned, Quiet, Undisturbed,
              SleeperHasEvent, Holds
<1> QED BY <1>1, <1>2, <1>3 DEF Next

(* delay() of kernel/src/time/delay.c loses no wakeup while every thread     *)
(* that uses the allocator has interrupts disabled, the allocator's lock is  *)
(* exclusive whoever interrupts whom, and a thread owns at most one of the   *)
(* time blocks of kernel/src/time/time.c, and only while it waits for it:    *)
(* for any threads, time blocks and delays.                                  *)
THEOREM SleepCorrect == Spec => []SleepInv
<1> QED BY InitInv, NextInv, PTL DEF Spec

-----------------------------------------------------------------------------
(* The time blocks do not run out.                                          *)

\* If no block is free, every block has an owner of its own, and the thread
\* that arms another one is none of them: there are more sleepers than blocks.
LEMMA FreeBlockLeft ==
    ASSUME SleepInv, NEW t \in Sleepers, pc[t] = "arm",
           Cardinality(Sleepers) <= MaxBlocks
    PROVE  \E i \in Slots : blocks[i].owner = Nobody
<1> SUFFICES ASSUME \A i \in Slots : blocks[i].owner # Nobody
             PROVE  FALSE
  OBVIOUS
<1> DEFINE f == [i \in Slots |-> blocks[i].owner]
           others == Sleepers \ {t}
<1>1. \A i \in Slots : blocks[i].owner \in Threads /\
                       pc[blocks[i].owner] \in {"item", "item_held", "append", "asleep"}
  BY DEF SleepInv, BlocksOwned, TypeOK
<1>2. f \in [Slots -> others]
  BY <1>1 DEF SleepInv, TypeOK
<1>3. \A i, j \in Slots : f[i] = f[j] => i = j
  BY DEF SleepInv, BlocksOwned
<1>4. IsFiniteSet(Slots) /\ Cardinality(Slots) = MaxBlocks
  BY Constants, FS_Interval DEF Slots
<1>5. IsFiniteSet(others) /\ Cardinality(others) = Cardinality(Sleepers) - 1
  BY SleepersFinite, FS_RemoveElement
<1>6. Cardinality(Sleepers) \in Nat
  BY SleepersFinite, FS_CardinalityType
<1>7. Cardinality(others) < Cardinality(Slots)
  BY <1>4, <1>5, <1>6, Constants
<1> HIDE DEF f, others
<1> QED BY <1>2, <1>3, <1>4, <1>5, <1>7, FS_PigeonHole

LEMMA NextOutOfBlocks ==
    SleepInv /\ NeverOutOfBlocks /\ [Next]_vars => NeverOutOfBlocks'
<1> SUFFICES ASSUME SleepInv, NeverOutOfBlocks, [Next]_vars,
                    Cardinality(Sleepers) <= MaxBlocks, NEW u \in Threads
             PROVE  pc'[u] # "panic"
  BY DEF NeverOutOfBlocks
<1>1. pc \in [Threads -> PCs] /\ pc[u] # "panic"
  BY DEF SleepInv, TypeOK, NeverOutOfBlocks
<1>2. ASSUME NEW t \in Threads, Arm(t)
      PROVE  pc' = [pc EXCEPT ![t] = "item"]
  <2>1. t \in Sleepers /\ pc[t] = "arm"
    BY <1>2 DEF Arm, Running, SleepInv, TypeOK
  <2>2. \E i \in Slots : blocks[i].owner = Nobody
    BY <2>1, FreeBlockLeft
  <2> QED BY <1>2, <2>2 DEF Arm, Goto
<1>3. ASSUME NEW t \in Threads, Step(t), ~ Arm(t)
      PROVE  pc' = pc \/ \E l \in PCs \ {"panic"} : pc' = [pc EXCEPT ![t] = l]
  <2>1. CASE CallDelay(t) \/ CallFree(t)
    BY <2>1, Labels DEF CallDelay, CallFree, Goto
  <2>2. CASE Acquire(t)
    BY <2>2, Labels DEF Acquire, Goto, Running
  <2>3. CASE Release(t)
    BY <2>3, Labels DEF Release, Goto, Running
  <2>4. CASE Sleep(t)
    BY <2>4, Labels DEF Sleep, Goto
  <2>5. CASE Spin(t) \/ IsrSpin \/ IsrResume
    BY <2>5 DEF Spin, IsrSpin, IsrResume
  <2> QED BY <1>3, <2>1, <2>2, <2>3, <2>4, <2>5 DEF Step
<1>4. CASE \E t \in Threads : Step(t)
  BY <1>4, <1>1, <1>2, <1>3
<1>5. CASE Tick \/ UNCHANGED vars
  BY <1>5, <1>1 DEF Tick, vars
<1> QED BY <1>4, <1>5 DEF Next

(* add_time_block of kernel/src/time/time.c never runs out of blocks, and    *)
(* delay() never panics, if there are at least as many time blocks as        *)
(* threads that sleep.                                                       *)
THEOREM BlocksSuffice == Spec => []NeverOutOfBlocks
<1>1. Init => NeverOutOfBlocks
  BY DEF Init, NeverOutOfBlocks
<1> QED BY <1>1, SleepCorrect, NextOutOfBlocks, PTL DEF Spec

=============================================================================
