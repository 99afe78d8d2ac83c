---------------------------- MODULE LoaderProofs ----------------------------
(* Proofs about the module loader of Loader, for any files, any list of     *)
(* modules to load and any addresses.                                       *)
EXTENDS Loader, WellFoundedInduction, TLAPS

-----------------------------------------------------------------------------
(* The inductive invariant.                                                 *)

\* The files that may be asked for.
Loadable == KtermFiles \cup UNION {ToSet(names) : names \in Preloads}

\* A task has all its fields, and works on a file that was asked for; what was
\* started was a task.
Busy(t) == t.file \in Loadable /\ t.base \in Nat \ {0}
IsTask(t) ==
    /\ t = [k \in {"pc", "file", "load", "base", "refs"} |-> t[k]]
    /\ t.pc \in {"idle", "stopped"} \/ Busy(t)
WellFormed ==
    /\ current_base \in Nat \ {0}
    /\ task = [l \in Loaders |-> task[l]] /\ \A l \in Loaders : IsTask(task[l])
    /\ todo \in Seq(Loadable)
    /\ loaded \in Seq(ToSet(loaded)) /\ started \in Seq(ToSet(started))
    /\ \A d \in DOMAIN started : Busy(started[d])

\* Who is about to start has had its requirements checked against the list, and
\* whoever is or gets on the list was started.
Idents == {Files[started[d].file].ident : d \in DOMAIN started}
CheckedAt(l) ==
    /\ At(l, "start") => Files[task[l].file].requires \subseteq Idents
    /\ At(l, "append") =>
         \E d \in DOMAIN started :
            started[d].file = task[l].file /\ started[d].base = task[l].base
Checked ==
    /\ \A l \in Loaders : CheckedAt(l)
    /\ \A n \in DOMAIN loaded : loaded[n].ident \in Idents

\* The symbols of a module on the list are those of a module of st.
Offered(y, st) ==
    \E d \in DOMAIN st : y \in SymbolTable(st[d].file, st[d].base)
SymbolsOffered == \A n \in DOMAIN loaded : \A y \in loaded[n].symbols : Offered(y, started)

LoadInv == WellFormed /\ Checked /\ RequiredFirst /\ SymbolsOffered

-----------------------------------------------------------------------------
(* Sequences and tasks.                                                     *)

\* A list with one more entry.
LEMMA AppendFacts ==
    ASSUME NEW s, s \in Seq(ToSet(s)), NEW e
    PROVE  /\ Append(s, e) \in Seq(ToSet(Append(s, e)))
           /\ Len(s) \in Nat /\ Len(Append(s, e)) = Len(s) + 1
           /\ DOMAIN s = 1..Len(s) /\ DOMAIN Append(s, e) = 1..(Len(s) + 1)
           /\ \A n \in 1..Len(s) : Append(s, e)[n] = s[n]
           /\ Append(s, e)[Len(s) + 1] = e
<1> DEFINE T == ToSet(s) \cup {e}
<1>1. s \in Seq(T)
  <2>1. DOMAIN s = 1..Len(s) /\ Len(s) \in Nat
    OBVIOUS
  <2>2. \A n \in 1..Len(s) : s[n] \in T
    BY <2>1 DEF ToSet
  <2> QED BY <2>1, <2>2
<1>2. /\ Append(s, e) \in Seq(T) /\ Len(s) \in Nat /\ Len(Append(s, e)) = Len(s) + 1
      /\ DOMAIN s = 1..Len(s) /\ DOMAIN Append(s, e) = 1..(Len(s) + 1)
      /\ \A n \in 1..Len(s) : Append(s, e)[n] = s[n]
      /\ Append(s, e)[Len(s) + 1] = e
  BY <1>1
<1>3. Append(s, e) \in Seq(ToSet(Append(s, e)))
  <2> PICK r : r = Append(s, e)
    OBVIOUS
  <2>1. r \in Seq(T)
    BY <1>2
  <2>2. \A n \in 1..Len(r) : r[n] \in ToSet(r)
    BY <2>1 DEF ToSet
  <2>3. r \in Seq(ToSet(r))
    BY <2>1, <2>2
  <2> QED BY <2>3
<1> QED BY <1>2, <1>3

\* One loader's task is replaced.
LEMMA UpdateFacts ==
    ASSUME task = [l \in Loaders |-> task[l]], NEW l \in Loaders, NEW t,
           task' = [task EXCEPT ![l] = t]
    PROVE  /\ task' = [k \in Loaders |-> task'[k]]
           /\ task'[l] = t /\ \A k \in Loaders : k # l => task'[k] = task[k]
OBVIOUS

\* A task that is given up, and the fields of one that goes on.
LEMMA TaskFacts ==
    /\ IsTask(NoTask) /\ NoTask.pc = "idle"
    /\ \A x \in {"idle", "stopped"} :
          IsTask([NoTask EXCEPT !.pc = x]) /\ [NoTask EXCEPT !.pc = x].pc = x
<1>1. IsTask(NoTask) /\ NoTask.pc = "idle"
  BY DEF IsTask, NoTask
<1>2. ASSUME NEW x \in {"idle", "stopped"}
      PROVE  IsTask([NoTask EXCEPT !.pc = x]) /\ [NoTask EXCEPT !.pc = x].pc = x
  BY <1>1 DEF IsTask
<1> QED BY <1>1, <1>2

-----------------------------------------------------------------------------
(* Every step preserves the invariant.                                      *)

LEMMA InitInv == Init => LoadInv
<1> SUFFICES ASSUME Init PROVE LoadInv
  OBVIOUS
<1> USE DEF Init
<1>1. todo \in Seq(Loadable)
  <2>1. todo \in Seq(ToSet(todo)) /\ ToSet(todo) \subseteq Loadable
    BY LoaderAssumption DEF Loadable
  <2> QED BY <2>1
<1>2. current_base \in Nat \ {0}
  BY LoaderAssumption
<1>3. \A l \in Loaders : IsTask(task[l]) /\ task[l].pc = "idle"
  BY TaskFacts
<1>4. WellFormed
  BY <1>1, <1>2, <1>3 DEF WellFormed
<1>5. Checked
  BY <1>3 DEF Checked, CheckedAt, At
<1>6. RequiredFirst /\ SymbolsOffered
  BY DEF RequiredFirst, SymbolsOffered
<1> QED BY <1>4, <1>5, <1>6 DEF LoadInv

\* A step of one loader that starts nothing and puts nothing on the list.
LEMMA LoaderStep ==
    ASSUME LoadInv, UNCHANGED <<loaded, started>>,
           current_base' \in Nat \ {0}, todo' \in Seq(Loadable),
           NEW l \in Loaders, NEW t, task' = [task EXCEPT ![l] = t], IsTask(t),
           t.pc # "append", t.pc = "start" => Files[t.file].requires \subseteq Idents
    PROVE  LoadInv'
<1>1. /\ task' = [k \in Loaders |-> task'[k]] /\ task'[l] = t
      /\ \A k \in Loaders : k # l => task'[k] = task[k]
  BY UpdateFacts DEF LoadInv, WellFormed
<1>2. WellFormed'
  BY <1>1 DEF LoadInv, WellFormed
<1>3. Idents' = Idents
  BY DEF Idents
<1>4. Checked'
  <2>1. ASSUME NEW k \in Loaders PROVE CheckedAt(k)'
    <3>1. CASE k = l
      BY <3>1, <1>1, <1>3 DEF CheckedAt, At
    <3>2. CASE k # l
      BY <3>2, <1>1, <1>3 DEF LoadInv, Checked, CheckedAt, At
    <3> QED BY <3>1, <3>2
  <2> QED BY <2>1, <1>3 DEF LoadInv, Checked
<1>5. RequiredFirst' /\ SymbolsOffered'
  BY DEF LoadInv, RequiredFirst, SymbolsOffered
<1> QED BY <1>2, <1>4, <1>5 DEF LoadInv

\* A module that cannot be installed.
LEMMA RefuseStep ==
    ASSUME LoadInv, NEW l \in Loaders, Refuse(l), UNCHANGED <<loaded, started>>,
           current_base' \in Nat \ {0}, todo' \in Seq(Loadable)
    PROVE  LoadInv'
<1> DEFINE t == [NoTask EXCEPT !.pc = IF l = "preload" THEN "stopped" ELSE "idle"]
<1>1. IsTask(t) /\ t.pc \in {"stopped", "idle"}
  BY TaskFacts
<1>2. task' = [task EXCEPT ![l] = t]
  BY DEF Refuse
<1> HIDE DEF t
<1> QED BY <1>1, <1>2, LoaderStep

LEMMA ReadStep ==
    ASSUME LoadInv, NEW l \in Loaders, NEW f \in Loadable, Read(l, f),
           todo' \in Seq(Loadable)
    PROVE  LoadInv'
<1> USE DEF Read
<1>1. current_base' \in Nat \ {0} /\ current_base' = current_base
  BY DEF LoadInv, WellFormed
<1>2. CASE module_read(f)
  <2> DEFINE t == [NoTask EXCEPT !.pc = "place", !.file = f, !.base = current_base]
  <2>1. IsTask(t) /\ t.pc = "place"
    BY <1>1 DEF IsTask, Busy, NoTask
  <2>2. task' = [task EXCEPT ![l] = t]
    BY <1>2
  <2> HIDE DEF t
  <2> QED BY <1>1, <2>1, <2>2, LoaderStep
<1>3. CASE ~ module_read(f)
  BY <1>1, <1>3, RefuseStep
<1> QED BY <1>2, <1>3

LEMMA PlaceStep ==
    ASSUME LoadInv, NEW l \in Loaders, Place(l)
    PROVE  LoadInv'
<1>1. /\ current_base' \in Nat \ {0} /\ todo' \in Seq(Loadable)
      /\ UNCHANGED <<loaded, started>> /\ IsTask(task[l])
      /\ task[l].pc \notin {"idle", "stopped"}
      /\ task = [k \in Loaders |-> task[k]]
  BY DEF LoadInv, WellFormed, Place, At
<1>2. CASE Refuse(l)
  BY <1>1, <1>2, RefuseStep
<1>3. ASSUME NEW n, task' = [task EXCEPT ![l].pc = "relocate", ![l].load = n]
      PROVE  LoadInv'
  <2> DEFINE t == [[task[l] EXCEPT !.pc = "relocate"] EXCEPT !.load = n]
  <2>1. task' = [task EXCEPT ![l] = t]
    BY <1>1, <1>3
  <2>2. IsTask(t) /\ t.pc = "relocate"
    BY <1>1 DEF IsTask, Busy
  <2> HIDE DEF t
  <2> QED BY <1>1, <2>1, <2>2, LoaderStep
<1> QED BY <1>2, <1>3 DEF Place

LEMMA RelocateStep ==
    ASSUME LoadInv, NEW l \in Loaders, Relocate(l)
    PROVE  LoadInv'
<1>1. /\ current_base' \in Nat \ {0} /\ todo' \in Seq(Loadable)
      /\ UNCHANGED <<loaded, started>> /\ IsTask(task[l])
      /\ task[l].pc \notin {"idle", "stopped"}
      /\ task = [k \in Loaders |-> task[k]]
  BY DEF LoadInv, WellFormed, Relocate, At
<1>2. CASE Refuse(l)
  BY <1>1, <1>2, RefuseStep
<1>3. ASSUME NEW refs, task' = [task EXCEPT ![l].pc = "bump", ![l].refs = refs]
      PROVE  LoadInv'
  <2> DEFINE t == [[task[l] EXCEPT !.pc = "bump"] EXCEPT !.refs = refs]
  <2>1. task' = [task EXCEPT ![l] = t]
    BY <1>1, <1>3
  <2>2. IsTask(t) /\ t.pc = "bump"
    BY <1>1 DEF IsTask, Busy
  <2> HIDE DEF t
  <2> QED BY <1>1, <2>1, <2>2, LoaderStep
<1> QED BY <1>2, <1>3 DEF Relocate

LEMMA BumpStep ==
    ASSUME LoadInv, NEW l \in Loaders, Bump(l)
    PROVE  LoadInv'
<1>1. /\ todo' \in Seq(Loadable)
      /\ UNCHANGED <<loaded, started>> /\ IsTask(task[l])
      /\ task[l].pc \notin {"idle", "stopped"}
      /\ task = [k \in Loaders |-> task[k]]
  BY DEF LoadInv, WellFormed, Bump, At
<1>2. current_base' \in Nat \ {0}
  BY LoaderAssumption DEF LoadInv, WellFormed, Bump
<1> DEFINE t == [task[l] EXCEPT !.pc = "check"]
<1>3. task' = [task EXCEPT ![l] = t]
  BY <1>1 DEF Bump, Go
<1>4. IsTask(t) /\ t.pc = "check"
  BY <1>1 DEF IsTask, Busy
<1> HIDE DEF t
<1> QED BY <1>1, <1>2, <1>3, <1>4, LoaderStep

\* The requirements are looked up among the modules on the list, all started.
LEMMA CheckStep ==
    ASSUME LoadInv, NEW l \in Loaders, Check(l)
    PROVE  LoadInv'
<1>1. /\ current_base' \in Nat \ {0} /\ todo' \in Seq(Loadable)
      /\ UNCHANGED <<loaded, started>> /\ IsTask(task[l])
      /\ task[l].pc \notin {"idle", "stopped"}
      /\ task = [k \in Loaders |-> task[k]]
  BY DEF LoadInv, WellFormed, Check, At
<1>2. CASE Refuse(l)
  BY <1>1, <1>2, RefuseStep
<1>3. CASE _check_requirements(task[l].file) /\ Go(l, "start")
  <2> DEFINE t == [task[l] EXCEPT !.pc = "start"]
  <2>1. task' = [task EXCEPT ![l] = t]
    BY <1>1, <1>3 DEF Go
  <2>2. IsTask(t) /\ t.pc = "start" /\ t.file = task[l].file
    BY <1>1 DEF IsTask, Busy
  <2>3. Files[task[l].file].requires \subseteq Idents
    BY <1>3 DEF _check_requirements, LoadInv, Checked
  <2> HIDE DEF t
  <2> QED BY <1>1, <2>1, <2>2, <2>3, LoaderStep
<1> QED BY <1>2, <1>3 DEF Check

LEMMA StartStep ==
    ASSUME LoadInv, NEW l \in Loaders, Start(l)
    PROVE  LoadInv'
<1> DEFINE len == Len(started)
<1>1. /\ current_base' \in Nat \ {0} /\ todo' \in Seq(Loadable)
      /\ loaded' = loaded /\ started' = Append(started, task[l])
      /\ loaded \in Seq(ToSet(loaded)) /\ started \in Seq(ToSet(started))
      /\ IsTask(task[l]) /\ task[l].pc = "start" /\ Busy(task[l])
      /\ task = [k \in Loaders |-> task[k]]
  BY DEF LoadInv, WellFormed, Start, At, IsTask
<1>2. /\ started' \in Seq(ToSet(started')) /\ len \in Nat
      /\ DOMAIN started = 1..len /\ DOMAIN started' = 1..(len + 1)
      /\ \A n \in 1..len : started'[n] = started[n]
      /\ started'[len + 1] = task[l]
  <2> PICK e : e = task[l]
    OBVIOUS
  <2> PICK s : s = started
    OBVIOUS
  <2>1. s \in Seq(ToSet(s)) /\ started' = Append(s, e)
    BY <1>1
  <2> QED BY <2>1, AppendFacts
<1> HIDE DEF len
<1>3. /\ 1..len \subseteq 1..(len + 1) /\ len + 1 \in 1..(len + 1)
      /\ \A n \in 1..(len + 1) : n \in 1..len \/ n = len + 1
  BY <1>2
<1> DEFINE t == [task[l] EXCEPT !.pc = "append"]
<1>4. task' = [task EXCEPT ![l] = t]
  BY <1>1 DEF Start, Go
<1>5. IsTask(t) /\ t.pc = "append" /\ t.file = task[l].file /\ t.base = task[l].base
  BY <1>1 DEF IsTask, Busy
<1>6. /\ task' = [k \in Loaders |-> task'[k]] /\ task'[l] = t
      /\ \A k \in Loaders : k # l => task'[k] = task[k]
  BY <1>1, <1>4, UpdateFacts
<1> HIDE DEF t
<1>7. WellFormed'
  <2>1. \A d \in DOMAIN started' : Busy(started'[d])
    BY <1>1, <1>2, <1>3 DEF LoadInv, WellFormed
  <2> QED BY <1>1, <1>2, <1>5, <1>6, <2>1 DEF LoadInv, WellFormed
<1>8. Idents \subseteq Idents'
  BY <1>2, <1>3 DEF Idents
<1>9. Checked'
  <2>1. ASSUME NEW k \in Loaders PROVE CheckedAt(k)'
    <3>1. CASE k = l
      BY <3>1, <1>2, <1>3, <1>5, <1>6 DEF CheckedAt, At
    <3>2. CASE k # l
      BY <3>2, <1>2, <1>3, <1>6, <1>8 DEF LoadInv, Checked, CheckedAt, At
    <3> QED BY <3>1, <3>2
  <2> QED BY <2>1, <1>1, <1>8 DEF LoadInv, Checked
<1>10. RequiredFirst'
  <2> SUFFICES ASSUME NEW n \in 1..(len + 1), NEW id \in Files[started'[n].file].requires
               PROVE  \E d \in 1 .. n - 1 : Files[started'[d].file].ident = id
    BY <1>2 DEF RequiredFirst
  <2>1. CASE n \in 1..len
    <3>1. PICK d \in 1 .. n - 1 : Files[started[d].file].ident = id
      BY <2>1, <1>2 DEF LoadInv, RequiredFirst
    <3>2. d \in 1..len
      BY <2>1, <1>2
    <3> QED BY <3>1, <3>2, <1>2
  <2>2. CASE n = len + 1
    <3>1. id \in Idents
      BY <2>2, <1>1, <1>2 DEF LoadInv, Checked, CheckedAt, At
    <3>2. PICK d \in 1..len : Files[started[d].file].ident = id
      BY <3>1, <1>2 DEF Idents
    <3>3. d \in 1 .. n - 1
      BY <2>2, <1>2
    <3> QED BY <3>2, <3>3, <1>2
  <2> QED BY <1>3, <2>1, <2>2
<1>11. SymbolsOffered'
  BY <1>1, <1>2, <1>3 DEF LoadInv, SymbolsOffered, Offered
<1> QED BY <1>7, <1>9, <1>10, <1>11 DEF LoadInv

LEMMA EnlistStep ==
    ASSUME LoadInv, NEW l \in Loaders, Enlist(l)
    PROVE  LoadInv'
<1> DEFINE len == Len(loaded)
           f == task[l].file
           m == [ident |-> Files[f].ident, symbols |-> SymbolTable(f, task[l].base)]
<1>1. /\ current_base' \in Nat \ {0} /\ todo' \in Seq(Loadable)
      /\ loaded' = Append(loaded, m) /\ started' = started
      /\ loaded \in Seq(ToSet(loaded)) /\ started \in Seq(ToSet(started))
      /\ task[l].pc = "append"
      /\ task = [k \in Loaders |-> task[k]] /\ task' = [task EXCEPT ![l] = NoTask]
  BY DEF LoadInv, WellFormed, Enlist, At
<1>2. m.ident = Files[f].ident /\ m.symbols = SymbolTable(f, task[l].base)
  OBVIOUS
<1>3. /\ loaded' \in Seq(ToSet(loaded')) /\ len \in Nat
      /\ DOMAIN loaded = 1..len /\ DOMAIN loaded' = 1..(len + 1)
      /\ \A n \in 1..len : loaded'[n] = loaded[n]
      /\ loaded'[len + 1] = m
  <2> PICK e : e = m
    OBVIOUS
  <2> HIDE DEF m
  <2> PICK s : s = loaded
    OBVIOUS
  <2>1. s \in Seq(ToSet(s)) /\ loaded' = Append(s, e)
    BY <1>1
  <2> QED BY <2>1, AppendFacts
<1> HIDE DEF len, m
<1>4. \A n \in 1..(len + 1) : n \in 1..len \/ n = len + 1
  BY <1>3
<1>5. /\ task' = [k \in Loaders |-> task'[k]] /\ task'[l] = NoTask
      /\ \A k \in Loaders : k # l => task'[k] = task[k]
  BY <1>1, UpdateFacts
<1>6. WellFormed'
  BY <1>1, <1>3, <1>5, TaskFacts DEF LoadInv, WellFormed
<1>7. PICK d \in DOMAIN started :
         started[d].file = task[l].file /\ started[d].base = task[l].base
  BY <1>1 DEF LoadInv, Checked, CheckedAt, At
<1>8. Idents' = Idents /\ m.ident \in Idents
  BY <1>1, <1>2, <1>7 DEF Idents
<1>9. Checked'
  <2>1. ASSUME NEW k \in Loaders PROVE CheckedAt(k)'
    <3>1. CASE k = l
      BY <3>1, <1>5, TaskFacts DEF CheckedAt, At
    <3>2. CASE k # l
      BY <3>2, <1>1, <1>5, <1>8 DEF LoadInv, Checked, CheckedAt, At
    <3> QED BY <3>1, <3>2
  <2>2. \A n \in 1..(len + 1) : loaded'[n].ident \in Idents'
    BY <1>3, <1>4, <1>8 DEF LoadInv, Checked
  <2> QED BY <2>1, <2>2, <1>3 DEF Checked
<1>10. RequiredFirst'
  BY <1>1 DEF LoadInv, RequiredFirst
<1>11. SymbolsOffered'
  <2> SUFFICES ASSUME NEW n \in 1..(len + 1), NEW y \in loaded'[n].symbols
               PROVE  Offered(y, started)
    BY <1>1, <1>3 DEF SymbolsOffered
  <2>1. CASE n \in 1..len
    BY <2>1, <1>3 DEF LoadInv, SymbolsOffered
  <2>2. CASE n = len + 1
    <3>1. y \in SymbolTable(started[d].file, started[d].base)
      BY <2>2, <1>2, <1>3, <1>7
    <3> QED BY <3>1 DEF Offered
  <2> QED BY <1>4, <2>1, <2>2
<1> QED BY <1>6, <1>9, <1>10, <1>11 DEF LoadInv

LEMMA NextInv == LoadInv /\ [Next]_vars => LoadInv'
<1> SUFFICES ASSUME LoadInv, [Next]_vars PROVE LoadInv'
  OBVIOUS
<1>1. todo \in Seq(Loadable)
  BY DEF LoadInv, WellFormed
<1>2. CASE ReadNext
  <2>1. Head(todo) \in Loadable /\ todo' \in Seq(Loadable)
    BY <1>1, <1>2 DEF ReadNext
  <2> QED BY <1>2, <2>1, ReadStep DEF ReadNext, Loaders
<1>3. ASSUME NEW f \in KtermFiles, ReadGiven(f) PROVE LoadInv'
  <2>1. f \in Loadable /\ todo' \in Seq(Loadable)
    BY <1>1, <1>3 DEF ReadGiven, Loadable
  <2> QED BY <1>3, <2>1, ReadStep DEF ReadGiven, Loaders
<1>4. ASSUME NEW l \in Loaders,
             Place(l) \/ Relocate(l) \/ Bump(l) \/ Check(l) \/ Start(l) \/ Enlist(l)
      PROVE  LoadInv'
  BY <1>4, PlaceStep, RelocateStep, BumpStep, CheckStep, StartStep, EnlistStep
<1>5. CASE UNCHANGED vars
  BY <1>5 DEF vars, LoadInv, WellFormed, Checked, CheckedAt, At, Idents, RequiredFirst, SymbolsOffered
<1> QED BY <1>2, <1>3, <1>4, <1>5 DEF Next

\* When a module is started, the modules it requires have been (module.c:142
\* checks against the list of modules, which they join after they were started),
\* whichever files there are and whoever loads them at the same time.
THEOREM RequirementsMet == Spec => []RequiredFirst
<1>1. LoadInv => RequiredFirst
  BY DEF LoadInv
<1> QED BY InitInv, NextInv, <1>1, PTL DEF Spec

-----------------------------------------------------------------------------
(* References.                                                              *)

\* What the loader takes for granted of the files it is given: a symbol that a
\* relocation refers to is in a section that is placed, and so is one that another
\* module takes from it, at the start of the section (module.c:203 offers the
\* address of the section only).
InPlace(f, s) == Type(f, s) \in {"prog", "nobits"} /\ Layout(f, Type(f, s)).off[s] \in Nat
FilesSound ==
    \A f \in Loadable :
        /\ DOMAIN Files[f].symbols \subseteq Nat
        /\ \A r \in DOMAIN Files[f].rels : Files[f].rels[r].symbol \in DOMAIN Files[f].symbols
        /\ \A r \in DOMAIN Files[f].rels :
              LET y == Files[f].symbols[Files[f].rels[r].symbol] IN
              y.section # 0 => InPlace(f, y.section)
        /\ \A r \in DOMAIN Files[f].rels :
           \A g \in Loadable : \A i \in DOMAIN Files[g].symbols :
              LET y == Files[f].symbols[Files[f].rels[r].symbol]
                  z == Files[g].symbols[i]
              IN  y.section = 0 /\ y.name \notin DOMAIN KernelSymbols /\ z.section # 0 /\ z.name = y.name
                  => InPlace(g, z.section) /\ z.value = 0

\* Reference r of m leads to the symbol it names, in m, in the kernel, or in one of
\* the first k modules of st.
LeadsTo(m, y, k, a, st, n) ==
    \/ y.section # 0 /\ a = DefinedAt(m, k)
    \/ y.section = 0 /\ y.name \in DOMAIN KernelSymbols /\ a = KernelSymbols[y.name]
    \/ /\ y.section = 0
       /\ \E d \in 1 .. n : \E i \in DOMAIN Files[st[d].file].symbols :
             /\ Files[st[d].file].symbols[i].name = y.name
             /\ Files[st[d].file].symbols[i].section # 0
             /\ a = DefinedAt(st[d], i)
Leads(m, r, st, n) ==
    LET k == Files[m.file].rels[r].symbol
    IN  LeadsTo(m, Files[m.file].symbols[k], k, m.refs[r], st, n)

\* The references of every module that was started, and of every one that was
\* relocated and is not started yet.
StartedLead == \A n \in DOMAIN started : \A r \in DOMAIN started[n].refs : Leads(started[n], r, started, n - 1)
TaskLeads(l) ==
    task[l].pc \in {"bump", "check", "start", "append"} =>
        \A r \in DOMAIN task[l].refs : Leads(task[l], r, started, Len(started))
RefsInv == StartedLead /\ \A l \in Loaders : TaskLeads(l)

LEMMA StartedLeadSuffices == StartedLead => ReferencesLead
BY DEF StartedLead, ReferencesLead, Leads, LeadsTo

\* A set of naturals that is not empty has a least element.
LEMMA MinFacts ==
    ASSUME NEW S \in SUBSET Nat, S # {}
    PROVE  Min(S) \in S
<1>1. PICK x \in S : \A y \in S : ~ (<<y, x>> \in OpToRel(<, Nat))
  BY NatLessThanWellFounded, WFMin, Zenon
<1>2. \A y \in S : x <= y
  <2> TAKE y \in S
  <2>1. ~ (y < x)
    BY <1>1 DEF OpToRel
  <2> QED BY <2>1
<1> QED BY <1>2 DEF Min

\* A section that is placed has an address, which is not 0.
LEMMA PlacedAddr ==
    ASSUME NEW f, NEW base \in Nat \ {0}, NEW s, InPlace(f, s)
    PROVE  SectionAddr(f, base, s) \in Nat \ {0}
<1> DEFINE q == (base + PageSz) \div PageSz
<1>1. PageSz \in Nat \ {0}
  BY LoaderAssumption
<1>2. q \in Nat /\ q # 0
  BY <1>1
<1>3. PageSz * q \in Nat \ {0}
  <2> HIDE DEF q
  <2> QED BY <1>1, <1>2
<1>4. NobitsBase(base) \in Nat \ {0}
  BY <1>3 DEF NobitsBase
<1>5. CASE Type(f, s) = "prog"
  <2>1. SectionAddr(f, base, s) = base + Layout(f, "prog").off[s]
    BY <1>5 DEF SectionAddr
  <2> QED BY <2>1, <1>5 DEF InPlace
<1>6. CASE Type(f, s) = "nobits"
  <2>1. SectionAddr(f, base, s) = NobitsBase(base) + Layout(f, "nobits").off[s]
    BY <1>6 DEF SectionAddr
  <2> QED BY <2>1, <1>4, <1>6 DEF InPlace
<1> QED BY <1>5, <1>6 DEF InPlace

\* A symbol of another module that is found is one of a module that was started.
LEMMA FoundOffered ==
    ASSUME LoadInv, NEW name, FindKernel(name) = {}, FindUndefined(name) # 0
    PROVE  \E y : y.name = name /\ y.addr = FindUndefined(name) /\ Offered(y, started)
<1> DEFINE having == {n \in DOMAIN loaded : FindModule(name, loaded[n]) # {}}
           n == Min(having)
<1>1. having # {} /\ FindUndefined(name) = CHOOSE a \in FindModule(name, loaded[n]) : TRUE
  BY DEF FindUndefined
<1>2. n \in having
  <2>1. having \in SUBSET Nat
    BY DEF LoadInv, WellFormed
  <2> HIDE DEF having
  <2> QED BY <2>1, <1>1, MinFacts
<1>3. n \in DOMAIN loaded /\ FindModule(name, loaded[n]) # {}
  BY <1>2
<1> HIDE DEF n, having
<1>4. FindUndefined(name) \in FindModule(name, loaded[n])
  BY <1>1, <1>3
<1>5. PICK y \in loaded[n].symbols : y.name = name /\ y.addr = FindUndefined(name)
  BY <1>4 DEF FindModule
<1> QED BY <1>3, <1>5 DEF LoadInv, SymbolsOffered

\* What a relocation is given leads to the symbol it names.
LEMMA RelocationLeads ==
    ASSUME LoadInv, FilesSound, NEW m, Busy(m), NEW r \in DOMAIN Files[m.file].rels,
           FindSymbol(m.file, m.base, Files[m.file].rels[r].symbol) # 0
    PROVE  LET k == Files[m.file].rels[r].symbol IN
           LeadsTo(m, Files[m.file].symbols[k], k, FindSymbol(m.file, m.base, k), started, Len(started))
<1> DEFINE f == m.file
           k == Files[f].rels[r].symbol
           y == Files[f].symbols[k]
           a == FindSymbol(f, m.base, k)
<1> SUFFICES LeadsTo(m, y, k, a, started, Len(started))
  OBVIOUS
<1>0. f \in Loadable /\ m.base \in Nat \ {0}
  BY DEF Busy
<1>1. CASE y.section # 0
  <2>1. InPlace(f, y.section)
    BY <1>0, <1>1 DEF FilesSound
  <2>2. SectionAddr(f, m.base, y.section) # 0
    BY <1>0, <2>1, PlacedAddr
  <2> DEFINE same == {j \in DOMAIN Files[f].symbols : Files[f].symbols[j].section = y.section}
             z == Files[f].symbols[Min(same)]
  <2>3. z.section = y.section
    <3>1. same \in SUBSET Nat /\ k \in same
      BY <1>0 DEF FilesSound
    <3>2. Min(same) \in same
      <4> HIDE DEF same
      <4> QED BY <3>1, MinFacts
    <3> QED BY <3>2
  <2>4. a = SymbolAddr(f, m.base, z) + y.value
    BY <1>1 DEF FindSymbol
  <2>5. SymbolAddr(f, m.base, z) = SectionAddr(f, m.base, y.section)
    <3> HIDE DEF z, y
    <3> QED BY <2>2, <2>3 DEF SymbolAddr
  <2> HIDE DEF z, same
  <2> QED BY <1>1, <2>4, <2>5 DEF LeadsTo, DefinedAt
<1>2. CASE y.section = 0 /\ y.name \in DOMAIN KernelSymbols
  <2>1. FindKernel(y.name) = {KernelSymbols[y.name]}
    BY <1>2 DEF FindKernel
  <2>2. a = CHOOSE x \in FindKernel(y.name) : TRUE
    BY <1>2, <2>1 DEF FindSymbol, FindUndefined
  <2>3. a = KernelSymbols[y.name]
    <3> HIDE DEF a
    <3> QED BY <2>1, <2>2
  <2> QED BY <1>2, <2>3 DEF LeadsTo
<1>3. CASE y.section = 0 /\ y.name \notin DOMAIN KernelSymbols
  <2>1. FindKernel(y.name) = {} /\ a = FindUndefined(y.name) /\ a # 0
    BY <1>3 DEF FindKernel, FindSymbol
  <2>2. PICK z : z.name = y.name /\ z.addr = a /\ Offered(z, started)
    BY <2>1, FoundOffered
  <2>3. PICK d \in DOMAIN started : z \in SymbolTable(started[d].file, started[d].base)
    BY <2>2 DEF Offered
  <2> DEFINE g == started[d].file
  <2>4. d \in 1..Len(started) /\ g \in Loadable /\ started[d].base \in Nat \ {0}
    BY <2>3 DEF LoadInv, WellFormed, Busy
  <2>5. PICK i \in DOMAIN Files[g].symbols :
           /\ Files[g].symbols[i].section # 0
           /\ z = [name |-> Files[g].symbols[i].name, addr |-> SymbolAddr(g, started[d].base, Files[g].symbols[i])]
    BY <2>3 DEF SymbolTable
  <2> DEFINE w == Files[g].symbols[i]
  <2>6. w.name = y.name /\ a = SymbolAddr(g, started[d].base, w)
    BY <2>2, <2>5
  <2>7. InPlace(g, w.section) /\ w.value = 0
    BY <1>0, <1>3, <2>4, <2>5, <2>6 DEF FilesSound
  <2>8. SectionAddr(g, started[d].base, w.section) \in Nat \ {0}
    BY <2>4, <2>7, PlacedAddr
  <2>9. a = DefinedAt(started[d], i)
    BY <2>6, <2>7, <2>8 DEF SymbolAddr, DefinedAt
  <2>10. \E j \in DOMAIN Files[g].symbols :
             /\ Files[g].symbols[j].name = y.name /\ Files[g].symbols[j].section # 0
             /\ a = DefinedAt(started[d], j)
    BY <2>5, <2>6, <2>9
  <2> HIDE DEF a, y, k
  <2> QED BY <1>3, <2>4, <2>10 DEF LeadsTo
<1> QED BY <1>1, <1>2, <1>3

\* What leads to a module of a list leads to it in a longer one.
LEMMA LeadsFurther ==
    ASSUME NEW m, NEW r, NEW st, NEW tt, NEW n \in Nat, NEW k \in Nat, n <= k,
           \A d \in 1..n : tt[d] = st[d], Leads(m, r, st, n)
    PROVE  Leads(m, r, tt, k)
<1>1. \A d \in 1..n : d \in 1..k
  OBVIOUS
<1> QED BY <1>1 DEF Leads, LeadsTo

\* A step of one loader that starts nothing, and leaves its task without references
\* or with ones that lead where they should.
LEMMA RefsStep ==
    ASSUME LoadInv, RefsInv, started' = started,
           NEW l \in Loaders, NEW t, task' = [task EXCEPT ![l] = t],
           t.pc \in {"bump", "check", "start", "append"} =>
               \A r \in DOMAIN t.refs : Leads(t, r, started, Len(started))
    PROVE  RefsInv'
<1>1. /\ task'[l] = t /\ \A k \in Loaders : k # l => task'[k] = task[k]
  BY UpdateFacts DEF LoadInv, WellFormed
<1>2. ASSUME NEW k \in Loaders PROVE TaskLeads(k)'
  <2>1. CASE k = l
    BY <2>1, <1>1 DEF TaskLeads
  <2>2. CASE k # l
    BY <2>2, <1>1 DEF RefsInv, TaskLeads
  <2> QED BY <2>1, <2>2
<1>3. StartedLead'
  BY DEF RefsInv, StartedLead
<1> QED BY <1>2, <1>3 DEF RefsInv

LEMMA RefsRefuse ==
    ASSUME LoadInv, RefsInv, started' = started, NEW l \in Loaders, Refuse(l)
    PROVE  RefsInv'
<1> DEFINE t == [NoTask EXCEPT !.pc = IF l = "preload" THEN "stopped" ELSE "idle"]
<1>1. t.pc \in {"stopped", "idle"}
  BY TaskFacts
<1>2. task' = [task EXCEPT ![l] = t]
  BY DEF Refuse
<1> HIDE DEF t
<1> QED BY <1>1, <1>2, RefsStep

LEMMA RefsRead ==
    ASSUME LoadInv, RefsInv, NEW l \in Loaders, NEW f, Read(l, f)
    PROVE  RefsInv'
<1>1. CASE module_read(f)
  <2> DEFINE t == [NoTask EXCEPT !.pc = "place", !.file = f, !.base = current_base]
  <2>1. t.pc = "place"
    BY DEF NoTask
  <2>2. task' = [task EXCEPT ![l] = t] /\ started' = started
    BY <1>1 DEF Read
  <2> HIDE DEF t
  <2> QED BY <2>1, <2>2, RefsStep
<1>2. CASE ~ module_read(f)
  BY <1>2, RefsRefuse DEF Read
<1> QED BY <1>1, <1>2

LEMMA RefsPlace ==
    ASSUME LoadInv, RefsInv, NEW l \in Loaders, Place(l)
    PROVE  RefsInv'
<1>1. started' = started /\ IsTask(task[l]) /\ task = [k \in Loaders |-> task[k]]
  BY DEF Place, LoadInv, WellFormed
<1>2. CASE Refuse(l)
  BY <1>1, <1>2, RefsRefuse
<1>3. ASSUME NEW n, task' = [task EXCEPT ![l].pc = "relocate", ![l].load = n]
      PROVE  RefsInv'
  <2> DEFINE t == [[task[l] EXCEPT !.pc = "relocate"] EXCEPT !.load = n]
  <2>1. task' = [task EXCEPT ![l] = t]
    BY <1>1, <1>3
  <2>2. t.pc = "relocate"
    BY <1>1 DEF IsTask
  <2> HIDE DEF t
  <2> QED BY <1>1, <2>1, <2>2, RefsStep
<1> QED BY <1>2, <1>3 DEF Place

LEMMA RefsRelocate ==
    ASSUME LoadInv, RefsInv, FilesSound, NEW l \in Loaders, Relocate(l)
    PROVE  RefsInv'
<1> DEFINE f == task[l].file
           b == task[l].base
<1>1. /\ started' = started /\ IsTask(task[l]) /\ task = [k \in Loaders |-> task[k]]
      /\ task[l].pc = "relocate" /\ Busy(task[l])
  BY DEF Relocate, LoadInv, WellFormed, At, IsTask
<1>2. CASE Refuse(l)
  BY <1>1, <1>2, RefsRefuse
<1>3. CASE /\ ~ RelocsFail(f, b)
           /\ task' = [task EXCEPT ![l].pc = "bump", ![l].refs = Relocated(f, b)]
  <2> DEFINE t == [[task[l] EXCEPT !.pc = "bump"] EXCEPT !.refs = Relocated(f, b)]
  <2>1. task' = [task EXCEPT ![l] = t]
    BY <1>1, <1>3
  <2>2. t.refs = Relocated(f, b) /\ t.file = f /\ t.base = b /\ Busy(t)
    <3> HIDE DEF f, b
    <3>1. t.refs = Relocated(f, b) /\ t.file = task[l].file /\ t.base = task[l].base
      BY <1>1 DEF IsTask
    <3> QED BY <1>1, <3>1 DEF Busy, f, b
  <2> HIDE DEF t, f, b
  <2>3. ASSUME NEW r \in DOMAIN t.refs PROVE Leads(t, r, started, Len(started))
    <3> DEFINE k == Files[f].rels[r].symbol
    <3>1. r \in DOMAIN Files[f].rels /\ t.refs[r] = FindSymbol(f, b, k)
      BY <2>2 DEF Relocated
    <3>2. FindSymbol(f, b, k) # 0
      BY <1>3, <3>1 DEF RelocsFail
    <3>3. LeadsTo(t, Files[f].symbols[k], k, FindSymbol(f, b, k), started, Len(started))
      BY <2>2, <3>1, <3>2, RelocationLeads
    <3> QED BY <2>2, <3>1, <3>3 DEF Leads
  <2> QED BY <1>1, <2>1, <2>3, RefsStep
<1> QED BY <1>2, <1>3 DEF Relocate

\* A loader that goes on, with the references it has.
LEMMA RefsGo ==
    ASSUME LoadInv, RefsInv, started' = started, NEW l \in Loaders,
           task[l].pc \in {"bump", "check"}, NEW x, Go(l, x)
    PROVE  RefsInv'
<1> DEFINE t == [task[l] EXCEPT !.pc = x]
<1>1. IsTask(task[l]) /\ task = [k \in Loaders |-> task[k]]
  BY DEF LoadInv, WellFormed
<1>2. task' = [task EXCEPT ![l] = t]
  BY <1>1 DEF Go
<1>3. t.file = task[l].file /\ t.base = task[l].base /\ t.refs = task[l].refs
  BY <1>1 DEF IsTask
<1> HIDE DEF t
<1>4. ASSUME NEW r \in DOMAIN t.refs PROVE Leads(t, r, started, Len(started))
  <2>1. Leads(task[l], r, started, Len(started))
    BY <1>3, <1>4 DEF RefsInv, TaskLeads
  <2> QED BY <1>3, <2>1 DEF Leads, LeadsTo, DefinedAt
<1> QED BY <1>2, <1>4, RefsStep

LEMMA RefsStart ==
    ASSUME LoadInv, RefsInv, NEW l \in Loaders, Start(l)
    PROVE  RefsInv'
<1> DEFINE len == Len(started)
           t == [task[l] EXCEPT !.pc = "append"]
<1>1. /\ started \in Seq(ToSet(started)) /\ started' = Append(started, task[l])
      /\ IsTask(task[l]) /\ task[l].pc = "start" /\ task = [k \in Loaders |-> task[k]]
  BY DEF LoadInv, WellFormed, Start, At
<1>2. /\ len \in Nat /\ Len(started') = len + 1
      /\ DOMAIN started = 1..len /\ DOMAIN started' = 1..(len + 1)
      /\ \A n \in 1..len : started'[n] = started[n]
      /\ started'[len + 1] = task[l]
  <2> PICK e : e = task[l]
    OBVIOUS
  <2> PICK s : s = started
    OBVIOUS
  <2>1. s \in Seq(ToSet(s)) /\ started' = Append(s, e)
    BY <1>1
  <2> QED BY <2>1, AppendFacts
<1> HIDE DEF len
<1>3. /\ task'[l] = t /\ \A k \in Loaders : k # l => task'[k] = task[k]
  BY <1>1 DEF Start, Go
<1>4. t.file = task[l].file /\ t.base = task[l].base /\ t.refs = task[l].refs
  BY <1>1 DEF IsTask
<1> HIDE DEF t
<1>5. ASSUME NEW k \in Loaders PROVE TaskLeads(k)'
  <2> SUFFICES ASSUME task'[k].pc \in {"bump", "check", "start", "append"},
                      NEW r \in DOMAIN task'[k].refs
               PROVE  Leads(task'[k], r, started', len + 1)
    BY <1>2 DEF TaskLeads
  <2>1. \A q \in DOMAIN task[k].refs :
           task[k].pc \in {"bump", "check", "start", "append"} => Leads(task[k], q, started, len)
    BY DEF RefsInv, TaskLeads, len
  <2>2. r \in DOMAIN task[k].refs /\ task[k].pc \in {"bump", "check", "start", "append"}
    BY <1>1, <1>3, <1>4
  <2> PICK m, st, tt : m = task[k] /\ st = started /\ tt = started'
    OBVIOUS
  <2>3. Leads(m, r, tt, len + 1)
    <3>1. Leads(m, r, st, len) /\ \A d \in 1..len : tt[d] = st[d]
      BY <1>2, <2>1, <2>2
    <3>2. len <= len + 1 /\ len + 1 \in Nat
      BY <1>2
    <3> QED BY <1>2, <3>1, <3>2, LeadsFurther
  <2>4. task'[k].file = m.file /\ task'[k].base = m.base /\ task'[k].refs = m.refs
    BY <1>3, <1>4
  <2> QED BY <2>3, <2>4 DEF Leads, LeadsTo, DefinedAt
<1>6. StartedLead'
  <2> SUFFICES ASSUME NEW n \in 1..(len + 1), NEW r \in DOMAIN started'[n].refs
               PROVE  Leads(started'[n], r, started', n - 1)
    BY <1>2 DEF StartedLead
  <2> PICK m, st, tt : m = started'[n] /\ st = started /\ tt = started'
    OBVIOUS
  <2>0. /\ n - 1 \in Nat /\ n - 1 <= n - 1 /\ \A d \in 1..(n - 1) : d \in 1..len
        /\ n \in 1..len \/ (n = len + 1 /\ n - 1 = len)
    <3>1. len \in Nat
      BY <1>2
    <3>2. n \in Nat /\ 1 <= n /\ n <= len + 1
      BY <3>1
    <3> QED BY <3>1, <3>2
  <2>1. Leads(m, r, st, n - 1)
    <3>1. CASE n \in 1..len
      BY <1>2, <3>1 DEF RefsInv, StartedLead
    <3>2. CASE n = len + 1
      BY <1>1, <1>2, <2>0, <3>2 DEF RefsInv, TaskLeads, len
    <3> QED BY <2>0, <3>1, <3>2
  <2>2. \A d \in 1..(n - 1) : tt[d] = st[d]
    BY <1>2, <2>0
  <2>3. Leads(m, r, tt, n - 1)
    BY <2>0, <2>1, <2>2, LeadsFurther
  <2> QED BY <2>3
<1> QED BY <1>5, <1>6 DEF RefsInv

LEMMA RefsNext == LoadInv /\ RefsInv /\ FilesSound /\ [Next]_vars => RefsInv'
<1> SUFFICES ASSUME LoadInv, RefsInv, FilesSound, [Next]_vars PROVE RefsInv'
  OBVIOUS
<1>1. CASE ReadNext
  BY <1>1, RefsRead DEF ReadNext, Loaders
<1>2. ASSUME NEW f \in KtermFiles, ReadGiven(f) PROVE RefsInv'
  BY <1>2, RefsRead DEF ReadGiven, Loaders
<1>3. ASSUME NEW l \in Loaders, Bump(l) \/ Check(l) PROVE RefsInv'
  <2>1. CASE Refuse(l)
    BY <1>3, <2>1, RefsRefuse DEF Bump, Check
  <2>2. CASE ~ Refuse(l)
    BY <1>3, <2>2, RefsGo DEF Bump, Check, At
  <2> QED BY <2>1, <2>2
<1>4. ASSUME NEW l \in Loaders, Enlist(l) PROVE RefsInv'
  <2>1. task' = [task EXCEPT ![l] = NoTask] /\ started' = started
    BY <1>4 DEF Enlist
  <2> QED BY <2>1, TaskFacts, RefsStep
<1>5. ASSUME NEW l \in Loaders,
             Place(l) \/ Relocate(l) \/ Bump(l) \/ Check(l) \/ Start(l) \/ Enlist(l)
      PROVE  RefsInv'
  BY <1>3, <1>4, <1>5, RefsPlace, RefsRelocate, RefsStart
<1>6. CASE UNCHANGED vars
  BY <1>6 DEF vars, RefsInv, StartedLead, TaskLeads
<1> QED BY <1>1, <1>2, <1>5, <1>6 DEF Next

\* Every reference of a module that was started leads to the symbol it names, in the
\* module, in the kernel or in a module that was started before it, however the two
\* loaders interleave, when the files are as the loader takes them to be.
THEOREM ReferencesCorrect == FilesSound /\ Spec => []ReferencesLead
<1> SUFFICES ASSUME FilesSound PROVE Spec => []ReferencesLead
  OBVIOUS
<1>1. Init => RefsInv
  <2> SUFFICES ASSUME Init PROVE RefsInv
    OBVIOUS
  <2> QED BY TaskFacts DEF Init, RefsInv, StartedLead, TaskLeads
<1>2. LoadInv /\ RefsInv /\ [Next]_vars => RefsInv'
  BY RefsNext
<1>3. RefsInv => ReferencesLead
  BY StartedLeadSuffices DEF RefsInv
<1> QED BY <1>1, <1>2, <1>3, InitInv, NextInv, PTL DEF Spec
-----------------------------------------------------------------------------
(* Sections.                                                                *)

\* A set of naturals that is not empty has a least element.
LEMMA LeastNat ==
    ASSUME NEW S \in SUBSET Nat, S # {}
    PROVE  \E x \in S : \A y \in S : x <= y
<1>1. PICK x \in S : \A y \in S : ~ (<<y, x>> \in OpToRel(<, Nat))
  BY NatLessThanWellFounded, WFMin, Zenon
<1>2. \A y \in S : x <= y
  <2> TAKE y \in S
  <2>1. ~ (y < x)
    BY <1>1 DEF OpToRel
  <2> QED BY <2>1
<1> QED BY <1>2

\* What the first value has, and every step keeps, the last value has.
LEMMA Stays ==
    ASSUME NEW S, NEW N \in Nat, NEW f, f[0] \in S,
           \A n \in 1..N : f[n - 1] \in S => f[n] \in S
    PROVE  \A n \in 0..N : f[n] \in S
<1> DEFINE bad == {n \in 0..N : f[n] \notin S}
<1> SUFFICES ASSUME bad # {} PROVE FALSE
  OBVIOUS
<1>1. bad \in SUBSET Nat
  OBVIOUS
<1>2. PICK m \in bad : \A y \in bad : m <= y
  <2> HIDE DEF bad
  <2> QED BY <1>1, LeastNat
<1>3. m \in 1..N /\ m - 1 \in 0..N /\ ~ (m <= m - 1)
  BY <1>2
<1>4. m - 1 \notin bad
  <2> HIDE DEF bad
  <2> QED BY <1>2, <1>3
<1> QED BY <1>2, <1>3, <1>4

\* What _module_place goes through for the sections of one type.
Nothing(f) == [size |-> 0, off |-> [s \in Sections(f) |-> 0]]
Lays(w, f, type, N) ==
    w = [n \in 0..N |-> IF n = 0 THEN Nothing(f) ELSE Added(f, type, w[n - 1], n)]
LEMMA LaysExist ==
    ASSUME NEW f, NEW type, NEW N \in Nat
    PROVE  \E w : Lays(w, f, type, N)
<1> DEFINE none == {k \in Nat : ~ \E w : Lays(w, f, type, k)}
<1> SUFFICES ASSUME none # {} PROVE FALSE
  OBVIOUS
<1>1. none \in SUBSET Nat
  OBVIOUS
<1>2. PICK k \in none : \A y \in none : k <= y
  <2> HIDE DEF none
  <2> QED BY <1>1, LeastNat
<1>3. k \in Nat /\ ~ \E w : Lays(w, f, type, k)
  BY <1>2
<1>4. k # 0
  <2> SUFFICES ASSUME k = 0 PROVE FALSE
    OBVIOUS
  <2>1. Lays([n \in 0..0 |-> Nothing(f)], f, type, 0)
    BY DEF Lays
  <2> QED BY <1>3, <2>1
<1>5. k - 1 \in Nat /\ k - 1 \notin none
  <2>1. k - 1 \in Nat /\ ~ (k <= k - 1)
    BY <1>3, <1>4
  <2> HIDE DEF none
  <2> QED BY <1>2, <2>1
<1>6. PICK w : Lays(w, f, type, k - 1)
  BY <1>5
<1>7. PICK last : last = Added(f, type, w[k - 1], k)
  OBVIOUS
<1>8. PICK h : h = [n \in 0..k |-> IF n = k THEN last ELSE w[n]]
  OBVIOUS
<1>9. ASSUME NEW n \in 0..k PROVE h[n] = IF n = 0 THEN Nothing(f) ELSE Added(f, type, h[n - 1], n)
  <2>1. n # 0 => n - 1 \in 0..k /\ n - 1 # k
    BY <1>3
  <2>2. CASE n = k
    BY <1>4, <1>7, <1>8, <2>1, <2>2
  <2>3. CASE n # k
    <3>1. n \in 0..(k - 1)
      BY <1>3, <2>3
    <3>2. w[n] = IF n = 0 THEN Nothing(f) ELSE Added(f, type, w[n - 1], n)
      BY <1>6, <3>1 DEF Lays
    <3> QED BY <1>8, <2>1, <2>3, <3>2
  <2> QED BY <2>2, <2>3
<1>10. Lays(h, f, type, k)
  BY <1>8, <1>9 DEF Lays
<1> QED BY <1>3, <1>10

\* An aligned offset is not below the offset.
LEMMA AlignedUp ==
    ASSUME NEW x \in Nat, NEW align \in Nat \ {0}
    PROVE  Aligned(x, align) \in Nat /\ Aligned(x, align) >= x
<1>1. PICK y : y = x + align - 1
  OBVIOUS
<1>2. PICK d, m : d = y \div align /\ m = y % align
  OBVIOUS
<1>3. y \in Nat /\ d \in Nat /\ m \in 0..(align - 1) /\ y = align * d + m
  BY <1>1, <1>2
<1>4. align * d \in Nat
  BY <1>3
<1>5. align * d >= x
  BY <1>1, <1>3, <1>4
<1> QED BY <1>1, <1>2, <1>4, <1>5 DEF Aligned

\* The sections of a file are as an object file has them.
HasSections(f) ==
    /\ Files[f].sections \in Seq(ToSet(Files[f].sections))
    /\ \A s \in Sections(f) :
          Files[f].sections[s].size \in Nat /\ Files[f].sections[s].align \in Nat \ {0}

\* Each section of a type lies inside the block for that type (module.c:395-445).
LEMMA LayoutFacts ==
    ASSUME NEW f, HasSections(f), NEW type
    PROVE  /\ Layout(f, type).size \in Nat
           /\ \A s \in Sections(f) : Type(f, s) = type =>
                 /\ Layout(f, type).off[s] \in Nat
                 /\ Layout(f, type).off[s] + Files[f].sections[s].size <= Layout(f, type).size
<1> DEFINE N == Len(Files[f].sections)
           upto == CHOOSE w : Lays(w, f, type, N)
           Inside(x, n) ==
               /\ x.size \in Nat /\ x.off = [s \in Sections(f) |-> x.off[s]]
               /\ \A s \in Sections(f) : Type(f, s) = type /\ s <= n =>
                     x.off[s] \in Nat /\ x.off[s] + Files[f].sections[s].size <= x.size
<1>1. Layout(f, type) = upto[N]
  BY DEF Layout, Lays, Nothing
<1>2. N \in Nat /\ Sections(f) = 1..N
  BY DEF HasSections, Sections
<1>3. Lays(upto, f, type, N)
  <2>1. \E w : Lays(w, f, type, N)
    BY <1>2, LaysExist
  <2> QED BY <2>1
<1> HIDE DEF upto, N
<1>4. upto[0] = Nothing(f) /\ \A n \in 1..N : upto[n] = Added(f, type, upto[n - 1], n)
  BY <1>2, <1>3 DEF Lays
<1>5. PICK good : good = [n \in 0..N |-> IF Inside(upto[n], n) THEN 1 ELSE 0]
  OBVIOUS
<1>6. good[0] = 1
  <2>1. Inside(upto[0], 0)
    BY <1>2, <1>4 DEF Nothing
  <2> HIDE DEF Inside
  <2> QED BY <1>2, <1>5, <2>1
<1>7. ASSUME NEW n \in 1..N, good[n - 1] = 1 PROVE good[n] = 1
  <2>1. PICK x, z, sect, at : /\ x = upto[n - 1] /\ z = upto[n] /\ sect = Files[f].sections[n]
                              /\ at = Aligned(x.size, sect.align)
    OBVIOUS
  <2>2. Inside(x, n - 1)
    <3>1. n - 1 \in 0..N
      BY <1>2
    <3> HIDE DEF Inside
    <3> QED BY <1>5, <1>7, <2>1, <3>1
  <2>3. z = Added(f, type, x, n) /\ x.size \in Nat
    BY <1>4, <2>1, <2>2
  <2>4. sect.size \in Nat /\ sect.align \in Nat \ {0} /\ n \in Sections(f)
    BY <1>2, <2>1 DEF HasSections
  <2>5. at \in Nat /\ at >= x.size
    BY <2>1, <2>3, <2>4, AlignedUp
  <2>6. Inside(z, n)
    <3>1. CASE sect.type # type
      <4>1. z = x
        BY <2>1, <2>3, <3>1 DEF Added
      <4>2. \A s \in Sections(f) : Type(f, s) = type /\ s <= n => s <= n - 1
        BY <1>2, <2>1, <3>1 DEF Type
      <4> QED BY <2>2, <4>1, <4>2
    <3>2. CASE sect.type = type
      <4>1. z = [size |-> at + sect.size, off |-> [x.off EXCEPT ![n] = at]]
        BY <2>1, <2>3, <3>2 DEF Added
      <4>2. /\ z.size \in Nat /\ z.size >= x.size /\ z.size = at + sect.size
            /\ z.off = [s \in Sections(f) |-> z.off[s]] /\ z.off[n] = at
            /\ \A s \in Sections(f) : s # n => z.off[s] = x.off[s]
        <5>1. z.size = at + sect.size /\ z.off = [x.off EXCEPT ![n] = at]
          BY <4>1
        <5>2. z.size \in Nat /\ z.size >= x.size
          BY <2>3, <2>4, <2>5, <5>1
        <5>3. x.off = [s \in Sections(f) |-> x.off[s]]
          BY <2>2
        <5> QED BY <2>4, <5>1, <5>2, <5>3
      <4>3. ASSUME NEW s \in Sections(f), Type(f, s) = type, s <= n
            PROVE  z.off[s] \in Nat /\ z.off[s] + Files[f].sections[s].size <= z.size
        <5>1. CASE s = n
          BY <2>1, <2>4, <2>5, <4>2, <5>1
        <5>2. CASE s # n
          <6>1. s <= n - 1
            BY <1>2, <4>3, <5>2
          <6>2. x.off[s] \in Nat /\ x.off[s] + Files[f].sections[s].size <= x.size
            BY <2>2, <4>3, <6>1
          <6>3. Files[f].sections[s].size \in Nat
            BY DEF HasSections
          <6> QED BY <2>3, <4>2, <5>2, <6>2, <6>3
        <5> QED BY <5>1, <5>2
      <4> QED BY <4>2, <4>3
    <3> QED BY <3>1, <3>2
  <2> HIDE DEF Inside
  <2> QED BY <1>2, <1>5, <2>1, <2>6
<1>8. good[N] = 1
  <2>1. PICK yes : yes = {1}
    OBVIOUS
  <2>2. good[0] \in yes /\ \A n \in 1..N : good[n - 1] \in yes => good[n] \in yes
    BY <1>6, <1>7, <2>1
  <2>3. \A n \in 0..N : good[n] \in yes
    BY <1>2, <2>2, Stays
  <2> QED BY <1>2, <2>1, <2>3
<1>9. Inside(upto[N], N)
  <2> HIDE DEF Inside
  <2> QED BY <1>2, <1>5, <1>8
<1> QED BY <1>1, <1>2, <1>9

-----------------------------------------------------------------------------
(* Pages.                                                                   *)

LEMMA DivIs ==
    ASSUME NEW P \in Nat \ {0}, NEW q \in Nat, NEW r \in 0..(P - 1), NEW x, x = P * q + r
    PROVE  x \div P = q
<1>1. PICK d, m : d = x \div P /\ m = x % P
  OBVIOUS
<1>2. P * q \in Nat
  OBVIOUS
<1>3. x \in Nat
  BY <1>2
<1>4. d \in Nat /\ m \in 0..(P - 1) /\ x = P * d + m
  BY <1>1, <1>3
<1>5. ~ (d >= q + 1)
  <2> SUFFICES ASSUME d >= q + 1 PROVE FALSE
    OBVIOUS
  <2>1. P * d >= P * (q + 1)
    BY <1>4
  <2>2. P * (q + 1) = P * q + P
    OBVIOUS
  <2> QED BY <1>2, <1>4, <2>1, <2>2
<1>6. ~ (q >= d + 1)
  <2> SUFFICES ASSUME q >= d + 1 PROVE FALSE
    OBVIOUS
  <2>1. P * q >= P * (d + 1)
    BY <1>4
  <2>2. P * (d + 1) = P * d + P
    BY <1>4
  <2>3. P * d \in Nat
    BY <1>4
  <2> QED BY <1>2, <1>4, <2>1, <2>2, <2>3
<1> QED BY <1>1, <1>4, <1>5, <1>6

LEMMA Units ==
    /\ PageSz \in Nat \ {0} /\ Stride \in Nat \ {0} /\ Base \in Nat \ {0} /\ MaxLoads \in Nat \ {0}
    /\ \E b \in Nat : Base = PageSz * b
    /\ \E r \in Nat \ {0} : Stride = PageSz * r
<1>1. /\ PageSz \in Nat \ {0} /\ Stride \in Nat \ {0} /\ Base \in Nat \ {0} /\ MaxLoads \in Nat \ {0}
      /\ Base % PageSz = 0 /\ Stride % PageSz = 0
  BY LoaderAssumption
<1>2. ASSUME NEW x \in Nat \ {0}, x % PageSz = 0 PROVE \E r \in Nat \ {0} : x = PageSz * r
  <2>1. PICK r : r = x \div PageSz
    OBVIOUS
  <2>2. r \in Nat /\ x = PageSz * r + 0
    BY <1>1, <1>2, <2>1
  <2>3. PageSz * r \in Nat
    BY <1>1, <2>2
  <2>4. x = PageSz * r
    BY <2>2, <2>3
  <2>5. r # 0
    <3> SUFFICES ASSUME r = 0 PROVE FALSE
      OBVIOUS
    <3>1. PageSz * 0 = 0
      BY <1>1
    <3> QED BY <2>4, <3>1
  <2> QED BY <2>2, <2>4, <2>5
<1> QED BY <1>1, <1>2

LEMMA Cancel ==
    ASSUME NEW P \in Nat \ {0}, NEW x \in Nat, NEW y \in Nat, P * x <= P * y
    PROVE  x <= y
<1> SUFFICES ASSUME x >= y + 1 PROVE FALSE
  OBVIOUS
<1>1. P * x >= P * (y + 1)
  OBVIOUS
<1>2. P * (y + 1) = P * y + P
  OBVIOUS
<1>3. P * x \in Nat /\ P * y \in Nat
  OBVIOUS
<1> QED BY <1>1, <1>2, <1>3

\* The pages of a block of `size`.
Ceil(size) == (size + PageSz - 1) \div PageSz
LEMMA CeilFacts ==
    ASSUME NEW size \in Nat, NEW c, c = Ceil(size)
    PROVE  /\ c \in Nat /\ (size = 0 => c = 0) /\ (size > 0 => c >= 1)
           /\ \A x \in 0 .. size - 1 : x \div PageSz \in 0 .. c - 1
           /\ \A r \in Nat : size <= PageSz * r => c <= r
<1>1. PICK P : P = PageSz
  OBVIOUS
<1>2. P \in Nat \ {0}
  BY <1>1, Units
<1>3. PICK y, m : y = size + P - 1 /\ m = y % P
  OBVIOUS
<1>4. c \in Nat /\ m \in 0..(P - 1) /\ y = P * c + m /\ y \in Nat /\ P * c \in Nat
  <2>1. y \in Nat /\ c = y \div P
    BY <1>1, <1>2, <1>3 DEF Ceil
  <2>2. c \in Nat /\ m \in 0..(P - 1) /\ y = P * c + m
    BY <1>2, <1>3, <2>1
  <2> QED BY <1>2, <2>1, <2>2
<1>5. size = 0 => c = 0
  <2> SUFFICES ASSUME size = 0, c >= 1 PROVE FALSE
    BY <1>4
  <2>1. P * c >= P * 1
    BY <1>2, <1>4
  <2>2. P * 1 = P
    BY <1>2
  <2> QED BY <1>2, <1>3, <1>4, <2>1, <2>2
<1>6. size > 0 => c >= 1
  <2> SUFFICES ASSUME size > 0, c = 0 PROVE FALSE
    BY <1>4
  <2>1. P * c = 0
    BY <1>2
  <2> QED BY <1>2, <1>3, <1>4, <2>1
<1>7. ASSUME NEW x \in 0 .. size - 1 PROVE x \div P \in 0 .. c - 1
  <2>1. PICK d, r : d = x \div P /\ r = x % P
    OBVIOUS
  <2>2. d \in Nat /\ r \in 0..(P - 1) /\ x = P * d + r
    BY <1>2, <2>1
  <2>3. P * d \in Nat
    BY <1>2, <2>2
  <2>4. ~ (d >= c)
    <3> SUFFICES ASSUME d >= c PROVE FALSE
      OBVIOUS
    <3>1. P * d >= P * c
      BY <1>2, <1>4, <2>2
    <3> QED BY <1>2, <1>3, <1>4, <2>2, <2>3, <3>1
  <2> QED BY <1>4, <2>1, <2>2, <2>4
<1>8. ASSUME NEW r \in Nat, size <= P * r PROVE c <= r
  <2> SUFFICES ASSUME c >= r + 1 PROVE FALSE
    BY <1>4
  <2>1. P * c >= P * (r + 1)
    BY <1>2, <1>4
  <2>2. P * (r + 1) = P * r + P
    BY <1>2
  <2>3. P * r \in Nat
    BY <1>2
  <2> QED BY <1>2, <1>3, <1>4, <1>8, <2>1, <2>2, <2>3
<1> QED BY <1>1, <1>4, <1>5, <1>6, <1>7, <1>8

\* What the loader takes for granted of the sizes of a module (module.c:405-425): it is
\* not empty; its program fits below its data, or up to the next module if it has no
\* data, and the data up to the next module.
Fits(f) ==
    LET prog == Layout(f, "prog").size
        nobits == Layout(f, "nobits").size
    IN  /\ HasSections(f)
        /\ prog + nobits > 0
        /\ prog <= IF nobits = 0 THEN Stride ELSE PageSz
        /\ nobits = 0 \/ PageSz + nobits <= Stride
FilesFit == \A f \in Loadable : module_read(f) => Fits(f)

Room == CHOOSE r \in Nat \ {0} : Stride = PageSz * r

LEMMA RoomIs == Room \in Nat \ {0} /\ Stride = PageSz * Room
<1>1. \E r \in Nat \ {0} : Stride = PageSz * r
  BY Units
<1> QED BY <1>1 DEF Room

\* The pages a module placed at page q gets.
LEMMA BlockPages ==
    ASSUME NEW f, Fits(f), NEW q \in Nat, NEW base, base = PageSz * q, NEW cp, NEW cn,
           cp = Ceil(Layout(f, "prog").size), cn = Ceil(Layout(f, "nobits").size)
    PROVE  /\ base \div PageSz = q /\ NobitsBase(base) = PageSz * (q + 1)
           /\ NobitsBase(base) \div PageSz = q + 1
           /\ PagesOf(base, Layout(f, "prog").size) = q .. q + cp - 1
           /\ PagesOf(NobitsBase(base), Layout(f, "nobits").size) = (q + 1) .. (q + 1) + cn - 1
           /\ cp \in Nat /\ cn \in Nat /\ cp <= Room /\ (cn # 0 => cn + 1 <= Room /\ cp <= 1)
           /\ cp + cn > 0
<1>1. PageSz \in Nat \ {0} /\ Room \in Nat \ {0} /\ Stride = PageSz * Room
  BY Units, RoomIs
<1>2. PICK prog, nobits : prog = Layout(f, "prog").size /\ nobits = Layout(f, "nobits").size
  OBVIOUS
<1>3. prog \in Nat /\ nobits \in Nat
  BY <1>2, LayoutFacts DEF Fits
<1>4. /\ prog + nobits > 0 /\ (nobits = 0 => prog <= Stride)
      /\ (nobits # 0 => prog <= PageSz /\ PageSz + nobits <= Stride)
  BY <1>2 DEF Fits
<1>5. base \div PageSz = q
  <2>1. 0 \in 0..(PageSz - 1) /\ base = PageSz * q + 0
    BY <1>1
  <2> QED BY <1>1, <2>1, DivIs
<1>6. (base + PageSz) \div PageSz = q + 1
  <2>1. 0 \in 0..(PageSz - 1) /\ base + PageSz = PageSz * (q + 1) + 0 /\ q + 1 \in Nat
    BY <1>1
  <2>2. PICK x : x = base + PageSz
    OBVIOUS
  <2>3. x = PageSz * (q + 1) + 0
    BY <2>1, <2>2
  <2>4. x \div PageSz = q + 1
    BY <1>1, <2>1, <2>3, DivIs
  <2> QED BY <2>2, <2>4
<1>7. NobitsBase(base) = PageSz * (q + 1)
  BY <1>6 DEF NobitsBase
<1>8. NobitsBase(base) \div PageSz = q + 1
  <2>1. PICK x : x = NobitsBase(base)
    OBVIOUS
  <2>2. 0 \in 0..(PageSz - 1) /\ x = PageSz * (q + 1) + 0 /\ q + 1 \in Nat
    BY <1>1, <1>7, <2>1
  <2>3. x \div PageSz = q + 1
    BY <1>1, <2>2, DivIs
  <2> QED BY <2>1, <2>3
<1>9. /\ cp \in Nat /\ (prog = 0 => cp = 0) /\ (prog > 0 => cp >= 1)
      /\ \A r \in Nat : prog <= PageSz * r => cp <= r
  BY <1>2, <1>3, CeilFacts
<1>10. /\ cn \in Nat /\ (nobits = 0 => cn = 0) /\ (nobits > 0 => cn >= 1)
       /\ \A r \in Nat : nobits <= PageSz * r => cn <= r
  BY <1>2, <1>3, CeilFacts
<1>11. cn # 0 => cn + 1 <= Room /\ cp <= 1
  <2> SUFFICES ASSUME cn # 0 PROVE cn + 1 <= Room /\ cp <= 1
    OBVIOUS
  <2>1. nobits # 0 /\ prog <= PageSz /\ PageSz + nobits <= Stride
    BY <1>4, <1>10
  <2>2. PageSz * 1 = PageSz /\ PageSz * (Room - 1) = Stride - PageSz /\ Room - 1 \in Nat
    BY <1>1
  <2>3. cp <= 1
    BY <1>9, <2>1, <2>2
  <2>4. nobits <= PageSz * (Room - 1)
    BY <1>1, <1>3, <2>1, <2>2
  <2>5. cn <= Room - 1
    BY <1>10, <2>2, <2>4
  <2> QED BY <1>1, <1>10, <2>3, <2>5
<1>12. cp <= Room
  <2>1. CASE nobits = 0
    <3>1. prog <= PageSz * Room
      BY <1>1, <1>4, <2>1
    <3> QED BY <1>1, <1>9, <3>1
  <2>2. CASE nobits # 0
    BY <1>1, <1>3, <1>9, <1>10, <1>11, <2>2
  <2> QED BY <2>1, <2>2
<1>13. cp + cn > 0
  BY <1>3, <1>4, <1>9, <1>10
<1>14. PagesOf(base, prog) = q .. q + cp - 1
  BY <1>2, <1>5 DEF PagesOf, Ceil
<1>15. PagesOf(NobitsBase(base), nobits) = (q + 1) .. (q + 1) + cn - 1
  BY <1>2, <1>8 DEF PagesOf, Ceil
<1> QED BY <1>2, <1>5, <1>7, <1>8, <1>9, <1>10, <1>11, <1>12, <1>13, <1>14, <1>15

\* An address of a section is in a page of its block, and in none of the other block.
LEMMA SectionPages ==
    ASSUME NEW f, Fits(f), NEW q \in Nat, NEW base, base = PageSz * q, NEW s \in Sections(f),
           Type(f, s) \in {"prog", "nobits"}, NEW a \in Extent(f, base, s), NEW p, p = a \div PageSz
    PROVE  /\ p \in q .. q + Room - 1
           /\ Type(f, s) = "nobits" => p \in PagesOf(NobitsBase(base), Layout(f, "nobits").size)
           /\ Type(f, s) = "prog" => /\ p \in PagesOf(base, Layout(f, "prog").size)
                                     /\ p \notin PagesOf(NobitsBase(base), Layout(f, "nobits").size)
<1>1. PICK cp, cn : cp = Ceil(Layout(f, "prog").size) /\ cn = Ceil(Layout(f, "nobits").size)
  OBVIOUS
<1>2. /\ NobitsBase(base) = PageSz * (q + 1)
      /\ PagesOf(base, Layout(f, "prog").size) = q .. q + cp - 1
      /\ PagesOf(NobitsBase(base), Layout(f, "nobits").size) = (q + 1) .. (q + 1) + cn - 1
      /\ cp \in Nat /\ cn \in Nat /\ cp <= Room /\ (cn # 0 => cn + 1 <= Room /\ cp <= 1)
  BY <1>1, BlockPages
<1>3. PageSz \in Nat \ {0} /\ Room \in Nat \ {0}
  BY Units, RoomIs
<1>4. PICK type, lay, off, size : type = Type(f, s) /\ lay = Layout(f, type).size /\ off = Layout(f, type).off[s] /\ size = Files[f].sections[s].size
  OBVIOUS
<1>5. lay \in Nat /\ off \in Nat /\ size \in Nat /\ off + size <= lay
  BY <1>4, LayoutFacts DEF Fits, HasSections
<1>6. ASSUME NEW k \in Nat, SectionAddr(f, base, s) = PageSz * k + off
      PROVE  p \in k .. k + Ceil(lay) - 1
  <2>1. PageSz * k \in Nat
    BY <1>3, <1>6
  <2>2. PICK x : x = a - PageSz * k
    OBVIOUS
  <2>3. x \in 0 .. lay - 1 /\ a = PageSz * k + x
    BY <1>4, <1>5, <1>6, <2>1, <2>2 DEF Extent
  <2>4. PICK c, d, m : c = Ceil(lay) /\ d = x \div PageSz /\ m = x % PageSz
    OBVIOUS
  <2>5. d \in 0 .. c - 1 /\ c \in Nat
    BY <1>5, <2>3, <2>4, CeilFacts
  <2>6. m \in 0..(PageSz - 1) /\ x = PageSz * d + m /\ d \in Nat
    BY <1>3, <1>5, <2>3, <2>4, <2>5
  <2>7. a = PageSz * (k + d) + m /\ k + d \in Nat
    <3>1. PageSz * (k + d) = PageSz * k + PageSz * d
      BY <1>3, <1>6, <2>6
    <3>2. PageSz * d \in Nat
      BY <1>3, <2>6
    <3> QED BY <1>6, <2>1, <2>3, <2>6, <3>1, <3>2
  <2>8. a \div PageSz = k + d
    <3>1. PICK e : e = k + d
      OBVIOUS
    <3>2. e \in Nat /\ a = PageSz * e + m
      BY <2>7, <3>1
    <3>3. a \div PageSz = e
      BY <1>3, <2>6, <3>2, DivIs
    <3> QED BY <3>1, <3>3
  <2> QED BY <1>6, <2>4, <2>5, <2>8
<1>7. CASE type = "prog"
  <2>1. SectionAddr(f, base, s) = PageSz * q + off
    BY <1>4, <1>7 DEF SectionAddr
  <2>2. p \in q .. q + cp - 1
    BY <1>1, <1>4, <1>6, <1>7, <2>1
  <2>3. p \notin (q + 1) .. (q + 1) + cn - 1
    <3>1. cn = 0 \/ cp <= 1
      BY <1>2
    <3> QED BY <1>2, <2>2, <3>1
  <2>4. p \in q .. q + Room - 1
    BY <1>2, <1>3, <2>2
  <2> QED BY <1>2, <1>4, <1>7, <2>2, <2>3, <2>4
<1>8. CASE type = "nobits"
  <2>1. SectionAddr(f, base, s) = PageSz * (q + 1) + off /\ q + 1 \in Nat
    BY <1>2, <1>4, <1>8 DEF SectionAddr
  <2>2. p \in (q + 1) .. (q + 1) + cn - 1
    BY <1>1, <1>4, <1>6, <1>8, <2>1
  <2>3. p \in q .. q + Room - 1
    BY <1>2, <1>3, <2>2
  <2> QED BY <1>2, <1>4, <1>8, <2>2, <2>3
<1> QED BY <1>4, <1>7, <1>8

-----------------------------------------------------------------------------
(* Where modules are placed.                                                *)

PageSet == (Base \div PageSz) .. ((Base + MaxLoads * Stride) \div PageSz)
Pages(q) == q .. q + Room - 1

\* The bases that _current_base goes through, up to the k-th.
Based(base, k) == \E j \in 0..k : base = Base + j * Stride

LEMMA BaseFacts ==
    ASSUME NEW k \in Nat, NEW base, Based(base, k)
    PROVE  /\ base \in Nat
           /\ \E q \in Nat : base = PageSz * q /\ (k + 1 <= MaxLoads => Pages(q) \subseteq PageSet)
<1>1. PICK j \in 0..k : base = Base + j * Stride
  BY DEF Based
<1>2. PICK b \in Nat : Base = PageSz * b
  BY Units
<1>3. PICK P, R, S, M : P = PageSz /\ R = Room /\ S = Stride /\ M = MaxLoads
  OBVIOUS
<1>4. P \in Nat \ {0} /\ R \in Nat \ {0} /\ S = P * R /\ M \in Nat /\ Base = P * b /\ j \in Nat
  BY <1>2, <1>3, Units, RoomIs
<1>5. base = P * (b + j * R) /\ b + j * R \in Nat /\ base \in Nat
  <2>1. j * R \in Nat /\ j * S = P * (j * R)
    BY <1>4
  <2>2. P * (b + j * R) = P * b + P * (j * R)
    BY <1>4, <2>1
  <2>3. P * (b + j * R) \in Nat
    BY <1>4, <2>1
  <2> QED BY <1>1, <1>3, <1>4, <2>1, <2>2, <2>3
<1>6. PageSet = b .. b + M * R
  <2>1. Base \div PageSz = b
    <3>1. 0 \in 0..(P - 1) /\ Base = P * b + 0
      BY <1>4
    <3>2. PICK x : x = Base
      OBVIOUS
    <3>3. x \div P = b
      BY <1>4, <3>1, <3>2, DivIs
    <3> QED BY <1>3, <3>2, <3>3
  <2>2. (Base + MaxLoads * Stride) \div PageSz = b + M * R
    <3>1. PICK x, e : x = Base + M * S /\ e = b + M * R
      OBVIOUS
    <3>2. M * R \in Nat /\ M * S = P * (M * R)
      BY <1>4
    <3>3. P * (b + M * R) = P * b + P * (M * R)
      BY <1>4, <3>2
    <3>4. e \in Nat /\ x = P * e + 0 /\ 0 \in 0..(P - 1)
      BY <1>4, <3>1, <3>2, <3>3
    <3>5. x \div P = e
      BY <1>4, <3>4, DivIs
    <3> QED BY <1>3, <3>1, <3>5
  <2> QED BY <2>1, <2>2 DEF PageSet
<1>7. k + 1 <= M => Pages(b + j * R) \subseteq PageSet
  <2> SUFFICES ASSUME k + 1 <= M PROVE Pages(b + j * R) \subseteq PageSet
    OBVIOUS
  <2>1. j + 1 <= M
    BY <1>1, <1>4
  <2>2. (j + 1) * R <= M * R /\ (j + 1) * R = j * R + R /\ j * R \in Nat /\ M * R \in Nat
    BY <1>4, <2>1
  <2>3. PICK x, y : x = j * R /\ y = M * R
    OBVIOUS
  <2>4. x + R <= y /\ x \in Nat /\ y \in Nat
    BY <1>4, <2>2, <2>3
  <2>5. (b + x) .. (b + x) + R - 1 \subseteq b .. b + y
    BY <1>4, <2>4
  <2> QED BY <1>3, <1>6, <2>3, <2>5 DEF Pages
<1> QED BY <1>3, <1>5, <1>7

\* Modules a stride apart have no page in common.
LEMMA ApartPages ==
    ASSUME NEW q \in Nat, NEW r \in Nat, PageSz * q + Stride <= PageSz * r
    PROVE  Pages(q) \cap Pages(r) = {}
<1>1. PageSz \in Nat \ {0} /\ Room \in Nat \ {0} /\ Stride = PageSz * Room
  BY Units, RoomIs
<1>2. PageSz * (q + Room) = PageSz * q + PageSz * Room
  BY <1>1
<1>3. q + Room <= r
  <2>1. PICK x : x = q + Room
    OBVIOUS
  <2>2. x \in Nat /\ PageSz * x <= PageSz * r
    BY <1>1, <1>2, <2>1
  <2>3. x <= r
    BY <1>1, <2>2, Cancel
  <2> QED BY <2>1, <2>3
<1> QED BY <1>1, <1>3 DEF Pages

\* Module m is where its relocations say, with the pages mp.
Whole(m, mp) ==
    \A s \in Sections(m.file) : Type(m.file, s) \in {"prog", "nobits"} =>
        \A a \in Extent(m.file, m.base, s) :
            mp[a \div PageSz] = <<m.load, Type(m.file, s), BlockPage(m.file, m.base, s, a)>>

LEMMA WholeKept ==
    ASSUME NEW m, Fits(m.file), NEW q \in Nat, m.base = PageSz * q, NEW mp, NEW np, Whole(m, mp),
           \A p \in Pages(q) : np[p] = mp[p]
    PROVE  Whole(m, np)
<1> SUFFICES ASSUME NEW s \in Sections(m.file), Type(m.file, s) \in {"prog", "nobits"},
                    NEW a \in Extent(m.file, m.base, s)
             PROVE  np[a \div PageSz] = <<m.load, Type(m.file, s), BlockPage(m.file, m.base, s, a)>>
  BY DEF Whole
<1>1. PICK f, base, p : f = m.file /\ base = m.base /\ p = a \div PageSz
  OBVIOUS
<1>2. p \in q .. q + Room - 1
  BY <1>1, SectionPages
<1>3. np[p] = mp[p]
  BY <1>2 DEF Pages
<1> QED BY <1>1, <1>3 DEF Whole

\* _alloc_map for the pages mp.
PlacedIn(f, base, n, mp) ==
    [p \in PageSet |->
        IF p \in PagesOf(NobitsBase(base), Layout(f, "nobits").size)
        THEN <<n, "nobits", p - NobitsBase(base) \div PageSz>>
        ELSE IF p \in PagesOf(base, Layout(f, "prog").size)
        THEN <<n, "prog", p - base \div PageSz>>
        ELSE mp[p]]

\* n modules at least have been placed.
Given(n, mp) == n = 0 \/ \E p \in PageSet : mp[p] # <<>> /\ mp[p][1] >= n
IsMapped(x) == x = <<>> \/ (x[1] \in 1..MaxLoads /\ x[2] \in {"prog", "nobits"})

LEMMA Triple ==
    ASSUME NEW a, NEW b, NEW c, NEW t, t = <<a, b, c>>
    PROVE  t # <<>> /\ t[1] = a /\ t[2] = b
OBVIOUS

LEMMA WholePlaced ==
    ASSUME NEW m, Fits(m.file), NEW q \in Nat, m.base = PageSz * q, Pages(q) \subseteq PageSet,
           m.load \in 1..MaxLoads, NEW mp, NEW np, np = PlacedIn(m.file, m.base, m.load, mp),
           \A p \in PageSet : IsMapped(mp[p])
    PROVE  /\ Whole(m, np) /\ Given(m.load, np)
           /\ np = [p \in PageSet |-> np[p]] /\ \A p \in PageSet : IsMapped(np[p])
           /\ \A p \in PageSet : p \notin Pages(q) => np[p] = mp[p]
<1>1. PICK f, base, n, prog, nobits, cp, cn :
         /\ f = m.file /\ base = m.base /\ n = m.load
         /\ prog = PagesOf(base, Layout(f, "prog").size)
         /\ nobits = PagesOf(NobitsBase(base), Layout(f, "nobits").size)
         /\ cp = Ceil(Layout(f, "prog").size) /\ cn = Ceil(Layout(f, "nobits").size)
  OBVIOUS
<1>2. /\ prog = q .. q + cp - 1 /\ nobits = (q + 1) .. (q + 1) + cn - 1
      /\ cp \in Nat /\ cn \in Nat /\ cp <= Room /\ (cn # 0 => cn + 1 <= Room /\ cp <= 1)
      /\ cp + cn > 0
  <2>1. Fits(f) /\ base = PageSz * q
    BY <1>1
  <2> QED BY <1>1, <2>1, BlockPages
<1>3. Room \in Nat \ {0}
  BY RoomIs
<1>4. prog \subseteq Pages(q) /\ nobits \subseteq Pages(q) /\ prog \cup nobits # {}
  <2>1. prog \subseteq Pages(q) /\ nobits \subseteq Pages(q)
    BY <1>2, <1>3 DEF Pages
  <2>2. cp > 0 \/ cn > 0
    BY <1>2
  <2>3. q \in prog \/ q + 1 \in nobits
    BY <1>2, <2>2
  <2> QED BY <2>1, <2>3
<1>5. \A p \in PageSet : np[p] = IF p \in nobits THEN <<n, "nobits", p - NobitsBase(base) \div PageSz>>
                                 ELSE IF p \in prog THEN <<n, "prog", p - base \div PageSz>> ELSE mp[p]
  BY <1>1 DEF PlacedIn
<1>6. Whole(m, np)
  <2> SUFFICES ASSUME NEW s \in Sections(f), Type(f, s) \in {"prog", "nobits"}, NEW a \in Extent(f, base, s)
               PROVE  np[a \div PageSz] = <<n, Type(f, s), BlockPage(f, base, s, a)>>
    BY <1>1 DEF Whole
  <2>1. PICK p : p = a \div PageSz
    OBVIOUS
  <2>2. /\ p \in q .. q + Room - 1 /\ (Type(f, s) = "nobits" => p \in nobits)
        /\ (Type(f, s) = "prog" => p \in prog /\ p \notin nobits)
    <3>1. Fits(f) /\ base = PageSz * q
      BY <1>1
    <3> QED BY <1>1, <2>1, <3>1, SectionPages
  <2>3. p \in PageSet
    BY <2>2 DEF Pages
  <2>4. CASE Type(f, s) = "prog"
    BY <1>5, <2>1, <2>2, <2>3, <2>4 DEF BlockPage
  <2>5. CASE Type(f, s) = "nobits"
    BY <1>5, <2>1, <2>2, <2>3, <2>5 DEF BlockPage
  <2> QED BY <2>4, <2>5
<1>7. Given(n, np)
  <2>1. PICK p \in prog \cup nobits : p \in PageSet
    BY <1>4
  <2>2. np[p] # <<>> /\ np[p][1] = n
    <3>1. PICK t, u, v : t = np[p] /\ u = p - NobitsBase(base) \div PageSz /\ v = p - base \div PageSz
      OBVIOUS
    <3>2. t = <<n, "nobits", u>> \/ t = <<n, "prog", v>>
      BY <1>5, <2>1, <3>1
    <3>3. t # <<>> /\ t[1] = n
      BY <3>2, Triple
    <3> QED BY <3>1, <3>3
  <2>3. n >= n
    BY <1>1
  <2> QED BY <2>1, <2>2, <2>3 DEF Given
<1>8. \A p \in PageSet : IsMapped(np[p])
  <2> TAKE p \in PageSet
  <2>1. PICK t, u, v : t = np[p] /\ u = p - NobitsBase(base) \div PageSz /\ v = p - base \div PageSz
    OBVIOUS
  <2>2. t = <<n, "nobits", u>> \/ t = <<n, "prog", v>> \/ t = mp[p]
    BY <1>5, <2>1
  <2>3. n \in 1..MaxLoads
    BY <1>1
  <2>4. ASSUME NEW k \in {"prog", "nobits"}, NEW c, t = <<n, k, c>> PROVE IsMapped(t)
    <3>1. t[1] = n /\ t[2] = k
      BY <2>4, Triple
    <3> QED BY <2>3, <3>1 DEF IsMapped
  <2>5. IsMapped(t)
    BY <2>2, <2>4
  <2> QED BY <2>1, <2>5
<1>9. np = [p \in PageSet |-> np[p]]
  BY DEF PlacedIn
<1>10. \A p \in PageSet : p \notin Pages(q) => np[p] = mp[p]
  BY <1>4, <1>5
<1> QED BY <1>1, <1>6, <1>7, <1>8, <1>9, <1>10

\* The greatest of numbers that are bounded.
LEMMA MaxFacts ==
    ASSUME NEW N \in Nat, NEW S \in SUBSET (0..N), S # {}
    PROVE  Max(S) \in S /\ \A y \in S : y <= Max(S)
<1>1. PICK T : T = {N - x : x \in S}
  OBVIOUS
<1>2. T \in SUBSET Nat /\ T # {}
  <2>1. \A x \in S : N - x \in Nat
    OBVIOUS
  <2>2. PICK x \in S : TRUE
    OBVIOUS
  <2>3. N - x \in T
    BY <1>1, <2>2
  <2> QED BY <1>1, <2>1, <2>3
<1>3. PICK t \in T : \A y \in T : t <= y
  BY <1>2, LeastNat
<1>4. PICK x \in S : t = N - x
  BY <1>1
<1>5. \A y \in S : x >= y
  <2> TAKE y \in S
  <2>1. t <= N - y
    BY <1>1, <1>3
  <2> QED BY <1>4, <2>1
<1>6. \E z \in S : \A y \in S : z >= y
  BY <1>5
<1>7. Max(S) \in S /\ \A y \in S : Max(S) >= y
  BY <1>6 DEF Max
<1> QED BY <1>7

-----------------------------------------------------------------------------
(* The invariant.                                                           *)

Working(t) == t.pc \notin {"idle", "stopped"}
Pend(t) == IF t.pc \in {"relocate", "bump"} THEN 1 ELSE 0
Late(t) == IF t.pc = "append" THEN 1 ELSE 0
Pending == Pend(task["preload"]) + Pend(task["kterm"])

\* _current_base was advanced k times, each time for a module that had been placed, and
\* the modules are at bases it had before.
GoodBase(t, k) == Based(t.base, k) /\ module_read(t.file)
CountsAt(k) ==
    /\ k \in Nat /\ current_base = Base + k * Stride /\ Given(k + Pending, mapped)
    /\ \A l \in Loaders : Working(task[l]) => GoodBase(task[l], k)
    /\ \A n \in DOMAIN started : GoodBase(started[n], k)
Counts == \E k : CountsAt(k)

\* The pages, the numbers of the loads, and the two lists.
PagesTyped == mapped = [p \in PageSet |-> mapped[p]] /\ \A p \in PageSet : IsMapped(mapped[p])
LoadsTyped == \A l \in Loaders : task[l].load \in 0..MaxLoads
ListsMatch == Len(loaded) + Late(task["preload"]) + Late(task["kterm"]) = Len(started)

\* With a patient user one module is loaded after the other, ...
Exclusive ==
    \/ task["kterm"].pc = "idle" \/ task["preload"].pc = "stopped"
    \/ task["preload"].pc = "idle" /\ todo = <<>>
\* ... so that the base a loader has read is the one to place the module at, and what was
\* placed is below it.
PlacedRight(t, base, mp) ==
    /\ t.pc \in {"place", "relocate", "bump"} => t.base = base
    /\ t.pc \in {"check", "start", "append"} => t.base + Stride <= base
    /\ t.pc \in {"relocate", "bump", "check", "start", "append"} => Whole(t, mp)
StartedRight(m, base, mp) == m.base + Stride <= base /\ Whole(m, mp)
Kept ==
    /\ Exclusive
    /\ \A l \in Loaders : PlacedRight(task[l], current_base, mapped)
    /\ \A n \in DOMAIN started : StartedRight(started[n], current_base, mapped)

StayInv == Counts /\ PagesTyped /\ LoadsTyped /\ ListsMatch /\ (patient => Kept)

LEMMA PendTypes == \A t : Pend(t) \in {0, 1} /\ Late(t) \in {0, 1}
BY DEF Pend, Late

LEMMA GivenLess ==
    ASSUME NEW a \in Nat, NEW b \in Nat, a <= b, NEW mp, Given(b, mp), \A p \in PageSet : IsMapped(mp[p])
    PROVE  Given(a, mp) /\ b <= MaxLoads
<1>1. MaxLoads \in Nat
  BY Units
<1>2. CASE b = 0
  <2>1. a = 0
    BY <1>2
  <2> QED BY <1>1, <1>2, <2>1 DEF Given
<1>3. CASE b # 0
  <2>1. PICK p \in PageSet : mp[p] # <<>> /\ mp[p][1] >= b
    BY <1>3 DEF Given
  <2>2. mp[p][1] \in 1..MaxLoads
    BY <2>1 DEF IsMapped
  <2>3. mp[p][1] >= a /\ b <= MaxLoads
    BY <1>1, <2>1, <2>2
  <2> QED BY <2>1, <2>3 DEF Given
<1> QED BY <1>2, <1>3

LEMMA BasedMore ==
    ASSUME NEW k \in Nat, NEW b, Based(b, k)
    PROVE  Based(b, k + 1)
<1>1. PICK j \in 0..k : b = Base + j * Stride
  BY DEF Based
<1>2. j \in 0..(k + 1)
  OBVIOUS
<1> QED BY <1>1, <1>2 DEF Based

\* One loader goes on with t.
LEMMA Sums ==
    ASSUME task = [k \in Loaders |-> task[k]], NEW l \in Loaders, NEW t, task' = [task EXCEPT ![l] = t]
    PROVE  /\ Pending \in Nat /\ Pending' = Pending - Pend(task[l]) + Pend(t)
           /\ Pend(task[l]) <= Pending
           /\ Late(task'["preload"]) + Late(task'["kterm"]) = Late(task["preload"]) + Late(task["kterm"]) - Late(task[l]) + Late(t)
<1>1. task'[l] = t /\ \A k \in Loaders : k # l => task'[k] = task[k]
  BY UpdateFacts
<1>2. PICK a, b, c : a = Pend(task["preload"]) /\ b = Pend(task["kterm"]) /\ c = Pend(t)
  OBVIOUS
<1>3. PICK x, y, z : x = Late(task["preload"]) /\ y = Late(task["kterm"]) /\ z = Late(t)
  OBVIOUS
<1>4. a \in {0, 1} /\ b \in {0, 1} /\ c \in {0, 1} /\ x \in {0, 1} /\ y \in {0, 1} /\ z \in {0, 1}
  BY <1>2, <1>3, PendTypes
<1>5. Pending = a + b
  BY <1>2 DEF Pending
<1>6. CASE l = "preload"
  <2>1. task'["preload"] = t /\ task'["kterm"] = task["kterm"] /\ task[l] = task["preload"]
    BY <1>1, <1>6 DEF Loaders
  <2>2. Pending' = c + b /\ Late(task'["preload"]) + Late(task'["kterm"]) = z + y
    BY <1>2, <1>3, <2>1 DEF Pending
  <2> QED BY <1>2, <1>3, <1>4, <1>5, <2>1, <2>2
<1>7. CASE l = "kterm"
  <2>1. task'["kterm"] = t /\ task'["preload"] = task["preload"] /\ task[l] = task["kterm"]
    BY <1>1, <1>7 DEF Loaders
  <2>2. Pending' = a + c /\ Late(task'["preload"]) + Late(task'["kterm"]) = x + z
    BY <1>2, <1>3, <2>1 DEF Pending
  <2> QED BY <1>2, <1>3, <1>4, <1>5, <2>1, <2>2
<1> QED BY <1>6, <1>7 DEF Loaders

\* A step of a loader that moves no base and places nothing.
LEMMA StayStep ==
    ASSUME LoadInv, StayInv, NEW l \in Loaders, NEW t, task' = [task EXCEPT ![l] = t],
           UNCHANGED <<current_base, mapped, patient, started>>,
           Len(loaded') \in Nat, Len(loaded') + Late(t) = Len(loaded) + Late(task[l]),
           Pend(t) <= Pend(task[l]), t.load \in 0..MaxLoads,
           Working(t) => (Working(task[l]) /\ t.base = task[l].base /\ t.file = task[l].file)
                         \/ (t.base = current_base /\ module_read(t.file)),
           patient => Exclusive' /\ PlacedRight(t, current_base, mapped)
    PROVE  StayInv'
<1>1. task = [k \in Loaders |-> task[k]] /\ loaded \in Seq(ToSet(loaded)) /\ started \in Seq(ToSet(started))
  BY DEF LoadInv, WellFormed
<1>2. task'[l] = t /\ \A k \in Loaders : k # l => task'[k] = task[k]
  BY <1>1, UpdateFacts
<1>3. /\ Pending \in Nat /\ Pending' = Pending - Pend(task[l]) + Pend(t) /\ Pend(task[l]) <= Pending
      /\ Late(task'["preload"]) + Late(task'["kterm"]) = Late(task["preload"]) + Late(task["kterm"]) - Late(task[l]) + Late(t)
  BY <1>1, Sums
<1>4. /\ Pend(t) \in {0, 1} /\ Pend(task[l]) \in {0, 1} /\ Late(t) \in {0, 1} /\ Late(task[l]) \in {0, 1}
      /\ Late(task["preload"]) \in {0, 1} /\ Late(task["kterm"]) \in {0, 1}
      /\ Late(task'["preload"]) \in {0, 1} /\ Late(task'["kterm"]) \in {0, 1}
  BY PendTypes
<1>5. PagesTyped' /\ LoadsTyped'
  <2>1. PagesTyped'
    BY DEF StayInv, PagesTyped
  <2>2. LoadsTyped'
    BY <1>2 DEF StayInv, LoadsTyped
  <2> QED BY <2>1, <2>2
<1>6. PICK k : CountsAt(k)
  BY DEF StayInv, Counts
<1>7. CountsAt(k)'
  <2>1. k \in Nat /\ current_base = Base + k * Stride /\ Given(k + Pending, mapped)
    BY <1>6 DEF CountsAt
  <2>2. Given(k + Pending', mapped')
    <3>1. PICK a, b : a = k + Pending' /\ b = k + Pending
      OBVIOUS
    <3>2. a \in Nat /\ b \in Nat /\ a <= b
      BY <1>3, <1>4, <2>1, <3>1
    <3>3. PICK mp : mp = mapped
      OBVIOUS
    <3>4. Given(b, mp) /\ \A p \in PageSet : IsMapped(mp[p])
      BY <2>1, <3>1, <3>3 DEF StayInv, PagesTyped
    <3>5. Given(a, mp)
      BY <3>2, <3>4, GivenLess
    <3> QED BY <3>1, <3>3, <3>5
  <2>3. \A h \in Loaders : Working(task'[h]) => GoodBase(task'[h], k)
    <3>1. Based(current_base, k)
      <4>1. k \in 0..k
        BY <2>1
      <4> QED BY <2>1, <4>1 DEF Based
    <3>2. Working(t) => GoodBase(t, k)
      BY <1>6, <3>1 DEF CountsAt, GoodBase
    <3> QED BY <1>2, <1>6, <3>2 DEF CountsAt
  <2>4. \A n \in DOMAIN started' : GoodBase(started'[n], k)
    BY <1>6 DEF CountsAt
  <2> QED BY <2>1, <2>2, <2>3, <2>4 DEF CountsAt
<1>8. ListsMatch'
  <2>1. PICK a, b, c, d, x, y, u, v : /\ a = Len(loaded) /\ b = Len(loaded') /\ c = Late(t) /\ d = Late(task[l])
                                      /\ x = Late(task["preload"]) /\ y = Late(task["kterm"])
                                      /\ u = Late(task'["preload"]) /\ v = Late(task'["kterm"])
    OBVIOUS
  <2>2. a \in Nat /\ b \in Nat /\ c \in Nat /\ d \in Nat
    <3>1. a \in Nat
      BY <1>1, <2>1
    <3> QED BY <1>4, <2>1, <3>1
  <2>3. x \in Nat /\ y \in Nat /\ u \in Nat /\ v \in Nat
    BY <1>4, <2>1
  <2>4. b + c = a + d /\ u + v = x + y - d + c
    <3>1. b + c = a + d
      BY <2>1
    <3>2. u + v = x + y - d + c
      BY <1>3, <2>1
    <3> QED BY <3>1, <3>2
  <2>5. a + x + y = Len(started)
    BY <2>1 DEF StayInv, ListsMatch
  <2>6. b + u + v = a + x + y
    BY <2>2, <2>3, <2>4
  <2> QED BY <2>1, <2>5, <2>6 DEF ListsMatch
<1>9. ASSUME patient' PROVE Kept'
  <2>1. patient /\ Exclusive' /\ PlacedRight(t, current_base, mapped) /\ Kept
    BY <1>9 DEF StayInv
  <2>2. \A h \in Loaders : PlacedRight(task'[h], current_base', mapped')
    BY <1>2, <2>1 DEF Kept
  <2> QED BY <2>1, <2>2 DEF Kept
<1> QED BY <1>5, <1>7, <1>8, <1>9 DEF StayInv, Counts

-----------------------------------------------------------------------------
(* Every step preserves it.                                                 *)

LEMMA GivenUp ==
    ASSUME NEW x \in {"idle", "stopped"}, NEW t, t = [NoTask EXCEPT !.pc = x]
    PROVE  /\ t.pc = x /\ t.load = 0 /\ ~ Working(t) /\ Pend(t) = 0 /\ Late(t) = 0
           /\ \A b, mp : PlacedRight(t, b, mp)
<1>1. t.pc = x /\ t.load = 0
  BY DEF NoTask
<1> QED BY <1>1 DEF Working, Pend, Late, PlacedRight

LEMMA WholeSame ==
    ASSUME NEW t, NEW u, t.file = u.file, t.base = u.base, t.load = u.load, NEW mp, Whole(u, mp)
    PROVE  Whole(t, mp)
BY DEF Whole

\* Who is loading keeps the other one from it.
LEMMA ExclusiveGoes ==
    ASSUME task = [k \in Loaders |-> task[k]], NEW l \in Loaders, NEW t, task' = [task EXCEPT ![l] = t],
           Exclusive, Working(task[l]), UNCHANGED todo
    PROVE  Exclusive' /\ \A k \in Loaders : k # l => ~ Working(task[k])
<1>1. task'[l] = t /\ \A k \in Loaders : k # l => task'[k] = task[k]
  BY UpdateFacts
<1>2. CASE l = "preload"
  BY <1>1, <1>2 DEF Exclusive, Working, Loaders
<1>3. CASE l = "kterm"
  BY <1>1, <1>3 DEF Exclusive, Working, Loaders
<1> QED BY <1>2, <1>3 DEF Loaders

LEMMA RefuseStays ==
    ASSUME LoadInv, StayInv, NEW l \in Loaders, Refuse(l), ~ At(l, "append"),
           UNCHANGED <<current_base, mapped, loaded, started, patient>>
    PROVE  StayInv'
<1>1. PICK x \in {"idle", "stopped"} : x = IF l = "preload" THEN "stopped" ELSE "idle"
  OBVIOUS
<1>2. PICK t : t = [NoTask EXCEPT !.pc = x]
  OBVIOUS
<1>3. task' = [task EXCEPT ![l] = t]
  BY <1>1, <1>2 DEF Refuse
<1>4. /\ t.pc = x /\ t.load = 0 /\ ~ Working(t) /\ Pend(t) = 0 /\ Late(t) = 0
      /\ \A b, mp : PlacedRight(t, b, mp)
  BY <1>2, GivenUp
<1>5. task = [k \in Loaders |-> task[k]] /\ loaded \in Seq(ToSet(loaded))
  BY DEF LoadInv, WellFormed
<1>6. task'[l] = t /\ \A k \in Loaders : k # l => task'[k] = task[k]
  BY <1>3, <1>5, UpdateFacts
<1>7. Exclusive'
  BY <1>1, <1>4, <1>6 DEF Exclusive, Loaders
<1>8. Late(task[l]) = 0 /\ Len(loaded') \in Nat /\ Len(loaded') = Len(loaded)
  BY <1>5 DEF Late, At
<1>9. Len(loaded') + Late(t) = Len(loaded) + Late(task[l])
  BY <1>4, <1>8
<1>10. Pend(t) <= Pend(task[l]) /\ t.load \in 0..MaxLoads
  <2>1. Pend(task[l]) \in {0, 1}
    BY PendTypes
  <2> QED BY <1>4, <2>1, Units
<1> QED BY <1>3, <1>4, <1>7, <1>8, <1>9, <1>10, StayStep

LEMMA ReadStays ==
    ASSUME LoadInv, StayInv, NEW l \in Loaders, NEW f, Read(l, f),
           patient => \A k \in Loaders : k # l => ~ Working(task[k]),
           patient /\ l = "kterm" => task["preload"].pc = "stopped" \/ (task["preload"].pc = "idle" /\ todo' = <<>>),
           patient /\ l = "preload" => task["kterm"].pc = "idle"
    PROVE  StayInv'
<1>1. UNCHANGED <<current_base, mapped, loaded, started, patient>> /\ task[l].pc = "idle"
  BY DEF Read, At
<1>2. CASE ~ module_read(f)
  BY <1>1, <1>2, RefuseStays DEF Read, At
<1>3. CASE module_read(f)
  <2>1. PICK t : t = [NoTask EXCEPT !.pc = "place", !.file = f, !.base = current_base]
    OBVIOUS
  <2>2. task' = [task EXCEPT ![l] = t]
    BY <1>3, <2>1 DEF Read
  <2>3. t.pc = "place" /\ t.load = 0 /\ t.base = current_base /\ t.file = f
    BY <2>1 DEF NoTask
  <2>4. Pend(t) = 0 /\ Late(t) = 0 /\ PlacedRight(t, current_base, mapped)
    BY <2>3 DEF Pend, Late, PlacedRight
  <2>5. task = [k \in Loaders |-> task[k]] /\ loaded \in Seq(ToSet(loaded))
    BY DEF LoadInv, WellFormed
  <2>6. task'[l] = t /\ \A k \in Loaders : k # l => task'[k] = task[k]
    BY <2>2, <2>5, UpdateFacts
  <2>7. patient => Exclusive'
    BY <2>6 DEF Exclusive, Loaders
  <2>8. Late(task[l]) = 0 /\ Len(loaded') \in Nat /\ Len(loaded') = Len(loaded)
    BY <1>1, <2>5 DEF Late
  <2>9. Len(loaded') + Late(t) = Len(loaded) + Late(task[l])
    BY <2>4, <2>8
  <2>10. Pend(t) <= Pend(task[l]) /\ t.load \in 0..MaxLoads
    <3>1. Pend(task[l]) \in {0, 1}
      BY PendTypes
    <3> QED BY <2>3, <2>4, <3>1, Units
  <2>11. t.base = current_base /\ module_read(t.file)
    BY <1>3, <2>3
  <2> QED BY <1>1, <2>2, <2>4, <2>7, <2>8, <2>9, <2>10, <2>11, StayStep
<1> QED BY <1>2, <1>3

\* A loader that goes on to the next step with the same module.
LEMMA GoStays ==
    ASSUME LoadInv, StayInv, NEW l \in Loaders, NEW t, task' = [task EXCEPT ![l] = t],
           UNCHANGED <<current_base, mapped, loaded, started, patient, todo>>,
           <<task[l].pc, t.pc>> \in {<<"relocate", "bump">>, <<"check", "start">>},
           t.file = task[l].file, t.base = task[l].base, t.load = task[l].load
    PROVE  StayInv'
<1>1. \/ task[l].pc = "relocate" /\ t.pc = "bump"
      \/ task[l].pc = "check" /\ t.pc = "start"
  OBVIOUS
<1>2. task = [k \in Loaders |-> task[k]] /\ loaded \in Seq(ToSet(loaded))
  BY DEF LoadInv, WellFormed
<1>3. Working(task[l]) /\ Pend(t) = Pend(task[l]) /\ Late(t) = Late(task[l])
  BY <1>1 DEF Working, Pend, Late
<1>4. Pend(t) <= Pend(task[l]) /\ t.load \in 0..MaxLoads
  <2>1. Pend(t) \in {0, 1}
    BY PendTypes
  <2> QED BY <1>3, <2>1 DEF StayInv, LoadsTyped
<1>5. patient => Exclusive' /\ PlacedRight(t, current_base, mapped)
  <2> SUFFICES ASSUME patient PROVE Exclusive' /\ PlacedRight(t, current_base, mapped)
    OBVIOUS
  <2>1. Exclusive /\ PlacedRight(task[l], current_base, mapped)
    BY DEF StayInv, Kept
  <2>2. Exclusive'
    BY <1>2, <1>3, <2>1, ExclusiveGoes
  <2>3. Whole(task[l], mapped)
    BY <1>1, <2>1 DEF PlacedRight
  <2>4. Whole(t, mapped)
    <3>1. PICK u, mp : u = task[l] /\ mp = mapped
      OBVIOUS
    <3>2. Whole(u, mp) /\ t.file = u.file /\ t.base = u.base /\ t.load = u.load
      BY <2>3, <3>1
    <3> QED BY <3>1, <3>2, WholeSame
  <2> QED BY <1>1, <2>1, <2>2, <2>4 DEF PlacedRight
<1>6. Len(loaded') \in Nat /\ Len(loaded') + Late(t) = Len(loaded) + Late(task[l])
  BY <1>2, <1>3
<1> QED BY <1>3, <1>4, <1>5, <1>6, StayStep

LEMMA RelocateStays ==
    ASSUME LoadInv, StayInv, NEW l \in Loaders, Relocate(l) PROVE StayInv'
<1>1. UNCHANGED <<current_base, mapped, loaded, started, patient, todo>> /\ task[l].pc = "relocate"
  BY DEF Relocate, At
<1>2. CASE Refuse(l)
  BY <1>1, <1>2, RefuseStays DEF At
<1>3. ASSUME NEW refs, task' = [task EXCEPT ![l].pc = "bump", ![l].refs = refs]
      PROVE  StayInv'
  <2>1. task = [k \in Loaders |-> task[k]] /\ IsTask(task[l])
    BY DEF LoadInv, WellFormed
  <2>2. PICK t : t = [[task[l] EXCEPT !.pc = "bump"] EXCEPT !.refs = refs]
    OBVIOUS
  <2>3. task' = [task EXCEPT ![l] = t]
    BY <1>3, <2>1, <2>2
  <2>4. t.pc = "bump" /\ t.file = task[l].file /\ t.base = task[l].base /\ t.load = task[l].load
    BY <2>1, <2>2 DEF IsTask
  <2>5. <<task[l].pc, t.pc>> \in {<<"relocate", "bump">>, <<"check", "start">>}
    BY <1>1, <2>4
  <2> QED BY <1>1, <2>3, <2>4, <2>5, GoStays
<1> QED BY <1>2, <1>3 DEF Relocate

LEMMA CheckStays ==
    ASSUME LoadInv, StayInv, NEW l \in Loaders, Check(l) PROVE StayInv'
<1>1. UNCHANGED <<current_base, mapped, loaded, started, patient, todo>> /\ task[l].pc = "check"
  BY DEF Check, At
<1>2. CASE Refuse(l)
  BY <1>1, <1>2, RefuseStays DEF At
<1>3. CASE Go(l, "start")
  <2>1. task = [k \in Loaders |-> task[k]] /\ IsTask(task[l])
    BY DEF LoadInv, WellFormed
  <2>2. PICK t : t = [task[l] EXCEPT !.pc = "start"]
    OBVIOUS
  <2>3. task' = [task EXCEPT ![l] = t]
    BY <1>3, <2>1, <2>2 DEF Go
  <2>4. t.pc = "start" /\ t.file = task[l].file /\ t.base = task[l].base /\ t.load = task[l].load
    BY <2>1, <2>2 DEF IsTask
  <2>5. <<task[l].pc, t.pc>> \in {<<"relocate", "bump">>, <<"check", "start">>}
    BY <1>1, <2>4
  <2> QED BY <1>1, <2>3, <2>4, <2>5, GoStays
<1> QED BY <1>2, <1>3 DEF Check

LEMMA EnlistStays ==
    ASSUME LoadInv, StayInv, NEW l \in Loaders, Enlist(l) PROVE StayInv'
<1>1. UNCHANGED <<current_base, mapped, started, patient, todo>> /\ task[l].pc = "append"
  BY DEF Enlist, At
<1>2. task = [k \in Loaders |-> task[k]] /\ loaded \in Seq(ToSet(loaded))
  BY DEF LoadInv, WellFormed
<1>3. PICK x \in {"idle", "stopped"} : x = "idle"
  OBVIOUS
<1>4. PICK t : t = [NoTask EXCEPT !.pc = x]
  OBVIOUS
<1>5. task' = [task EXCEPT ![l] = t]
  <2>1. t = NoTask
    BY <1>3, <1>4 DEF NoTask
  <2> QED BY <2>1 DEF Enlist
<1>6. /\ t.pc = x /\ t.load = 0 /\ ~ Working(t) /\ Pend(t) = 0 /\ Late(t) = 0
      /\ \A b, mp : PlacedRight(t, b, mp)
  BY <1>4, GivenUp
<1>7. Len(loaded') \in Nat /\ Len(loaded') + Late(t) = Len(loaded) + Late(task[l])
  <2>1. PICK s, e : s = loaded /\ loaded' = Append(s, e)
    BY DEF Enlist
  <2>2. Len(Append(s, e)) = Len(s) + 1 /\ Len(s) \in Nat
    BY <1>2, <2>1, AppendFacts
  <2>3. Late(task[l]) = 1
    BY <1>1 DEF Late
  <2>4. Len(loaded') = Len(loaded) + 1 /\ Len(loaded) \in Nat
    BY <2>1, <2>2
  <2> QED BY <1>6, <2>3, <2>4
<1>8. Pend(t) <= Pend(task[l]) /\ t.load \in 0..MaxLoads
  <2>1. Pend(task[l]) \in {0, 1}
    BY PendTypes
  <2> QED BY <1>6, <2>1, Units
<1>9. patient => Exclusive'
  <2>1. Working(task[l])
    BY <1>1 DEF Working
  <2> QED BY <1>1, <1>2, <1>5, <2>1, ExclusiveGoes DEF StayInv, Kept
<1> QED BY <1>1, <1>5, <1>6, <1>7, <1>8, <1>9, StayStep

\* _current_base is advanced.
LEMMA BumpStays ==
    ASSUME LoadInv, StayInv, NEW l \in Loaders, Bump(l) PROVE StayInv'
<1>1. /\ UNCHANGED <<mapped, loaded, started, patient, todo>> /\ task[l].pc = "bump"
      /\ current_base' = current_base + Stride
  BY DEF Bump, At
<1>2. task = [k \in Loaders |-> task[k]] /\ IsTask(task[l]) /\ current_base \in Nat
  BY DEF LoadInv, WellFormed
<1>3. PICK t : t = [task[l] EXCEPT !.pc = "check"]
  OBVIOUS
<1>4. task' = [task EXCEPT ![l] = t]
  BY <1>2, <1>3 DEF Bump, Go
<1>5. t.pc = "check" /\ t.file = task[l].file /\ t.base = task[l].base /\ t.load = task[l].load
  BY <1>2, <1>3 DEF IsTask
<1>6. task'[l] = t /\ \A h \in Loaders : h # l => task'[h] = task[h]
  BY <1>2, <1>4, UpdateFacts
<1>7. Pend(t) = 0 /\ Late(t) = 0 /\ Pend(task[l]) = 1 /\ Late(task[l]) = 0 /\ Working(task[l])
  BY <1>1, <1>5 DEF Pend, Late, Working
<1>8. /\ Pending \in Nat /\ Pending' = Pending - 1 + 0 /\ 1 <= Pending
      /\ Late(task'["preload"]) + Late(task'["kterm"]) = Late(task["preload"]) + Late(task["kterm"]) - 0 + 0
  BY <1>2, <1>4, <1>7, Sums
<1>9. PagesTyped' /\ LoadsTyped'
  <2>1. PagesTyped'
    BY <1>1 DEF StayInv, PagesTyped
  <2>2. LoadsTyped'
    BY <1>5, <1>6 DEF StayInv, LoadsTyped
  <2> QED BY <2>1, <2>2
<1>10. PICK k : CountsAt(k)
  BY DEF StayInv, Counts
<1>11. k \in Nat /\ current_base = Base + k * Stride /\ Given(k + Pending, mapped)
  BY <1>10 DEF CountsAt
<1>12. CountsAt(k + 1)'
  <2>1. current_base' = Base + (k + 1) * Stride /\ k + 1 \in Nat
    <3>1. (k + 1) * Stride = k * Stride + Stride /\ k * Stride \in Nat
      BY <1>11, Units
    <3> QED BY <1>1, <1>11, <3>1, Units
  <2>2. Given(k + 1 + Pending', mapped')
    <3>1. k + 1 + Pending' = k + Pending
      BY <1>8, <1>11
    <3> QED BY <1>1, <1>11, <3>1
  <2>3. \A u : GoodBase(u, k) => GoodBase(u, k + 1)
    BY <1>11, BasedMore DEF GoodBase
  <2>4. \A h \in Loaders : Working(task'[h]) => GoodBase(task'[h], k + 1)
    <3>1. GoodBase(t, k)
      <4>1. GoodBase(task[l], k)
        BY <1>7, <1>10 DEF CountsAt
      <4> QED BY <1>5, <4>1 DEF GoodBase
    <3> QED BY <1>6, <1>10, <2>3, <3>1 DEF CountsAt
  <2>5. \A n \in DOMAIN started' : GoodBase(started'[n], k + 1)
    BY <1>1, <1>10, <2>3 DEF CountsAt
  <2> QED BY <2>1, <2>2, <2>4, <2>5 DEF CountsAt
<1>13. ListsMatch'
  <2>1. PICK a, x, y, u, v : /\ a = Len(loaded) /\ x = Late(task["preload"]) /\ y = Late(task["kterm"])
                             /\ u = Late(task'["preload"]) /\ v = Late(task'["kterm"])
    OBVIOUS
  <2>2. x \in {0, 1} /\ y \in {0, 1} /\ u \in {0, 1} /\ v \in {0, 1} /\ u + v = x + y - 0 + 0
    BY <1>8, <2>1, PendTypes
  <2>3. a \in Nat
    BY <2>1 DEF LoadInv, WellFormed
  <2>4. a + u + v = a + x + y
    BY <2>2, <2>3
  <2> QED BY <1>1, <2>1, <2>4 DEF StayInv, ListsMatch
<1>14. ASSUME patient' PROVE Kept'
  <2>1. patient /\ Kept
    BY <1>1, <1>14 DEF StayInv
  <2>2. Exclusive' /\ \A h \in Loaders : h # l => ~ Working(task[h])
    BY <1>1, <1>2, <1>4, <1>7, <2>1, ExclusiveGoes DEF Kept
  <2>3. PlacedRight(task[l], current_base, mapped)
    BY <2>1 DEF Kept
  <2>4. PlacedRight(t, current_base', mapped')
    <3>1. t.base = current_base /\ t.base + Stride <= current_base'
      BY <1>1, <1>2, <1>5, <2>3, Units DEF PlacedRight
    <3>2. Whole(task[l], mapped)
      BY <1>1, <2>3 DEF PlacedRight
    <3>3. PICK u, mp : u = task[l] /\ mp = mapped
      OBVIOUS
    <3>4. Whole(u, mp) /\ t.file = u.file /\ t.base = u.base /\ t.load = u.load
      BY <1>5, <3>2, <3>3
    <3>5. Whole(t, mp)
      BY <3>4, WholeSame
    <3> QED BY <1>1, <1>5, <3>1, <3>3, <3>5 DEF PlacedRight
  <2>5. \A h \in Loaders : PlacedRight(task'[h], current_base', mapped')
    <3> TAKE h \in Loaders
    <3>1. CASE h = l
      BY <1>6, <2>4, <3>1
    <3>2. CASE h # l
      BY <1>6, <2>2, <3>2 DEF Working, PlacedRight
    <3> QED BY <3>1, <3>2
  <2>6. \A n \in DOMAIN started' : StartedRight(started'[n], current_base', mapped')
    <3> TAKE n \in DOMAIN started'
    <3>1. started[n].base + Stride <= current_base /\ Whole(started[n], mapped) /\ started[n].base \in Nat
      BY <1>1, <2>1 DEF Kept, StartedRight, LoadInv, WellFormed, Busy
    <3>2. started[n].base + Stride <= current_base'
      BY <1>1, <1>2, <3>1, Units
    <3> QED BY <1>1, <3>1, <3>2 DEF StartedRight
  <2> QED BY <2>2, <2>5, <2>6 DEF Kept
<1> QED BY <1>9, <1>12, <1>13, <1>14 DEF StayInv, Counts

LEMMA StartStays ==
    ASSUME LoadInv, StayInv, NEW l \in Loaders, Start(l) PROVE StayInv'
<1>1. /\ UNCHANGED <<current_base, mapped, loaded, patient, todo>> /\ task[l].pc = "start"
      /\ started' = Append(started, task[l])
  BY DEF Start, At
<1>2. task = [k \in Loaders |-> task[k]] /\ IsTask(task[l]) /\ started \in Seq(ToSet(started))
  BY DEF LoadInv, WellFormed
<1>3. PICK t : t = [task[l] EXCEPT !.pc = "append"]
  OBVIOUS
<1>4. task' = [task EXCEPT ![l] = t]
  BY <1>2, <1>3 DEF Start, Go
<1>5. t.pc = "append" /\ t.file = task[l].file /\ t.base = task[l].base /\ t.load = task[l].load
  BY <1>2, <1>3 DEF IsTask
<1>6. task'[l] = t /\ \A h \in Loaders : h # l => task'[h] = task[h]
  BY <1>2, <1>4, UpdateFacts
<1>7. Pend(t) = 0 /\ Late(t) = 1 /\ Pend(task[l]) = 0 /\ Late(task[l]) = 0 /\ Working(task[l])
  BY <1>1, <1>5 DEF Pend, Late, Working
<1>8. /\ Pending \in Nat /\ Pending' = Pending - 0 + 0
      /\ Late(task'["preload"]) + Late(task'["kterm"]) = Late(task["preload"]) + Late(task["kterm"]) - 0 + 1
  BY <1>2, <1>4, <1>7, Sums
<1>9. PICK e, st, tt, len : e = task[l] /\ st = started /\ tt = started' /\ len = Len(st)
  OBVIOUS
<1>10. /\ len \in Nat /\ Len(tt) = len + 1 /\ DOMAIN st = 1..len /\ DOMAIN tt = 1..(len + 1)
       /\ \A n \in 1..len : tt[n] = st[n]
       /\ tt[len + 1] = e
  BY <1>1, <1>2, <1>9, AppendFacts
<1>11. \A n \in DOMAIN tt : (n \in DOMAIN st /\ tt[n] = st[n]) \/ tt[n] = e
  BY <1>10
<1>12. PagesTyped' /\ LoadsTyped'
  <2>1. PagesTyped'
    BY <1>1 DEF StayInv, PagesTyped
  <2>2. LoadsTyped'
    BY <1>5, <1>6 DEF StayInv, LoadsTyped
  <2> QED BY <2>1, <2>2
<1>13. PICK k : CountsAt(k)
  BY DEF StayInv, Counts
<1>14. CountsAt(k)'
  <2>1. k \in Nat /\ current_base = Base + k * Stride /\ Given(k + Pending, mapped)
    BY <1>13 DEF CountsAt
  <2>2. GoodBase(e, k) /\ GoodBase(t, k)
    <3>1. GoodBase(e, k)
      BY <1>7, <1>9, <1>13 DEF CountsAt
    <3> QED BY <1>5, <1>9, <3>1 DEF GoodBase
  <2>3. \A h \in Loaders : Working(task'[h]) => GoodBase(task'[h], k)
    BY <1>6, <1>13, <2>2 DEF CountsAt
  <2>4. \A n \in DOMAIN started' : GoodBase(started'[n], k)
    BY <1>9, <1>11, <1>13, <2>2 DEF CountsAt
  <2>5. Pending' = Pending
    BY <1>8
  <2> QED BY <1>1, <2>1, <2>3, <2>4, <2>5 DEF CountsAt
<1>15. ListsMatch'
  <2>1. PICK a, x, y, u, v : /\ a = Len(loaded) /\ x = Late(task["preload"]) /\ y = Late(task["kterm"])
                             /\ u = Late(task'["preload"]) /\ v = Late(task'["kterm"])
    OBVIOUS
  <2>2. x \in {0, 1} /\ y \in {0, 1} /\ u \in {0, 1} /\ v \in {0, 1} /\ u + v = x + y - 0 + 1
    BY <1>8, <2>1, PendTypes
  <2>3. a \in Nat
    BY <2>1 DEF LoadInv, WellFormed
  <2>4. a + x + y = len
    BY <1>9, <2>1 DEF StayInv, ListsMatch
  <2>5. a + u + v = len + 1
    BY <2>2, <2>3, <2>4
  <2> QED BY <1>1, <1>9, <1>10, <2>1, <2>5 DEF ListsMatch
<1>16. ASSUME patient' PROVE Kept'
  <2>1. patient /\ Kept
    BY <1>1, <1>16 DEF StayInv
  <2>2. Exclusive'
    BY <1>1, <1>2, <1>4, <1>7, <2>1, ExclusiveGoes DEF Kept
  <2>3. PICK b, mp : b = current_base /\ mp = mapped
    OBVIOUS
  <2>4. PlacedRight(e, b, mp) /\ e.pc = "start"
    BY <1>1, <1>9, <2>1, <2>3 DEF Kept
  <2>5. e.base + Stride <= b /\ Whole(e, mp)
    BY <2>4 DEF PlacedRight
  <2>6. PlacedRight(t, b, mp)
    <3>1. t.file = e.file /\ t.base = e.base /\ t.load = e.load
      BY <1>5, <1>9
    <3>2. Whole(t, mp)
      BY <2>5, <3>1, WholeSame
    <3> QED BY <1>5, <2>5, <3>1, <3>2 DEF PlacedRight
  <2>7. \A h \in Loaders : PlacedRight(task'[h], current_base', mapped')
    BY <1>1, <1>6, <2>1, <2>3, <2>6 DEF Kept
  <2>8. \A n \in DOMAIN started' : StartedRight(started'[n], current_base', mapped')
    <3>1. \A n \in DOMAIN st : StartedRight(st[n], b, mp)
      BY <1>9, <2>1, <2>3 DEF Kept
    <3>2. StartedRight(e, b, mp)
      BY <2>5 DEF StartedRight
    <3>3. \A n \in DOMAIN tt : StartedRight(tt[n], b, mp)
      BY <1>11, <3>1, <3>2
    <3> QED BY <1>1, <1>9, <2>3, <3>3
  <2> QED BY <2>2, <2>7, <2>8 DEF Kept
<1> QED BY <1>12, <1>14, <1>15, <1>16 DEF StayInv, Counts

\* A module is placed at the base that was read for it.
LEMMA PlaceStays ==
    ASSUME FilesFit, LoadInv, StayInv, NEW l \in Loaders, Place(l) PROVE StayInv'
<1>1. /\ UNCHANGED <<current_base, loaded, started, patient, todo>> /\ task[l].pc = "place"
  BY DEF Place, At
<1>2. task = [k \in Loaders |-> task[k]] /\ IsTask(task[l]) /\ current_base \in Nat
  BY DEF LoadInv, WellFormed
<1>3. CASE Refuse(l) /\ UNCHANGED mapped
  BY <1>1, <1>3, RefuseStays DEF At
<1> DEFINE Loads == {0} \union {task[k].load : k \in Loaders} \union {mapped[p][1] : p \in {q \in DOMAIN mapped : mapped[q] # <<>>}}
<1>4. CASE ~ (Refuse(l) /\ UNCHANGED mapped)
  <2>1. PICK n : n = 1 + Max(Loads)
    OBVIOUS
  <2>2. /\ n <= MaxLoads /\ mapped' = Placed(task[l].file, task[l].base, n)
        /\ task' = [task EXCEPT ![l].pc = "relocate", ![l].load = n]
    BY <1>4, <2>1 DEF Place
  <2>3. mapped = [p \in PageSet |-> mapped[p]] /\ \A p \in PageSet : IsMapped(mapped[p])
    BY DEF StayInv, PagesTyped
  <2>4. PICK mp, top : mp = mapped /\ top = Max(Loads)
    OBVIOUS
  <2>5. top \in Nat /\ \A p \in PageSet : mp[p] # <<>> => mp[p][1] <= top
    <3>1. MaxLoads \in Nat
      BY Units
    <3>2. DOMAIN mapped = PageSet
      BY <2>3
    <3>3. \A p \in PageSet : mapped[p] # <<>> => mapped[p][1] \in 0..MaxLoads
      BY <2>3, <3>1 DEF IsMapped
    <3>4. Loads \in SUBSET (0..MaxLoads) /\ Loads # {}
      BY <3>1, <3>2, <3>3 DEF StayInv, LoadsTyped
    <3>5. \A p \in PageSet : mapped[p] # <<>> => mapped[p][1] \in Loads
      BY <3>2
    <3> HIDE DEF Loads
    <3>6. Max(Loads) \in Loads /\ \A y \in Loads : y <= Max(Loads)
      BY <3>1, <3>4, MaxFacts
    <3>7. top \in 0..MaxLoads /\ \A y \in Loads : y <= top
      BY <2>4, <3>4, <3>6
    <3>8. \A p \in PageSet : mp[p] # <<>> => mp[p][1] \in Loads
      BY <2>4, <3>5
    <3>9. top \in Nat
      BY <3>1, <3>7
    <3> QED BY <3>7, <3>8, <3>9
  <2> HIDE DEF Loads
  <2>6. n = top + 1 /\ n \in 1..MaxLoads
    BY <2>1, <2>2, <2>4, <2>5, Units
  <2>7. PICK t : t = [[task[l] EXCEPT !.pc = "relocate"] EXCEPT !.load = n]
    OBVIOUS
  <2>8. task' = [task EXCEPT ![l] = t]
    BY <1>2, <2>2, <2>7
  <2>9. t.pc = "relocate" /\ t.file = task[l].file /\ t.base = task[l].base /\ t.load = n
    BY <1>2, <2>7 DEF IsTask
  <2>10. task'[l] = t /\ \A h \in Loaders : h # l => task'[h] = task[h]
    BY <1>2, <2>8, UpdateFacts
  <2>11. Pend(t) = 1 /\ Late(t) = 0 /\ Pend(task[l]) = 0 /\ Late(task[l]) = 0 /\ Working(task[l])
    BY <1>1, <2>9 DEF Pend, Late, Working
  <2>12. /\ Pending \in Nat /\ Pending' = Pending - 0 + 1
         /\ Late(task'["preload"]) + Late(task'["kterm"]) = Late(task["preload"]) + Late(task["kterm"]) - 0 + 0
    BY <1>2, <2>8, <2>11, Sums
  <2>13. PICK k : CountsAt(k)
    BY DEF StayInv, Counts
  <2>14. k \in Nat /\ current_base = Base + k * Stride /\ Given(k + Pending, mp)
    BY <2>4, <2>13 DEF CountsAt
  <2>15. k + Pending <= top
    <3>1. CASE k + Pending = 0
      BY <2>5, <3>1
    <3>2. CASE k + Pending # 0
      <4>1. PICK p \in PageSet : mp[p] # <<>> /\ mp[p][1] >= k + Pending
        BY <2>14, <3>2 DEF Given
      <4>2. mp[p][1] \in 1..MaxLoads /\ mp[p][1] <= top
        BY <2>3, <2>4, <2>5, <4>1 DEF IsMapped
      <4> QED BY <2>5, <2>12, <2>14, <4>1, <4>2
    <3> QED BY <3>1, <3>2
  <2>16. k + 1 <= MaxLoads
    <3>1. PICK a : a = Pending
      OBVIOUS
    <3>2. a \in Nat /\ k \in Nat /\ top \in Nat /\ k + a <= top
      BY <2>5, <2>12, <2>14, <2>15, <3>1
    <3>3. top + 1 <= MaxLoads
      BY <2>6
    <3>4. MaxLoads \in Nat
      BY Units
    <3>5. k <= top
      BY <3>2
    <3> QED BY <3>2, <3>3, <3>4, <3>5
  <2>17. GoodBase(task[l], k) /\ GoodBase(t, k) /\ Fits(t.file)
    <3>1. GoodBase(task[l], k)
      BY <2>11, <2>13 DEF CountsAt
    <3>2. task[l].file \in Loadable
      BY <1>1, <1>2 DEF IsTask, Busy
    <3> QED BY <2>9, <3>1, <3>2 DEF GoodBase, FilesFit
  <2>18. PICK q \in Nat : t.base = PageSz * q /\ Pages(q) \subseteq PageSet
    <3>1. Based(t.base, k)
      BY <2>17 DEF GoodBase
    <3> QED BY <2>14, <2>16, <3>1, BaseFacts
  <2>19. PICK np : np = mapped'
    OBVIOUS
  <2>20. np = PlacedIn(t.file, t.base, t.load, mp)
    <3>1. DOMAIN mapped = PageSet
      BY <2>3
    <3>2. Placed(task[l].file, task[l].base, n) = PlacedIn(task[l].file, task[l].base, n, mapped)
      BY <3>1 DEF Placed, PlacedIn
    <3> QED BY <2>2, <2>4, <2>9, <2>19, <3>2
  <2>21. /\ Whole(t, np) /\ Given(t.load, np)
         /\ np = [p \in PageSet |-> np[p]] /\ \A p \in PageSet : IsMapped(np[p])
         /\ \A p \in PageSet : p \notin Pages(q) => np[p] = mp[p]
    <3>1. t.load \in 1..MaxLoads /\ \A p \in PageSet : IsMapped(mp[p])
      BY <2>3, <2>4, <2>6, <2>9
    <3> QED BY <2>17, <2>18, <2>20, <3>1, WholePlaced
  <2>22. PagesTyped' /\ LoadsTyped'
    <3>1. PagesTyped'
      BY <2>19, <2>21 DEF PagesTyped
    <3>2. n \in 0..MaxLoads
      BY <2>6
    <3>3. LoadsTyped'
      BY <2>9, <2>10, <3>2 DEF StayInv, LoadsTyped
    <3> QED BY <3>1, <3>3
  <2>23. CountsAt(k)'
    <3>1. Given(k + Pending', mapped')
      <4>1. PICK a : a = k + Pending'
        OBVIOUS
      <4>2. a \in Nat /\ n \in Nat /\ a <= n
        BY <2>5, <2>6, <2>12, <2>14, <2>15, <4>1
      <4>3. Given(n, np)
        BY <2>9, <2>21
      <4>4. Given(a, np)
        BY <2>21, <4>2, <4>3, GivenLess
      <4> QED BY <2>19, <4>1, <4>4
    <3>2. \A h \in Loaders : Working(task'[h]) => GoodBase(task'[h], k)
      BY <2>10, <2>13, <2>17 DEF CountsAt
    <3>3. \A m \in DOMAIN started' : GoodBase(started'[m], k)
      BY <1>1, <2>13 DEF CountsAt
    <3> QED BY <1>1, <2>14, <3>1, <3>2, <3>3 DEF CountsAt
  <2>24. ListsMatch'
    <3>1. PICK a, x, y, u, v : /\ a = Len(loaded) /\ x = Late(task["preload"]) /\ y = Late(task["kterm"])
                               /\ u = Late(task'["preload"]) /\ v = Late(task'["kterm"])
      OBVIOUS
    <3>2. x \in {0, 1} /\ y \in {0, 1} /\ u \in {0, 1} /\ v \in {0, 1} /\ u + v = x + y - 0 + 0
      BY <2>12, <3>1, PendTypes
    <3>3. a \in Nat
      BY <3>1 DEF LoadInv, WellFormed
    <3>4. a + u + v = a + x + y
      BY <3>2, <3>3
    <3> QED BY <1>1, <3>1, <3>4 DEF StayInv, ListsMatch
  <2>25. ASSUME patient' PROVE Kept'
    <3>1. patient /\ Kept
      BY <1>1, <2>25 DEF StayInv
    <3>2. Exclusive' /\ \A h \in Loaders : h # l => ~ Working(task[h])
      BY <1>1, <1>2, <2>8, <2>11, <3>1, ExclusiveGoes DEF Kept
    <3>3. t.base = current_base
      BY <1>1, <2>9, <3>1 DEF Kept, PlacedRight
    <3>4. PlacedRight(t, current_base', mapped')
      BY <1>1, <2>9, <2>19, <2>21, <3>3 DEF PlacedRight
    <3>5. \A h \in Loaders : PlacedRight(task'[h], current_base', mapped')
      <4> TAKE h \in Loaders
      <4>1. CASE h = l
        BY <2>10, <3>4, <4>1
      <4>2. CASE h # l
        BY <2>10, <3>2, <4>2 DEF Working, PlacedRight
      <4> QED BY <4>1, <4>2
    <3>6. ASSUME NEW d \in DOMAIN started PROVE StartedRight(started[d], current_base, mapped')
      <4>1. PICK m : m = started[d]
        OBVIOUS
      <4>2. m.base + Stride <= t.base /\ Whole(m, mp)
        BY <2>4, <3>1, <3>3, <4>1 DEF Kept, StartedRight
      <4>3. Based(m.base, k) /\ module_read(m.file) /\ m.file \in Loadable
        BY <2>13, <4>1 DEF CountsAt, GoodBase, LoadInv, WellFormed, Busy
      <4>4. Fits(m.file)
        BY <4>3 DEF FilesFit
      <4>5. PICK r \in Nat : m.base = PageSz * r /\ (k + 1 <= MaxLoads => Pages(r) \subseteq PageSet)
        BY <2>14, <4>3, BaseFacts
      <4>6. Pages(r) \subseteq PageSet
        BY <2>16, <4>5
      <4>7. Pages(r) \cap Pages(q) = {}
        BY <2>18, <4>2, <4>5, ApartPages
      <4>8. \A p \in Pages(r) : np[p] = mp[p]
        BY <2>21, <4>6, <4>7
      <4>9. Whole(m, np)
        BY <4>2, <4>4, <4>5, <4>8, WholeKept
      <4> QED BY <2>19, <3>3, <4>1, <4>2, <4>9 DEF StartedRight
    <3>7. \A m \in DOMAIN started' : StartedRight(started'[m], current_base', mapped')
      BY <1>1, <3>6
    <3> QED BY <3>2, <3>5, <3>7 DEF Kept
  <2> QED BY <2>22, <2>23, <2>24, <2>25 DEF StayInv, Counts
<1> QED BY <1>3, <1>4

LEMMA StayInit == Init => StayInv
<1> SUFFICES ASSUME Init PROVE StayInv
  OBVIOUS
<1>1. task["preload"] = NoTask /\ task["kterm"] = NoTask /\ \A l \in Loaders : task[l] = NoTask
  BY DEF Init, Loaders
<1>2. NoTask.pc = "idle" /\ NoTask.load = 0 /\ ~ Working(NoTask) /\ Pend(NoTask) = 0 /\ Late(NoTask) = 0
  BY DEF NoTask, Working, Pend, Late
<1>3. started = <<>> /\ loaded = <<>> /\ current_base = Base /\ mapped = [p \in PageSet |-> <<>>]
  BY DEF Init, PageSet
<1>4. CountsAt(0)
  <2>1. Base = Base + 0 * Stride
    BY Units
  <2>2. Given(0 + Pending, mapped)
    <3>1. 0 + Pending = 0
      BY <1>1, <1>2 DEF Pending
    <3> QED BY <3>1 DEF Given
  <2> QED BY <1>1, <1>2, <1>3, <2>1, <2>2 DEF CountsAt
<1>5. PagesTyped /\ LoadsTyped
  <2>1. PagesTyped
    BY <1>3 DEF PagesTyped, IsMapped
  <2>2. LoadsTyped
    BY <1>1, <1>2, Units DEF LoadsTyped
  <2> QED BY <2>1, <2>2
<1>6. ListsMatch
  BY <1>1, <1>2, <1>3 DEF ListsMatch
<1>7. Kept
  <2>1. Exclusive
    BY <1>1, <1>2 DEF Exclusive
  <2>2. \A l \in Loaders : PlacedRight(task[l], current_base, mapped)
    BY <1>1, <1>2 DEF PlacedRight
  <2> QED BY <1>3, <2>1, <2>2 DEF Kept
<1> QED BY <1>4, <1>5, <1>6, <1>7 DEF StayInv, Counts

LEMMA StayNext == FilesFit /\ LoadInv /\ StayInv /\ [Next]_vars => StayInv'
<1> SUFFICES ASSUME FilesFit, LoadInv, StayInv, [Next]_vars PROVE StayInv'
  OBVIOUS
<1>1. CASE ReadNext
  <2>1. PICK f : f = Head(todo)
    OBVIOUS
  <2>2. Read("preload", f) /\ todo # <<>> /\ task["preload"].pc = "idle" /\ "preload" \in Loaders
    BY <1>1, <2>1 DEF ReadNext, Read, At, Loaders
  <2>3. patient => task["kterm"].pc = "idle"
    BY <2>2 DEF StayInv, Kept, Exclusive
  <2>4. patient => \A k \in Loaders : k # "preload" => ~ Working(task[k])
    BY <2>3 DEF Loaders, Working
  <2> QED BY <2>2, <2>3, <2>4, ReadStays
<1>2. ASSUME NEW f \in KtermFiles, ReadGiven(f) PROVE StayInv'
  <2>1. Read("kterm", f) /\ "kterm" \in Loaders
    BY <1>2 DEF ReadGiven, Loaders
  <2>2. patient => task["preload"].pc = "stopped" \/ (task["preload"].pc = "idle" /\ todo' = <<>>)
    BY <1>2 DEF ReadGiven, At
  <2>3. patient => \A k \in Loaders : k # "kterm" => ~ Working(task[k])
    BY <2>2 DEF Loaders, Working
  <2> QED BY <2>1, <2>2, <2>3, ReadStays
<1>3. ASSUME NEW l \in Loaders,
             Place(l) \/ Relocate(l) \/ Bump(l) \/ Check(l) \/ Start(l) \/ Enlist(l)
      PROVE  StayInv'
  BY <1>3, PlaceStays, RelocateStays, BumpStays, CheckStays, StartStays, EnlistStays
<1>4. CASE UNCHANGED vars
  BY <1>4 DEF vars, StayInv, Counts, CountsAt, Pending, PagesTyped, LoadsTyped, ListsMatch, Kept, Exclusive
<1> QED BY <1>1, <1>2, <1>3, <1>4 DEF Next

LEMMA StaySuffices ==
    ASSUME LoadInv, StayInv PROVE SectionsStay
<1>1. PICK k : CountsAt(k)
  BY DEF StayInv, Counts
<1>2. k \in Nat /\ current_base = Base + k * Stride /\ Given(k + Pending, mapped)
  BY <1>1 DEF CountsAt
<1>3. k \in 0..MaxLoads
  <2>1. PICK a, b, mp : a = Pend(task["preload"]) /\ b = Pend(task["kterm"]) /\ mp = mapped
    OBVIOUS
  <2>2. a \in {0, 1} /\ b \in {0, 1} /\ Pending = a + b
    BY <2>1, PendTypes DEF Pending
  <2>3. PICK c : c = k + Pending
    OBVIOUS
  <2>4. c \in Nat /\ k <= c /\ Given(c, mp) /\ \A p \in PageSet : IsMapped(mp[p])
    BY <1>2, <2>1, <2>2, <2>3 DEF StayInv, PagesTyped
  <2>5. c <= MaxLoads
    BY <1>2, <2>4, GivenLess
  <2> QED BY <1>2, <2>4, <2>5, Units
<1>4. TypeOK
  <2>1. current_base \in {Base + i * Stride : i \in 0 .. MaxLoads}
    BY <1>2, <1>3
  <2>2. \A p \in DOMAIN mapped :
          mapped[p] = <<>> \/ (mapped[p][1] \in 1 .. MaxLoads /\ mapped[p][2] \in {"prog", "nobits"})
    <3>1. DOMAIN mapped = PageSet
      BY DEF StayInv, PagesTyped
    <3> QED BY <3>1 DEF StayInv, PagesTyped, IsMapped
  <2>3. Len(loaded) <= Len(started)
    <3>1. PICK a, x, y : a = Len(loaded) /\ x = Late(task["preload"]) /\ y = Late(task["kterm"])
      OBVIOUS
    <3>2. x \in {0, 1} /\ y \in {0, 1} /\ a + x + y = Len(started)
      BY <3>1, PendTypes DEF StayInv, ListsMatch
    <3>3. a \in Nat
      BY <3>1 DEF LoadInv, WellFormed
    <3> QED BY <3>1, <3>2, <3>3
  <2> QED BY <2>1, <2>2, <2>3 DEF TypeOK, StayInv, LoadsTyped
<1>5. patient => SectionsWhole
  BY DEF StayInv, Kept, StartedRight, Whole, SectionsWhole
<1> QED BY <1>4, <1>5 DEF SectionsStay

\* When modules are loaded one after the other, every section of a module that was
\* started is and stays where its relocations say, whichever files there are, also when
\* a relocation or a requirement fails in between: neither the module's own data nor a
\* module placed later covers it.
THEOREM SectionsCorrect == FilesFit /\ Spec => []SectionsStay
<1> SUFFICES ASSUME FilesFit PROVE Spec => []SectionsStay
  OBVIOUS
<1>1. LoadInv /\ StayInv /\ [Next]_vars => StayInv'
  BY StayNext
<1>2. LoadInv /\ StayInv => SectionsStay
  BY StaySuffices
<1> QED BY <1>1, <1>2, StayInit, InitInv, NextInv, PTL DEF Spec
=============================================================================
