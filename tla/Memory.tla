------------------------------- MODULE Memory -------------------------------
(***************************************************************************)
(* What fork, execve and mmap promise a program: every process has a       *)
(* memory of its own.                                                      *)
(***************************************************************************)
CONSTANTS Procs, Pages, Values, None,
          Code,       \* the page a program is loaded at
          StackPages, \* the pages of its stack
          Cell,       \* the one that receives the result of fork
          Program     \* what a program file holds
VARIABLES live,       \* the processes that run a program
          space       \* what each of them has at each page: a value, or None

Mapped(p) == {v \in Pages : space[p][v] # None}
Empty == [v \in Pages |-> None]

Init == live = {} /\ space = [p \in Procs |-> Empty]

\* The memory of the others stays as it is, and of p all but a few pages.
Alone(p) == \A q \in Procs \ {p} : space'[q] = space[q]
Changed(p) == {v \in Pages : space'[p][v] # space[p][v]}

\* A store changes one page of the process that executes it, and nothing else.
Store(p) ==
    /\ live' = live /\ Alone(p)
    /\ \E v \in Mapped(p) : Changed(p) \subseteq {v} /\ space'[p][v] \in Values

\* fork: the child has a copy of its parent's memory; it finds 0 as the result.
Fork(p) ==
    \E c \in Procs \ live :
        /\ live' = live \union {c}
        /\ space' = [space EXCEPT ![c] = [space[p] EXCEPT ![Cell] = 0], ![p][Cell] = 1]

\* mmap: one more page, or another one in the place of a page.
Map(p) ==
    /\ live' = live /\ Alone(p)
    /\ space'[p][Cell] = 1
    /\ \E v \in Pages : Changed(p) \subseteq {v, Cell} /\ space'[p][v] \in Values

\* execve: the program, a stack, a page of arguments, and nothing of what was before.
Exec(p) ==
    /\ live' = live \union {p} /\ Alone(p)
    /\ space'[p][Code] = Program
    /\ \E arguments \in Pages :
          \A v \in Pages : space'[p][v] # None <=> v \in {Code, arguments} \union StackPages

\* exit.
End(p) == live' = live \ {p} /\ space' = [space EXCEPT ![p] = Empty]

Next ==
    \/ \E p \in Procs : Exec(p)
    \/ \E p \in live : Store(p) \/ Fork(p) \/ Map(p) \/ End(p)

Spec == Init /\ [][Next]_<<live, space>>
=============================================================================
