-------------------------------- MODULE Heap --------------------------------
(***************************************************************************)
(* What an allocator promises (kernel/inc/mm/alloc.h, user/lib/inc/        *)
(* stdlib.h): a block that is handed out lies in the memory it was given,  *)
(* is aligned as requested and shares no byte with a block that is still   *)
(* in use, nor, when one is reallocated, with the one it replaces.         *)
(***************************************************************************)
EXTENDS Naturals

CONSTANTS
    Base, Size,     \* the memory given to init_alloc
    Requests        \* the <<size, alignment>> pairs asked for

VARIABLE held       \* the blocks in use: [addr, size]

Block == [addr : Base..(Base + Size), size : {r[1] : r \in Requests}]

\* The bytes a block (or any record with an addr and a size) occupies.
Bytes(b) == b.addr..(b.addr + b.size - 1)

Init == held = {}

\* The blocks that may be handed out.
Available(sz, align) ==
    { b \in Block :
        /\ b.size = sz
        /\ b.addr % align = 0
        /\ Bytes(b) \subseteq Base..(Base + Size - 1)
        /\ \A other \in held : Bytes(b) \cap Bytes(other) = {} }

Allocate(sz, align) == \E b \in Available(sz, align) : held' = held \cup {b}

Free == \E b \in held : held' = held \ {b}

Reallocate(sz, align) ==
    \E b \in held, new \in Available(sz, align) : held' = (held \ {b}) \cup {new}

Next == Free \/ \E r \in Requests : Allocate(r[1], r[2]) \/ Reallocate(r[1], r[2])

Spec == Init /\ [][Next]_held
=============================================================================
