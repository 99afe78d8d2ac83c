-------------------------------- MODULE Fifo --------------------------------
(***************************************************************************)
(* What a circular buffer (kernel/inc/data/types/cbuff.h) promises: a      *)
(* bounded queue.  A step appends at one end, or takes from the other.     *)
(***************************************************************************)
EXTENDS Naturals, Sequences

CONSTANT Cap    \* cbuff_t.size
VARIABLE q      \* the bytes, oldest first

Init == q = <<>>

Put ==
    /\ Len(q') \in Len(q)..Cap
    /\ SubSeq(q', 1, Len(q)) = q

Get == \E n \in 1..Len(q) : q' = SubSeq(q, n + 1, Len(q))

Next == Put \/ Get

Spec == Init /\ [][Next]_q
=============================================================================
