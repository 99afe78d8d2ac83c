------------------------------ MODULE MCLList ------------------------------
(* Instances of LList: items, writers and readers are model values.         *)
EXTENDS LList
CONSTANTS i1, i2, i3, i4, w1, w2, r1
MCItems3 == {i1, i2, i3}
MCItems4 == {i1, i2, i3, i4}
MCWriters1 == {w1}
MCWriters2 == {w1, w2}
MCReaders == {r1}
MCNoReaders == {}
MCBoth == {TRUE, FALSE}
MCPreemptible == {TRUE}
=============================================================================
