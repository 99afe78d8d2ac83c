------------------------------ MODULE MCAlloc ------------------------------
(* Instances of Alloc.                                                       *)
EXTENDS Alloc
MCUniform == {<<4, 8>>}
MCTwoAligns == {<<4, 4>>, <<4, 8>>}
MCMixed == {<<4, 4>>, <<8, 4>>}
MCSmall == {<<4, 4>>}
MCGarbage == {[valid |-> TRUE, used |-> FALSE, addr |-> 4, size |-> 8]}
MCUser == {8}
MCUserSmall == {4}
MCNoUser == {}
MCNoKernel == {}
MCClean == {}
=============================================================================
