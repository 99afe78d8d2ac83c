------------------------------ MODULE MCSched ------------------------------
(* Instances of Sched.                                                       *)
EXTENDS Sched, TLC
CONSTANTS idle, main, u1, u2, u3, u4
MCThreads4 == {idle, main, u1, u2}
MCThreads5 == {idle, main, u1, u2, u3}
MCThreads6 == {idle, main, u1, u2, u3, u4}
MCCreators == {main, u1, u2}
MCKernel == {idle, main}
MCReaper == {u1}
MCReapers == {u1, u2}
MCNobody == {}
MCBlockers == {main, u1, u2}
MCMain == {main}
MCSymmetry == Permutations({u1, u2}) \cup Permutations({u3, u4})
=============================================================================
