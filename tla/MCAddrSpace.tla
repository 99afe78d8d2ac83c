---------------------------- MODULE MCAddrSpace ----------------------------
(* An instance of AddrSpace: three processes, frames for two forks and an    *)
(* execve, or for pages in their place.                                      *)
EXTENDS AddrSpace
\* Anywhere, over the program, at the address of a frame that was handed out, and at one that
\* was not.
MCRequests == {<<0, FALSE>>, <<Code, TRUE>>, <<2, TRUE>>, <<MaxFrames, TRUE>>}
\* A kernel that has gone wrong takes no more steps.  Frames are handed out once, so what is
\* in one that no program can reach any more is never read again.
Reached == UNION {FramesOf(p, UserPages(p)) : p \in Live}
MCView ==
    IF fault # "no" THEN <<fault>>
    ELSE <<status, tables, maps, ended, arguments, mixed, next, stores,
           [f \in Frames |-> IF f \in Reached THEN mem[f] ELSE 0]>>
=============================================================================
