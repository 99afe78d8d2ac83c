------------------------------ MODULE MCTasks ------------------------------
(* Instances of Tasks.                                                       *)
EXTENDS Tasks
=============================================================================
