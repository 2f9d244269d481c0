------------------------------ MODULE MCTasks --------------------------------
(* Small instances of Tasks.  There is no symmetry to take: the run checks      *)
(* liveness, and the two tasks differ.                                         *)
EXTENDS Tasks
=============================================================================
