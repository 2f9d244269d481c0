----------------------------- MODULE MCWakeups -------------------------------
(* Small instances of Wakeups: two wakes where liveness is checked, so that      *)
(* there is no symmetry to take.                                                 *)
EXTENDS Wakeups
=============================================================================
