----------------------------- MODULE MCJsonlLog ------------------------------
(* Four threads, two of them in one process; one in each of two processes      *)
(* claims the same thing, as two submitters binding one expectation do, and    *)
(* the others append without a precondition.                                   *)
EXTENDS JsonlLog

MCProcessOf == [t \in Threads |-> IF t \in {"ui1", "ui2"} THEN "ui" ELSE t]
MCClaimOf   == [t \in Threads |-> IF t \in {"ui1", "cli"} THEN "e1" ELSE NoClaim]
=============================================================================
