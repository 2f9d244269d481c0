------------------------------ MODULE Admission ------------------------------
(***************************************************************************)
(* What the submit path promises, without processes or locks: a run is     *)
(* admitted in one step, in which its prediction is unused, the spend      *)
(* ceilings have room for its estimate and a slot is free.  Smoke runs     *)
(* take room without asking; closing a run settles what it counts for.     *)
(*                                                                         *)
(* A closed run may be closed again, at another cost: nothing on the write *)
(* path of the code forbids it, and the promise does not pretend so.       *)
(***************************************************************************)
EXTENDS Integers, FiniteSets, Functions

CONSTANTS Runs, Expectations, NoExp, SmokeCap, PerJob, Monthly,
          Ceiling       \* the concurrency ceiling each run was specified with

VARIABLES
    phase,              \* absent, open or closed
    bound,              \* the prediction a run covers
    charge              \* what it counts for against the monthly ceiling

vars == <<phase, bound, charge>>

Open  == {r \in Runs : phase[r] = "open"}
Total == SumFunctionOnSet(charge, Runs)

Init ==
    /\ phase = [r \in Runs |-> "absent"]
    /\ bound = [r \in Runs |-> NoExp]
    /\ charge = [r \in Runs |-> 0]

Enter(r, e, cost) ==
    /\ phase[r] = "absent"
    /\ phase' = [phase EXCEPT ![r] = "open"]
    /\ bound' = [bound EXCEPT ![r] = e]
    /\ charge' = [charge EXCEPT ![r] = cost]

Admit(r, e, cost) ==
    /\ e \notin {bound[s] : s \in Runs}
    /\ cost <= PerJob /\ Total + cost <= Monthly
    /\ Cardinality(Open) < Ceiling[r]
    /\ Enter(r, e, cost)

Smoke(r) == Enter(r, NoExp, SmokeCap)

Close(r, cost) ==
    /\ phase[r] # "absent"
    /\ phase' = [phase EXCEPT ![r] = "closed"]
    /\ charge' = [charge EXCEPT ![r] = cost]
    /\ UNCHANGED bound

\* The run leaves the rolling window.
Lapse(r) ==
    /\ phase[r] # "absent"
    /\ charge' = [charge EXCEPT ![r] = 0]
    /\ UNCHANGED <<phase, bound>>

Next ==
    \E r \in Runs :
        \/ \E e \in Expectations, cost \in 0 .. PerJob : Admit(r, e, cost)
        \/ Smoke(r)
        \/ Close(r, charge'[r])
        \/ Lapse(r)

Spec == Init /\ [][Next]_vars
=============================================================================
