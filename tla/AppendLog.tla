------------------------------ MODULE AppendLog ------------------------------
(***************************************************************************)
(* What core/jsonl.py promises its callers, without files, lines or locks: *)
(* a ledger is a sequence of records that only ever grows at its end, and  *)
(* a record is appended in the same instant as its precondition is         *)
(* evaluated (`append`'s docstring: "atomic with the append rather than a  *)
(* check that another process can win the race against").                  *)
(*                                                                         *)
(* The precondition is the one the callers pass in one form or another, a  *)
(* uniqueness check: no record already carries the claim (the expectation, *)
(* the project id) that this record makes.  An append may have none.       *)
(***************************************************************************)
EXTENDS Sequences, SequencesExt

CONSTANTS
    Records,      \* the records that may be appended
    Claim,        \* the claim a record makes, unique in the ledger
    NoClaim       \* that of a record appended without a precondition

VARIABLE log      \* the records a reader gets, oldest first

Claims(records) == {Claim[r] : r \in ToSet(records)}

Init == log = <<>>

Commit(r) ==
    /\ Claim[r] = NoClaim \/ Claim[r] \notin Claims(log)
    /\ log' = Append(log, r)

Next == \E r \in Records : Commit(r)

Spec == Init /\ [][Next]_log
=============================================================================
