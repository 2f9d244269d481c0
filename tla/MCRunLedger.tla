---------------------------- MODULE MCRunLedger ------------------------------
(* Small instances of RunLedger: which backend, task, project and declared    *)
(* ceiling each run has.  A run is named for its backend.                     *)
EXTENDS RunLedger, TLC

MCPlatform ==
    [r \in Runs |-> CASE r = "hf" -> "hf_jobs" [] r = "gpu" -> "ssh" [] OTHER -> "kaggle"]

MCTask == [x \in Runs \cup Expectations |-> "task"]

\* A spec that says 0, or less, gets one run at a time, as one that says 1 does.
MCDeclared == [r \in Runs |-> IF r = "gpu" THEN 0 ELSE 1]

MCProjectOf == [r \in Runs |-> IF r \in {"hf", "gpu"} THEN "proj" ELSE "unassigned"]

MCAllocation == [p \in {"proj"} |-> 3]

\* What the project's campaigns may book beside its runs.
MCNoCandidates == [p \in {"proj"} |-> 0]
MCCandidates   == [p \in {"proj"} |-> 2]

\* The instance in which runs, like the predictions of one task, may be exchanged.
MCJobs        == [r \in Runs |-> "hf_jobs"]
MCProjectJobs == [r \in Runs |-> "proj"]
MCSlot        == [r \in Runs |-> 1]
MCSymmetry    == Permutations(Expectations) \cup Permutations(Runs)
=============================================================================
