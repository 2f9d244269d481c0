----------------------------- MODULE RunLedger -------------------------------
(***************************************************************************)
(* The run ledger and every command that writes it: the submitters of the  *)
(* four backends (tools/jobs.py, gpu.py, kaggle.py, modal.py) with their   *)
(* gates (core/gates.py) and their shared protocol (core/submit.py), the   *)
(* commands an operator gives afterwards (collect, ledger abandon, kaggle  *)
(* forget, ledger verdict), and the two other writers of what the gates    *)
(* read: the expectations (ledger expect, ledger falsify) and the          *)
(* campaigns that bind one (evolve run).                                   *)
(*                                                                         *)
(* Every command is a process of its own, and they share nothing but the   *)
(* ledger files.  runs.jsonl is modelled by its fold (core/ledger_store.py *)
(* `runs`): rec[r] is what the events of run r fold to, and an append is   *)
(* one step because the file is locked around it (module JsonlLog).  A     *)
(* submission holds that lock across the checks it repeats, so it takes    *)
(* the lock, checks and writes in steps of its own; the other ledgers      *)
(* have other locks and move while it does.                                *)
(*                                                                         *)
(* A run is named by the submission that makes it.  A submission that is   *)
(* refused leaves no record and may be made again.                         *)
(***************************************************************************)
EXTENDS Integers, FiniteSets, Functions

CONSTANTS
    Runs,           \* submissions, and the runs they record
    Expectations,   \* predictions that may be minted
    Campaigns,      \* `evolve run` processes
    Operators,      \* collect, abandon, forget and verdict processes
    NoExp,          \* the expectation of a smoke run
    Nobody,         \* the holder of a free lock
    Platform,       \* the backend of each run
    Task,           \* the task of each run and each expectation
    ProjectOf,      \* the project of each run, or `unassigned`
    Declared,       \* max_concurrent of each run's spec, as written
    Estimates,      \* the estimates a spec may carry, in dollars
    Actuals,        \* the costs a collection may find
    SmokeCap,       \* the estimate of a smoke run: its cost ceiling
    PerJob,         \* [spend] per_job_usd
    Monthly,        \* [spend] monthly_usd
    Allocation,     \* the gpu_usd ceilings of the projects that have one
    Ages,           \* the runs that may leave the spend window: a bound
    Overdue,        \* the runs whose collection window may run out: a bound
    Losable,        \* the runs whose job the backend may lose: a bound
    CandidateUsd    \* what the candidates of such a project may cost: a bound

Platforms == {"hf_jobs", "ssh", "kaggle", "modal"}

ASSUME LedgerAssumption ==
    /\ IsFiniteSet(Runs)
    /\ NoExp \notin Expectations
    /\ Nobody \notin Runs
    /\ Platform \in [Runs -> Platforms]
    /\ Declared \in [Runs -> Int]
    /\ Estimates \subseteq Nat /\ Actuals \subseteq Nat
    /\ Ages \subseteq Runs /\ Overdue \subseteq Runs /\ Losable \subseteq Runs
    /\ SmokeCap \in Nat /\ PerJob \in Nat /\ Monthly \in Nat
    /\ Allocation \in [DOMAIN Allocation -> Nat]
    /\ CandidateUsd \in [DOMAIN Allocation -> Nat]

VARIABLES
    rec,            \* the fold of each run's events
    pc,             \* where each submission is
    args,           \* the --expect and the estimate it was started with, and
                    \* the candidates' cost its check under the lock found
    lock,           \* the submission that holds the lock of runs.jsonl
    job,            \* what the backend has of each run
    stale,          \* runs in flight past their collection window
    aged,           \* runs submitted before the rolling spend window
    minted,         \* expectations in expectations.jsonl
    retracted,      \* the falsified ones
    camp,           \* each campaign: its step and the expectation it names
    booked,         \* candidates.jsonl: what a project's candidates have cost
    op              \* each operator command: what it does, to which run

vars == <<rec, pc, args, lock, job, stale, aged, minted, retracted, camp, booked, op>>

ledgers == <<minted, retracted, camp, booked>>
clocks  == <<stale, aged>>

\* "completed" is what a collection wrote, its status `failed` included.
Terminal == {"completed", "submit_failed", "abandoned", "forgotten"}
Statuses == {"absent", "in_flight"} \cup Terminal
Bindable == Expectations \cup {NoExp}

Record ==
    [status  : Statuses,
     smoke   : BOOLEAN,
     exp     : Bindable,
     est     : Nat,
     act     : Nat,
     handle  : BOOLEAN,
     results : BOOLEAN,
     reported: BOOLEAN,     \* some collection of it had results
     dev     : {"none", "in_range", "open", "judged"}]

\* Mutant: the status a fold without a submission event falls back to.
NoRecordUnknown ==
    [status |-> "unknown", smoke |-> FALSE, exp |-> NoExp, est |-> 0, act |-> 0,
     handle |-> FALSE, results |-> FALSE, reported |-> FALSE, dev |-> "none"]

NoRecord ==
    [status |-> "absent", smoke |-> FALSE, exp |-> NoExp, est |-> 0, act |-> 0,
     handle |-> FALSE, results |-> FALSE, reported |-> FALSE,
     dev |-> "none"]

NoArgs == [exp |-> NoExp, est |-> 0, seen |-> 0]

-----------------------------------------------------------------------------
(* What the readers of the ledger derive from it.                          *)

Recorded(r)  == rec[r].status # "absent"
Collected(r) == rec[r].status \in Terminal
InFlight     == {r \in Runs : rec[r].status = "in_flight"}

\* Actual once collected, estimate while in flight.
CostForCeiling(r) == IF Collected(r) THEN rec[r].act ELSE rec[r].est

CostOf(S) == SumFunctionOnSet([r \in Runs |-> CostForCeiling(r)], S)

RollingSpend == CostOf({r \in Runs : Recorded(r) /\ r \notin aged})

\* The runs of a project, and what its campaigns have booked until now.
RunSpend(p)     == CostOf({r \in Runs : Recorded(r) /\ ProjectOf[r] = p})
ProjectSpend(p) == RunSpend(p) + booked[p]

RunBound      == {rec[r].exp : r \in Runs} \ {NoExp}
CampaignBound == {camp[k].exp : k \in {c \in Campaigns : camp[c].step = "open"}}
Consumed      == RunBound \cup CampaignBound \cup retracted

\* From the events, not from their fold: a later event does not take it back.
TasksWithResults == {Task[r] : r \in {s \in Runs : rec[s].reported}}

MaxConcurrent(r) == IF Declared[r] > 1 THEN Declared[r] ELSE 1

-----------------------------------------------------------------------------
(* The gates.                                                              *)

SpendAllows(r) ==
    /\ args[r].est <= PerJob
    /\ RollingSpend + args[r].est <= Monthly

\* budget.check answers nothing for no project and for one without a ceiling.
Budgeted(r) == ProjectOf[r] \in DOMAIN Allocation

ProjectAllows(r) ==
    Budgeted(r) => ProjectSpend(ProjectOf[r]) + args[r].est <= Allocation[ProjectOf[r]]

ConcurrencyAllows(r) == Cardinality(InFlight) < MaxConcurrent(r)

\* Mutants: one of the three ceilings is left out of the check under the lock.
CeilingsWithoutSlots(r)   == SpendAllows(r) /\ ProjectAllows(r)
CeilingsWithoutProject(r) == SpendAllows(r) /\ ConcurrencyAllows(r)
CeilingsWithoutSpend(r)   == ProjectAllows(r) /\ ConcurrencyAllows(r)

CeilingsAllow(r) == SpendAllows(r) /\ ProjectAllows(r) /\ ConcurrencyAllows(r)

\* Mutant: under the lock only the retractions are looked at.
BindingNotRetracted(r) == args[r].exp \notin retracted

BindingAllows(r) == args[r].exp \notin Consumed

-----------------------------------------------------------------------------
Init ==
    /\ rec = [r \in Runs |-> NoRecord]
    /\ pc = [r \in Runs |-> "idle"]
    /\ args = [r \in Runs |-> NoArgs]
    /\ lock = Nobody
    /\ job = [r \in Runs |-> "none"]
    /\ stale = {} /\ aged = {}
    /\ minted = {} /\ retracted = {}
    /\ camp = [k \in Campaigns |-> [step |-> "idle", exp |-> NoExp]]
    /\ booked = [p \in DOMAIN Allocation |-> 0]
    /\ op = [o \in Operators |-> [cmd |-> "idle", run |-> Nobody]]

(* A submission, cmd_submit of each backend.                               *)

Go(r, from, to) == pc[r] = from /\ pc' = [pc EXCEPT ![r] = to]

\* check_expectation: minted, not retracted, not consumed.
GateExpectation(r) ==
    /\ Go(r, "idle", "expected")
    /\ \E e \in minted \ Consumed, c \in Estimates :
          args' = [args EXCEPT ![r] = [exp |-> e, est |-> c, seen |-> 0]]
    /\ UNCHANGED <<rec, lock, job, clocks, ledgers, op>>

\* check_spend and check_project_spend.
GateSpend(r) ==
    /\ Go(r, "expected", "priced")
    /\ SpendAllows(r) /\ ProjectAllows(r)
    /\ UNCHANGED <<rec, args, lock, job, clocks, ledgers, op>>

\* check_stale.
GateStale(r) ==
    /\ Go(r, "priced", "current")
    /\ stale = {}
    /\ UNCHANGED <<rec, args, lock, job, clocks, ledgers, op>>

\* check_concurrency: the last gate.  After it the backend client, the
\* credential and the namespace are resolved, before any record exists.
GateConcurrency(r) ==
    /\ Go(r, "current", "gated")
    /\ ConcurrencyAllows(r)
    /\ UNCHANGED <<rec, args, lock, job, clocks, ledgers, op>>

\* Mutant: the append waits for nobody.
TakeNoLock(r) ==
    /\ Go(r, "gated", "locked")
    /\ lock' = r
    /\ UNCHANGED <<rec, args, job, clocks, ledgers, op>>

\* record_submission reaches jsonl.append and takes the lock of runs.jsonl.
TakeLock(r) ==
    /\ Go(r, "gated", "locked")
    /\ lock = Nobody
    /\ lock' = r
    /\ UNCHANGED <<rec, args, job, clocks, ledgers, op>>

\* _still_unbound: the binding again, under the lock.
RecheckBinding(r) ==
    /\ Go(r, "locked", "unbound")
    /\ BindingAllows(r)
    /\ UNCHANGED <<rec, args, lock, job, clocks, ledgers, op>>

\* _still_affordable: the ceilings again, under the lock of runs.jsonl.  The
\* candidates of the project are on a ledger with another one.
RecheckCeilings(r) ==
    /\ Go(r, "unbound", "cleared")
    /\ CeilingsAllow(r)
    /\ args' = [args EXCEPT ![r].seen = IF Budgeted(r) THEN booked[ProjectOf[r]] ELSE 0]
    /\ UNCHANGED <<rec, lock, job, clocks, ledgers, op>>

\* The run_submitted event, and the end of the lock.
WriteRecord(r) ==
    /\ Go(r, "cleared", "recorded")
    /\ rec' = [rec EXCEPT ![r] =
                 [NoRecord EXCEPT !.status = "in_flight",
                                  !.exp = args[r].exp, !.est = args[r].est]]
    /\ args' = [args EXCEPT ![r] = NoArgs]
    /\ lock' = Nobody
    /\ UNCHANGED <<job, clocks, ledgers, op>>

\* Mutant: a refusal under the lock leaves it locked.
WithdrawKeepsLock(r) ==
    /\ pc[r] \in {"expected", "priced", "current", "gated", "locked", "unbound", "cleared"}
    /\ pc' = [pc EXCEPT ![r] = "idle"]
    /\ args' = [args EXCEPT ![r] = NoArgs]
    /\ UNCHANGED <<rec, lock, job, clocks, ledgers, op>>

\* A gate refuses, the backend is misconfigured, a check under the lock
\* refuses, or the process is killed: nothing was recorded, and the lock is let
\* go if it was held.
Withdraw(r) ==
    /\ pc[r] \in {"expected", "priced", "current", "gated", "locked", "unbound", "cleared"}
    /\ pc' = [pc EXCEPT ![r] = "idle"]
    /\ args' = [args EXCEPT ![r] = NoArgs]
    /\ lock' = IF lock = r THEN Nobody ELSE lock
    /\ UNCHANGED <<rec, job, clocks, ledgers, op>>

\* --smoke: record_smoke_run skips the gates and appends without a precondition.
RecordSmoke(r) ==
    /\ Go(r, "idle", "recorded")
    /\ lock = Nobody
    /\ rec' = [rec EXCEPT ![r] =
                 [NoRecord EXCEPT !.status = "in_flight", !.smoke = TRUE, !.est = SmokeCap]]
    /\ UNCHANGED <<args, lock, job, clocks, ledgers, op>>

\* Mutant: the job is started as soon as the gates pass, before the record.
LaunchFirst(r) ==
    /\ pc[r] \in {"gated", "recorded"}
    /\ pc' = [pc EXCEPT ![r] = "launched"]
    /\ job' = [job EXCEPT ![r] = "live"]
    /\ UNCHANGED <<rec, args, lock, clocks, ledgers, op>>

\* run_job, _launch, _push, _create_sandbox: the backend takes the job.
Launch(r) ==
    /\ Go(r, "recorded", "launched")
    /\ job' = [job EXCEPT ![r] = "live"]
    /\ UNCHANGED <<rec, args, lock, clocks, ledgers, op>>

\* The call raises, whether or not the backend took the job before it did.
LaunchRaises(r) ==
    /\ Go(r, "recorded", "raised")
    /\ \E outcome \in {"none", "live"} : job' = [job EXCEPT ![r] = outcome]
    /\ UNCHANGED <<rec, args, lock, clocks, ledgers, op>>

\* Mutant: a run that produced nothing gives its prediction back.
ClosedReleased(old, status, cost, results, dev) ==
    [old EXCEPT !.status = status, !.act = cost, !.results = results, !.dev = dev,
                !.exp = IF results THEN @ ELSE NoExp]

\* What a run_collected event makes of the record: its keys overwrite.
Closed(old, status, cost, results, dev) ==
    [old EXCEPT !.status = status, !.act = cost, !.results = results, !.dev = dev,
                !.reported = IF results THEN TRUE ELSE @]

\* finish.  A collected run is not stale any more.
Finished(r, status, cost, results, dev) ==
    /\ lock = Nobody
    /\ rec' = [rec EXCEPT ![r] = Closed(rec[r], status, cost, results, dev)]
    /\ stale' = stale \ {r}

\* The handler of that exception closes the run at $0.
FinishSubmitFailed(r) ==
    /\ Go(r, "raised", "done")
    /\ Finished(r, "submit_failed", 0, FALSE, "none")
    /\ UNCHANGED <<args, lock, job, aged, ledgers, op>>

\* A smoke run on ssh or kaggle blocks on the job without recording a handle.
SmokeHasHandle(r) == Platform[r] \in {"hf_jobs", "modal"}

\* attach_handle: the run_handle event.
AttachHandle(r) ==
    /\ lock = Nobody
    /\ rec[r].smoke => SmokeHasHandle(r)
    /\ Go(r, "launched", IF rec[r].smoke THEN "watching" ELSE "done")
    /\ rec' = [rec EXCEPT ![r].handle = TRUE]
    /\ UNCHANGED <<args, lock, job, clocks, ledgers, op>>

WatchSmoke(r) ==
    /\ rec[r].smoke /\ ~SmokeHasHandle(r)
    /\ Go(r, "launched", "watching")
    /\ UNCHANGED <<rec, args, lock, job, clocks, ledgers, op>>

\* run_smoke waits for the job or for its own deadline and closes its run.
FinishSmoke(r) ==
    /\ Go(r, "watching", "done")
    /\ \E cost \in Actuals \cup {rec[r].est} : Finished(r, "completed", cost, FALSE, "none")
    /\ UNCHANGED <<args, lock, job, aged, ledgers, op>>

\* Ctrl-C, a killed agent, a lost machine, an exception no handler names: the
\* record is on the ledger and nobody is left to finish it.
Die(r) ==
    /\ pc[r] \in {"recorded", "launched", "raised", "watching"}
    /\ pc' = [pc EXCEPT ![r] = "dead"]
    /\ UNCHANGED <<rec, args, lock, job, clocks, ledgers, op>>

Submitting(r) ==
    \/ GateExpectation(r) \/ GateSpend(r) \/ GateStale(r) \/ GateConcurrency(r)
    \/ TakeLock(r) \/ RecheckBinding(r) \/ RecheckCeilings(r) \/ WriteRecord(r)
    \/ Withdraw(r) \/ RecordSmoke(r)

Launching(r) ==
    \/ Launch(r) \/ LaunchRaises(r) \/ FinishSubmitFailed(r) \/ AttachHandle(r)
    \/ WatchSmoke(r) \/ FinishSmoke(r) \/ Die(r)

-----------------------------------------------------------------------------
(* The backends, and time.                                                 *)

JobEnds(r) ==
    /\ job[r] = "live"
    /\ job' = [job EXCEPT ![r] = "ended"]
    /\ UNCHANGED <<rec, pc, args, lock, clocks, ledgers, op>>

\* A kernel deleted through the Kaggle UI, a remote directory that is cleaned up,
\* a job or a sandbox the backend no longer knows.
JobVanishes(r) ==
    /\ r \in Losable /\ job[r] \in {"live", "ended"}
    /\ job' = [job EXCEPT ![r] = "gone"]
    /\ UNCHANGED <<rec, pc, args, lock, clocks, ledgers, op>>

\* is_stale: the grace window of an uncollected run runs out.
WindowCloses(r) ==
    /\ r \in (InFlight \cap Overdue) \ stale
    /\ stale' = stale \cup {r}
    /\ UNCHANGED <<rec, pc, args, lock, job, aged, ledgers, op>>

\* rolling_spend: the submission falls out of the last thirty days.
LeavesSpendWindow(r) ==
    /\ Recorded(r) /\ r \in Ages \ aged
    /\ aged' = aged \cup {r}
    /\ UNCHANGED <<rec, pc, args, lock, job, stale, ledgers, op>>

Environment(r) == JobEnds(r) \/ JobVanishes(r) \/ WindowCloses(r) \/ LeavesSpendWindow(r)

-----------------------------------------------------------------------------
(* The operator's commands.  Each reads the ledger once, when it starts,   *)
(* and appends its event later without reading it again: require_uncollected *)
(* and the checks beside it run outside the lock.                          *)

Start(o, cmd, r) == op[o].cmd = "idle" /\ op' = [op EXCEPT ![o] = [cmd |-> cmd, run |-> r]]
End(o)           == op' = [op EXCEPT ![o] = [cmd |-> "idle", run |-> Nobody]]

\* Mutants: a collected run passes; a smoke run does not.
UncollectedOrNot(r) == Recorded(r)
UncollectedGated(r) == Recorded(r) /\ ~Collected(r) /\ ~rec[r].smoke

Uncollected(r) == Recorded(r) /\ ~Collected(r)

\* cmd_collect of the run's backend: uncollected, and it has a handle.
StartCollect(o, r) ==
    /\ Uncollected(r) /\ rec[r].handle
    /\ Start(o, "collect", r)
    /\ UNCHANGED <<rec, pc, args, lock, job, clocks, ledgers>>

\* compute_deviations: none without a prediction; with one, in range, or open
\* because it missed, nothing was reported or no program can settle it.
Deviations(r, results) ==
    IF rec[r].exp = NoExp THEN {"none"}
    ELSE IF results THEN {"in_range", "open"} ELSE {"open"}

\* The poll finds the job over; what it produced is fetched, or could not be.  A
\* platform that does not say what it cost is booked at the estimate.
FinishCollect(o) ==
    LET r == op[o].run
    IN  /\ op[o].cmd = "collect"
        /\ job[r] = "ended"
        /\ \E cost \in Actuals \cup {rec[r].est}, results \in BOOLEAN :
              \E dev \in Deviations(r, results) :
                  Finished(r, "completed", cost, results, dev)
        /\ End(o)
        /\ UNCHANGED <<pc, args, lock, job, aged, ledgers>>

\* ledger abandon: uncollected, and no handle.
StartAbandon(o, r) ==
    /\ Uncollected(r) /\ ~rec[r].handle
    /\ Start(o, "abandon", r)
    /\ UNCHANGED <<rec, pc, args, lock, job, clocks, ledgers>>

\* kaggle forget: uncollected, with a handle, and the kernel is confirmed gone
\* or the operator asserts it is.
StartForget(o, r) ==
    /\ Uncollected(r) /\ rec[r].handle /\ Platform[r] = "kaggle"
    /\ \E assumeDeleted \in BOOLEAN : assumeDeleted \/ job[r] = "gone"
    /\ Start(o, "forget", r)
    /\ UNCHANGED <<rec, pc, args, lock, job, clocks, ledgers>>

\* Either writes the run off: $0, no results, no deviations, and the binding
\* stands.
FinishWriteOff(o) ==
    /\ op[o].cmd \in {"abandon", "forget"}
    /\ Finished(op[o].run, IF op[o].cmd = "abandon" THEN "abandoned" ELSE "forgotten",
                0, FALSE, "none")
    /\ End(o)
    /\ UNCHANGED <<pc, args, lock, job, aged, ledgers>>

\* ledger verdict: the run has a deviation for the quantity.
StartVerdict(o, r) ==
    /\ rec[r].dev # "none"
    /\ Start(o, "verdict", r)
    /\ UNCHANGED <<rec, pc, args, lock, job, clocks, ledgers>>

\* _apply_verdict, where the event is folded: onto the deviation that is there,
\* or as an orphan where none is any more.
FinishVerdict(o) ==
    /\ op[o].cmd = "verdict"
    /\ lock = Nobody
    /\ rec' = [rec EXCEPT ![op[o].run].dev = "judged"]
    /\ End(o)
    /\ UNCHANGED <<pc, args, lock, job, clocks, ledgers>>

\* The job is still running, or the backend does not answer, or the command is
\* killed: nothing is written.
LeaveCommand(o) ==
    /\ op[o].cmd # "idle"
    /\ End(o)
    /\ UNCHANGED <<rec, pc, args, lock, job, clocks, ledgers>>

Finish(o) == FinishCollect(o) \/ FinishWriteOff(o) \/ FinishVerdict(o)

Operating(o) ==
    \/ \E r \in Runs : StartCollect(o, r) \/ StartAbandon(o, r)
                       \/ StartForget(o, r) \/ StartVerdict(o, r)
    \/ Finish(o) \/ LeaveCommand(o)

-----------------------------------------------------------------------------
(* The other ledgers.                                                      *)

\* ledger expect: refused once the task has results.
Mint(e) ==
    /\ e \notin minted
    /\ Task[e] \notin TasksWithResults
    /\ minted' = minted \cup {e}
    /\ UNCHANGED <<rec, pc, args, lock, job, clocks, retracted, camp, booked, op>>

\* ledger falsify: whether or not the prediction is bound.
Falsify(e) ==
    /\ e \in minted \ retracted
    /\ retracted' = retracted \cup {e}
    /\ UNCHANGED <<rec, pc, args, lock, job, clocks, minted, camp, booked, op>>

\* evolve run: _bind_expectation checks the prediction ...
StartCampaign(k) ==
    /\ camp[k].step = "idle"
    /\ \E e \in minted \ Consumed :
          camp' = [camp EXCEPT ![k] = [step |-> "checked", exp |-> e]]
    /\ UNCHANGED <<rec, pc, args, lock, job, clocks, minted, retracted, booked, op>>

\* ... and, the project gate passed, the campaign record that consumes it is
\* appended to a ledger of its own, without a precondition.
OpenCampaign(k) ==
    /\ camp[k].step = "checked"
    /\ camp' = [camp EXCEPT ![k].step = "open"]
    /\ UNCHANGED <<rec, pc, args, lock, job, clocks, minted, retracted, booked, op>>

\* The project gate refuses, or the process is killed.
DropCampaign(k) ==
    /\ camp[k].step = "checked"
    /\ camp' = [camp EXCEPT ![k] = [step |-> "idle", exp |-> NoExp]]
    /\ UNCHANGED <<rec, pc, args, lock, job, clocks, minted, retracted, booked, op>>

Campaigning(k) == StartCampaign(k) \/ OpenCampaign(k) \/ DropCampaign(k)

\* A campaign of the project books a candidate, under the lock of its own ledger
\* and at a boundary of its own, whatever the submissions are doing.
BookCandidate(p) ==
    /\ \E cost \in Actuals :
          /\ booked[p] + cost <= CandidateUsd[p]
          /\ booked' = [booked EXCEPT ![p] = @ + cost]
    /\ UNCHANGED <<rec, pc, args, lock, job, clocks, minted, retracted, camp, op>>

-----------------------------------------------------------------------------
Next ==
    \/ \E r \in Runs : Submitting(r) \/ Launching(r) \/ Environment(r)
    \/ \E o \in Operators : Operating(o)
    \/ \E e \in Expectations : Mint(e) \/ Falsify(e)
    \/ \E k \in Campaigns : Campaigning(k)
    \/ \E p \in DOMAIN Allocation : BookCandidate(p)

Spec == Init /\ [][Next]_vars

\* A submission that holds the lock is running code and gets to the end of it.
Progress(r) ==
    \/ RecheckBinding(r) \/ RecheckCeilings(r) \/ WriteRecord(r)
    \/ lock = r /\ Withdraw(r)

FairSpec == Spec /\ \A r \in Runs : WF_vars(Progress(r))

\* The command check_stale names for a stale run: abandon for one that never
\* got a handle, collect for one that did, and forget where the collection
\* finds that the kernel is gone, which only Kaggle has.
Advised(o, r) ==
    /\ r \in stale
    /\ IF job[r] = "gone" /\ Platform[r] = "kaggle"
       THEN StartAbandon(o, r) \/ StartForget(o, r)
       ELSE StartAbandon(o, r) \/ StartCollect(o, r)

Clears(o, r) == op[o].run = r /\ (FinishCollect(o) \/ FinishWriteOff(o))

\* Somebody does what the gate says and does not interrupt it every time; the
\* jobs end.
AttendedSpec ==
    /\ FairSpec
    /\ \A r \in Runs : WF_vars(JobEnds(r))
    /\ \A o \in Operators :
          /\ \A r \in Runs : SF_vars(Advised(o, r)) /\ SF_vars(Clears(o, r))
          /\ SF_vars(FinishVerdict(o))
          /\ WF_vars(op[o].cmd = "collect" /\ job[op[o].run] # "ended" /\ LeaveCommand(o))

-----------------------------------------------------------------------------
(* What must hold.                                                         *)

PCs == {"idle", "expected", "priced", "current", "gated", "locked", "unbound", "cleared",
        "recorded", "launched", "raised", "watching", "done", "dead"}

Commands == {"idle", "collect", "abandon", "forget", "verdict"}

TypeOK ==
    /\ rec \in [Runs -> Record]
    /\ pc \in [Runs -> PCs]
    /\ args \in [Runs -> [exp : Bindable, est : Nat, seen : Nat]]
    /\ lock \in Runs \cup {Nobody}
    /\ job \in [Runs -> {"none", "live", "ended", "gone"}]
    /\ stale \subseteq Runs /\ aged \subseteq Runs
    /\ minted \subseteq Expectations /\ retracted \subseteq Expectations
    /\ camp \in [Campaigns -> [step : {"idle", "checked", "open"}, exp : Bindable]]
    /\ booked \in [DOMAIN Allocation -> Nat]
    /\ op \in [Operators -> [cmd : Commands, run : Runs \cup {Nobody}]]

\* Each prediction covers exactly one run (check_expectation), however many
\* submissions passed the gate on it before the first of them was recorded.
OneRunPerPrediction ==
    \A r, s \in Runs : rec[r].exp = rec[s].exp /\ rec[r].exp # NoExp => r = s

\* The runs that went through the gates and are in flight never exceed the
\* largest ceiling a spec declares, with any number of submissions racing: "a
\* ceiling of 2 that two concurrent starts can both walk through is a ceiling
\* of 4" (spend_precondition).
GatedInFlight == {r \in InFlight : ~rec[r].smoke}

ConcurrencyBounded ==
    GatedInFlight = {} \/ \E r \in Runs : Cardinality(GatedInFlight) <= MaxConcurrent(r)

\* When a gated submission lands, the ledger it lands in is under the spend and
\* the concurrency ceiling it was gated on, and the spend of its project exceeds
\* the allocation at most by what campaigns have booked since the check under
\* the lock found what it found.
Admits(r) == rec[r].status = "absent" /\ rec'[r].status = "in_flight" /\ ~rec'[r].smoke

AdmittedUnderCeilings ==
    [][\A r \in Runs : Admits(r) =>
          /\ RollingSpend' <= Monthly
          /\ Cardinality(InFlight') <= MaxConcurrent(r)
          /\ Budgeted(r) =>
                ProjectSpend(ProjectOf[r])'
                    <= Allocation[ProjectOf[r]] + (booked[ProjectOf[r]] - args[r].seen)]_vars

\* A job the backend has is on the ledger, at a crash in any place: the record
\* is written before the call that starts it ("written at submit time").
NoUnrecordedJob == \A r \in Runs : job[r] # "none" => Recorded(r)

\* Why those hold, said of every state: the steps under the lock belong to the
\* one submission that holds it, and the prediction, the slot and the money it
\* found free under the lock of runs.jsonl are not taken by another run before
\* it writes (spend_precondition, _still_unbound).  That is all the lock gives:
\* a retraction, a campaign that opens and a candidate that is booked are on
\* other ledgers, and may come in between.
LockIsHeld == \A r \in Runs : pc[r] \in {"locked", "unbound", "cleared"} => lock = r

BindingIsFree == \A r \in Runs : pc[r] \in {"unbound", "cleared"} => args[r].exp \notin RunBound

SlotIsFree == \A r \in Runs : pc[r] = "cleared" => Cardinality(InFlight) < MaxConcurrent(r)

\* The ceilings with the candidates the check found.
MoneyIsFree ==
    \A r \in Runs : pc[r] = "cleared" =>
        /\ SpendAllows(r)
        /\ Budgeted(r) =>
              RunSpend(ProjectOf[r]) + args[r].seen + args[r].est <= Allocation[ProjectOf[r]]

ChecksStand == LockIsHeld /\ BindingIsFree /\ SlotIsFree /\ MoneyIsFree

\* A prediction once spent stays spent: no write-off, failed launch or
\* retraction makes it bindable again ("the binding stands").
BindingStands == [][Consumed \subseteq Consumed']_vars

\* What a collection recorded about a gated run, and the verdict on it, are
\* never overwritten by a later event of the same run.
ResultsStand ==
    [][\A r \in Runs : ~rec[r].smoke /\ rec[r].status = "completed" =>
          /\ rec'[r].status = "completed"
          /\ rec'[r].act = rec[r].act /\ rec'[r].results = rec[r].results
          /\ rec[r].dev = "judged" => rec'[r].dev = "judged"]_vars

\* No prediction covers a run and a campaign, or two campaigns: "each prediction
\* covers exactly one run has to mean the same thing at every binding site"
\* (consumed_expectation_ids).
OneBindingPerPrediction ==
    /\ RunBound \cap CampaignBound = {}
    /\ \A k, l \in Campaigns :
          camp[k].step = "open" /\ camp[l].step = "open" /\ camp[k].exp = camp[l].exp => k = l

\* "A run with a handle cannot be abandoned" (submit.abandon).
HandleIsNotAbandoned ==
    [][\A r \in Runs : rec[r].status # "abandoned" /\ rec'[r].status = "abandoned"
          => ~rec[r].handle]_vars

\* The gates, the lock and the checks repeated under it come to this: a run is
\* admitted in one atomic step against the ledger it lands in.
Ceilings == [r \in Runs |-> MaxConcurrent(r)]
Phases   == [r \in Runs |-> IF rec[r].status \in Terminal THEN "closed"
                            ELSE IF rec[r].status = "absent" THEN "absent" ELSE "open"]
Bindings == [r \in Runs |-> rec[r].exp]
Counted  == {r \in Runs \ aged : rec[r].status # "absent"}
Charges  == [r \in Runs |-> IF r \notin Counted THEN 0
                            ELSE IF rec[r].status \in Terminal THEN rec[r].act ELSE rec[r].est]

Promise == INSTANCE Admission WITH
    Ceiling <- Ceilings, phase <- Phases, bound <- Bindings, charge <- Charges

ImplementsAdmission == Promise!Spec

\* Nobody keeps the lock of runs.jsonl.
LockIsReleased == \A r \in Runs : lock = r ~> lock # r

\* The gate on stale runs has one dead end: if the command it names is run, every
\* run it holds against later submissions is cleared, unless the run has a handle
\* and its backend, which is not Kaggle, has lost the job.
NothingClears(r) == rec[r].handle /\ job[r] = "gone" /\ Platform[r] # "kaggle"

StaleIsCleared == \A r \in Runs : r \in stale ~> r \notin stale \/ NothingClears(r)
=============================================================================
