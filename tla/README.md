# A TLA+ verification of Grad

Grad is an agent for machine-learning research that works through
command-line tools over append-only JSONL ledgers. What keeps it honest is
mechanical: a prediction is minted before a run and covers exactly one, a run
is recorded before it is started, spend and concurrency ceilings refuse a
submission, nothing is edited afterwards. None of that has a server behind it.
Every command is a process, several run at once (the agent's shell, the
desktop UI, a detached task, an operator), each may be killed between any two
statements, and all they share is files with a lock around an append. This
directory models that protocol, checks it with TLC and proves parts of it with
TLAPS.

Paths below are relative to `src/`.

## 1. Inventory

| component | source | state it keeps | operations | what makes it correct |
|---|---|---|---|---|
| append-only files | `core/jsonl.py` | one file, a lock on it, a mutex per path and process | `append` (with a precondition), `read`, `damaged_lines`, `write_json`, `update_json` | an acknowledged record is read by everyone from then on; a precondition holds at the write; a torn line costs little and is reported |
| run ledger fold | `core/ledger_store.py` | `runs.jsonl`, `expectations.jsonl`, the fold of both | `runs`, bindings, `in_flight`, `is_stale`, `rolling_spend` | a fold that later events do not falsify; a binding that is never given back |
| gates | `core/gates.py` | none: reads the ledgers | expectation, spend, project spend, stale, concurrency, preflight, smoke caps | checked against the ledger the record lands in, not the one first read |
| submit protocol | `core/submit.py` | none: writes the run ledger | `record_submission`, `record_smoke_run`, `attach_handle`, `finish`, `abandon`, `record_finished`, deviations | record before job; one binding per prediction; results written once |
| backends | `tools/jobs.py`, `gpu.py`, `kaggle.py`, `modal.py` | the jobs of an outside service | submit, smoke, status, collect, `forget` | every job on the ledger, every run can be closed |
| ledger CLI | `tools/ledger.py` | expectations | expect, verdict, abandon, falsify | predictions before results |
| campaigns | `tools/evolve.py`, `core/campaign.py` | `campaigns.jsonl`, `candidates.jsonl` | run, halt, promote, close | one prediction per campaign, halted on request, within its budget |
| project budgets | `core/budget.py`, `tools/budget.py` | `budgets.jsonl` | create, raise, configure, close, check | a ceiling only rises by an explicit event |
| Kaggle quota | `core/kaggle_quota.py` | fold of the run ledger | weekly pool of GPU hours | the pool is not oversold |
| preflight | `tools/preflight.py`, `core/submission.py` | one JSON record per content hash | run, record a smoke | a changed file has no passing checks |
| evolution archive | `core/evolution.py`, `core/mutate.py` | candidates by island | parents, migration | a pure function of the ledger |
| background tasks | `core/tasks.py`, `tools/task.py` | the task registry, a supervisor and a command per task | start, supervise, stop, clear | never more than the ceiling; no command nobody knows of; an end recorded once |
| wakeups | `core/wakeups.py`, `tools/wakeup.py`, `ui/state.py`, `ui/app.py` | the wake registry, a watcher per wake, the queue of the app | arm, watch, post, cancel, clear; queue, turn | a wake that happened has one turn; a cancelled one has none |
| commands of the desktop | `ui/tasks.py` | the commands a window started, in memory | run, stop, tail | an end is seen, a stop asks before it signals |
| update and instance | `core/update.py`, `core/instance.py`, `core/migrate.py` | markers and locks in app data | claim, apply, migrate | no update under a running instance |
| agent, hooks, compaction | `agent.py`, `hooks.py`, `core/compaction.py`, `core/rewind.py` | a session, a ledger of hooks | turn loop, Stop hook | no turn ends with a gate unmet |
| projects, pages | `core/projects.py`, `core/projwiki.py`, `core/wikigen.py` | generated pages | sync | an edited page is not overwritten |
| the rest | papers, HTTP, notebooks, reports, UI | caches, files | I/O | not protocols |

How they interact: the backends call `gates.check_submit`, then
`submit.record_submission`, whose precondition `spend_precondition` runs under
the lock of `runs.jsonl` inside `jsonl.append`; then they call the backend and
`submit.attach_handle`. `collect`, `abandon` and `forget` read the fold, then
append through `submit.finish`. `ledger.py` and `evolve.py` write two further
ledgers with locks of their own, and the gates read all three. Everything
shared there is a file. Tasks and wakeups add processes that outlive the command
that spawned them: `task start` and `wakeup arm` spawn first and record after,
so the child waits for its own record; `task stop` signals the supervisor and then
writes what the supervisor would have; a watcher posts to the desktop app, which
keeps what it took in memory until its poll finds the chat free.

What is hard here: interleavings of processes between a check and a write; a
process killed between a record and the call it announces; a backend that
takes a job and never answers; writes that are cut short; checks on one
ledger that a write to another makes obsolete; gates that refuse everything
until somebody clears them; children spawned before they are recorded; a signal
that one process of a group dies of and another does not. `PROJECT.json` lists
each at the line where it bites.

## 2. Modules

| module | models | composed of |
|---|---|---|
| `AppendLog` | what a ledger file promises: a sequence that only grows, records that enter whole, claims made once | |
| `JsonlLog` | `jsonl.append` and its readers, step by step | implements `AppendLog` |
| `JsonlLogProofs` | proofs about `JsonlLog`, the refinement included | |
| `Admission` | what the gates promise: a run is admitted in one atomic step within the ceilings | |
| `RunLedger` | submissions of four backends, operators' commands, minting, retraction and campaigns over the run ledger | implements `Admission` |
| `RunLedgerProofs` | proofs about the lock, the predictions and the slots of `RunLedger` | |
| `AdmissionProofs` | proofs about money and results in `RunLedger`, and that it implements `Admission` | `RunLedgerProofs` |
| `Campaign` | `evolve run` of the campaigns of one project: generations, a pool of evaluations, halts, the shared ceiling | |
| `CampaignProofs` | proofs about `Campaign` | |
| `Tasks` | background tasks: starts, supervisors, commands, stops and clears over the task registry | |
| `TasksProofs` | proofs about `Tasks` | |
| `Wakeups` | wakes: arms, watchers, cancels and clears over their registry, and the app that takes a wake | |
| `WakeupsProofs` | proofs about `Wakeups` | |
| `SumTheorems` | lemmas about sums over a finite set and about least and greatest numbers, for the proofs above | |
| `MCJsonlLog`, `MCRunLedger`, `MCCampaign`, `MCTasks`, `MCWakeups` | instances for TLC | |

### JsonlLog

A file is a sequence of *pieces*: the opening half, the closing half and the
newline of each record's line, so that a torn write, the line the next writer
glues onto it and what a reader makes of both are all visible, and no
characters are, but for one thing: lines are written with `ensure_ascii=False`, and
the halves of a record in `Wide` meet inside a character of several bytes. `Parsed`
are the places where a well-formed line ends (the two
halves of one record and nothing else; a last line without its newline is well
formed), `WellFormed` the records of those lines, and `Decodes` says that no line stops
inside a character. `Read` and `Damaged` are what comes of `read` and of
`damaged_lines`: where the file decodes, the well-formed records and the lines that
are not; where it does not, the `UnicodeDecodeError` that both let pass. A
precondition that reads such a file raises too, which refuses its append. A thread goes through `append`: `EnterMutex`
(`_thread_lock`), `Lock` (`_lock`; it blocks, or gives up after a timeout on
Windows: `LockTimeout`), `Check` / `Refuse` (the precondition), `WriteOpen`,
`WriteClose`, `WriteNewline`, `LetGo` (the `finally`), `Return`. `TornWrite`
cuts the line at any piece, the fsync included. The exception then unlocks the file *before* `with
open` closes it, and a closing file flushes what its buffer still holds;
`CloseAfterCut` is that second flush, which writes any part of the rest where `CloseRetries`
says that it may, and nothing where not. `Die` kills the process of a thread; the system lets go of its lock.

`OneWriter` needs two locks because the byte lock of Windows is held by the
process: two threads of one process would both get it. It speaks of the steps under the
lock; the flush of a closing file is outside it, and the other properties are about what
that does.

### RunLedger

`rec[r]` is the fold of run r's events (`ledger_store.runs`), not the events:
an append is one step, which is what `JsonlLog` justifies. `pc[r]` is where
the submitting process is, `args[r]` what it was started with, `job[r]` what the
backend has, `lock` who is inside `jsonl.append` on `runs.jsonl`; `camp` and
`op` are the campaign and operator processes; `stale` and `aged` are the two
clocks (`is_stale`, the thirty days of `rolling_spend`). `booked[p]` is what the
candidates of project p's campaigns have cost, which `budget.spend` adds to the
runs: it is on `candidates.jsonl`, under another lock, and moves at any time.
`args[r].seen` is what of it the check under the lock found.

| actions | code |
|---|---|
| `GateExpectation` … `GateConcurrency` | `gates.check_submit`, outside the lock, each gate a step of its own |
| `TakeLock`, `RecheckBinding`, `RecheckCeilings`, `WriteRecord` | `submit.record_submission` → `ledger_store.append_run_event` → `jsonl.append` with its precondition |
| `Withdraw` | a refusal, a misconfigured backend or a kill before the record |
| `RecordSmoke`, `FinishSmoke`, `WatchSmoke` | `record_smoke_run` and `run_smoke`: no gates |
| `Launch`, `LaunchRaises`, `FinishSubmitFailed`, `AttachHandle`, `Die` | the rest of `cmd_submit` |
| `JobEnds`, `JobVanishes`, `WindowCloses`, `LeavesSpendWindow` | the backend, each of which may lose a job, and the calendar |
| `StartCollect`/`FinishCollect`, `StartAbandon`, `StartForget`/`FinishWriteOff`, `StartVerdict`/`FinishVerdict` | each command reads the ledger when it starts and appends later, without a precondition |
| `Mint`, `Falsify` | `ledger expect`, `ledger falsify` |
| `StartCampaign`, `OpenCampaign`, `DropCampaign` | `evolve run`: the check of the prediction, then the campaign record |
| `BookCandidate` | `campaign.append_candidate`: what a campaign of the project books, whatever the submissions do |

`Ages`, `Overdue`, `Losable` and `CandidateUsd` bound an instance: which runs may leave
the spend window, become stale or lose their job, and what candidates may come to
cost. Three simplifications of `RunLedger`. A status `completed` stands for every status a
collection writes, `failed` included: no reader of the model's properties tells
them apart. The Kaggle hours gate is one of the refusals of `Withdraw`. A mint
reads and appends in one step: the code calls that check the weaker of two
defences.

### Campaign

`events[c]` and `cands[c]` are what `campaigns.jsonl` and `candidates.jsonl` say of a
campaign; the rest is the process of `evolve run` (`pc`, `gen`, the generation's `slots`
and what of the pool has raised) and, in `halter`, the command that asks it to stop.

| actions | code |
|---|---|
| `Gate`, `OpenCampaign` | `cmd_run`: the budget gate of the project, then the campaign record |
| `Boundary`, `Regate` | the head of a generation: a halt, the last generation, the budget for what is left |
| `Propose`, `ProposeFails` | `mutate` and `_prepare`: programs proposed before, in the ledger or the same generation, are dropped |
| `Skip`, `Start`, `Finish`, `Raise`, `Notice`, `LeavePool` | the pool of `_evaluate_generation`: a slot is taken, evaluated and its candidate recorded by a thread; one that raises stops the waiting ones, and the pool waits for the running ones |
| `CloseCampaign` | the two closes of `cmd_run`: the `except BaseException` around `_drive`, and the one after it |
| `Interrupt`, `Kill` | a person's Ctrl-C, which is closed as a failure, and a death, which is not closed |
| `HaltLook`, `RequestHalt` | `evolve halt`: it reads, and appends with the precondition that the campaign is open |

A first interrupt in the pool is an exception like any other: the `with` block waits for
the threads. One that comes while an exception waits there leaves the block at once, `cmd_run`
closes the campaign as failed, and the threads that run go on and record their candidates
afterwards, as the interpreter joins them before it exits (`Threaded`). Without a pool (`Pooled`)
an interrupt takes the evaluation along (`CutShort`).

One estimate stands for every candidate of a campaign, and campaigns without a
price are left out: with an estimate of 0 the budget gates never refuse. A candidate
whose evaluation raises is on no ledger, nor is what it cost, as in the code. Promotion, islands and
the mutation engine itself are not here: what an operator proposes is a choice among `Offers`.

### Tasks

`reg[t]` is what the events of a task fold to (`tasks.tasks`), `sup[t]` its
supervisor and `cmd[t]` its command, which are two processes in one group;
`start[t]`, `stop[s]` and `clearing` are where the commands that work on them are.
The state a reader sees is derived, as in the code: `Running` is listed, no exit
recorded and the supervisor alive, `Lost` is the same with the supervisor gone.

| actions | code |
|---|---|
| `CheckCeiling`, `Spawn`, `RecordStarted`, `RefuseStart`, `StartDies` | `cmd_start`: the ceiling, the supervisor, `record_started` with the ceiling as the precondition of the append |
| `Claim`, `GiveUp`, `CommandEnds`, `RecordExited`, `SupervisorDies` | `cmd_supervise`: `_claim` waits for the record, then the command runs |
| `StopTask`, `RecordStopping`, `HaltFails`, `SeeRecord`, `Signal`, `SignalFails`, `SeeNoRecord`, `RecordStopped`, `StopDies` | `cmd_stop`: the mark, the halt verb, `_kill_tree`, and the exit it records itself |
| `StartClear`, `Forget` | `cmd_clear`, from a list read once |

A supervisor has a pid of its own for ever, and something that kills it from
outside kills its group; both limits are hazards in `PROJECT.json`. `Deaf` are the
commands that survive a SIGTERM.

### Wakeups

`reg[w]` is the fold of a wake, `fired` the wakes of which a firing was appended, whether or
not the fold still shows it, `watcher[w]` the loop of `wakeups.watch` (look at
the record, check the condition, record, post, record the answer), `due[w]` its
deadline, `cancel` the cancels between their read and their append. `place` and
`queue` are the window of the app and its `pending_wakes`; `chat` is what decides
whether a turn can begin: `send` refuses while a send is under way, the poll looks
only at `session.busy`, and the phase `"sending"` is where the two differ. `DeliverWake`
takes the wake off the queue first: then its turn begins, or `send` refuses it, or `send`
raises and the tick logs it (the `except` of `_deliver_wakes`); in the last two the wake has
no turn.
`turned[w]` records that a wake had a turn, and where. What a condition reads (a
run, a file, a process) is one choice between happened and not; a wake armed with
`--no-resume` is the watcher that fires and goes.

## 3. What is checked

Constants are chosen so that every case a property is about occurs: more
submissions than slots, more submissions and campaigns than predictions, a
declared ceiling of 0, costs above the estimate under ceilings that an estimate still
fits and a cost does not, a run that leaves the spend window.

| run | instance | shows |
|---|---|---|
| `jsonl_append` | 4 threads, 2 of them in one process, 2 with the same claim, deaths anywhere but inside a line | `OneWriter`, `ReturnedIsRead`, `AppendsEnd`, and that `JsonlLog` implements `AppendLog` when no write is cut short: what is read only grows at its end, with claims that are unique |
| `jsonl_torn` | the same with writes cut short anywhere, one record that is cut inside a character, and late flushes that write any part of the rest | where the file decodes, a failed append loses at most its own record and two more, one without late flushes (`TearCostsAtMostTwo`), never silently (`LossIsReported`), and of appends that did not fail no two make one claim (`ClaimsAreUnique`) |
| `ledger_collect` | 2 submissions for 1 slot, a campaign that may open, 2 predictions, candidates booked up to 2 of a project ceiling of 3, an actual cost of twice the estimate, 1 operator, retractions and deaths anywhere | `OneRunPerPrediction`, `ConcurrencyBounded`, `BindingStands`, `NoUnrecordedJob`, `ChecksStand`, `AdmittedUnderCeilings`, `ResultsStand`, and that `RunLedger` implements `Admission` |
| `ledger_attended` | a remote-host and a Kaggle run, both of which may become stale and lose their job, one that leaves the spend window, an operator | `LockIsReleased`, `StaleIsCleared` |
| `tasks` | 2 tasks, one with a halt verb, 1 slot, 2 stops, a clear, kills and refused signals anywhere | `HeldIsRunning`, `CeilingHolds`, `ExitStands`, `StoppedIsOver`, `ForgottenIsOver`, `SupervisorsSettle`, `StopsAreRecorded` |
| `wakeups` | 2 wakes, a queue of 1, cancels, clears, deaths, lost answers, a window that closes, opens and moves, somebody who types | `OneTurnEach`, `TurnsAreRecorded`, `CancelIsSeen`, `WatchersEnd` |
| `campaign` | 2 campaigns under one ceiling, 2 generations each, one with 2 evaluations at once that cost twice their estimate; programs repeated within and across generations, one that escapes its block; a halt, interrupts and a kill anywhere | `SpendBounded`, `NothingAfterClose`, `HaltHonoured`, `EveryCandidateCollected`, `NoProgramTwice`, `GenerationsAgree`, `CampaignsEnd` |

Two submissions are enough for the check-then-write races, which need one
process between the check and the write of another; any number of them is what
the proofs are for. Two tasks for one slot, and two stops, are the same
argument for `Tasks`; two wakes for a queue of one make a refusal at the door
possible. Predictions and runs are exchanged by symmetry in `ledger_collect`, which has no
liveness: nothing orders them, and all are of one task, one backend and one project. A run
leaves the spend window only in `ledger_attended`; what that does to the ceilings is in the
proofs. Deadlock is
not checked in the run ledger and in `Campaign`: when every submission is made and collected and
nobody mints, or every campaign is over, the system is done. It is checked in `JsonlLog`, where a finished
thread may stutter, and not in `Tasks` and `Wakeups`, where everything may be over.

### Fairness

`JsonlLog` asks that a thread that can take a step takes one: it is running
code, and a death is a step too. `FairSpec` of the run ledger asks the same of
the submission that holds the lock, and of nothing else: a submission between
two gates may wait for ever, an operator need not come. `AttendedSpec` is what
it takes for a stale run to be cleared, and it says so of people: somebody runs
the command `check_stale` prints, and is not interrupted every time
(strong fairness, since others' commands make it impossible for a while), a
verdict that was started is written, a collection that found the job running
ends, and jobs end. Under it `StaleIsCleared` says that the stale gate has one dead end
and no other: a run with a handle whose ssh directory is deleted, or whose Hub or Modal
job expired. Collect cannot end it, abandon refuses a run with a handle and only Kaggle
has `forget`. Both runs of the instance may lose their job.

`FairSpec` of `Tasks` asks it of supervisors and of stops, which are running
code with timeouts of their own (`CLAIM_TIMEOUT_S`, the grace of a halt), and not
of commands, which may run for ever, nor of people. `FairSpec` of `Wakeups` asks
it of watchers and of the calendar: `DeadlinePasses`. Neither app nor chat is
fair: nobody need look at a wake that was delivered. `FairSpec` of `Campaign` asks it of
the process of `evolve run` while it lives, and of its evaluations, each of which is bounded where
it runs: by the timeout of its subprocess or the deadline of its adapter. Nobody need halt anything, and a kill is not
fair: a campaign either closes or its process is dead.

### Where the code and its own words disagree

Each of these is a run that TLC must find violated.

* `jsonl_undecodable`. Lines are written with `ensure_ascii=False` and read as strict
  UTF-8 by readers that catch only `JSONDecodeError`: a final line torn inside a character
  makes `read` and `damaged_lines` raise `UnicodeDecodeError`, then and after every
  later append, where the tests say that a partial line costs one record "rather than the
  file". (Seen with the real code.)
* `ledger_two_operators`. `require_uncollected` and `finish` are not one step: two
  collections of one run, or a forget and a collection, both write, and the
  second overwrites the first.
* `ledger_write_skew`. A submission re-checks the binding under the lock of
  `runs.jsonl`, a campaign checks it under none and writes `campaigns.jsonl`: one
  prediction covers both.
* `tasks_deaf`. `_kill_tree` signals the group and escalates only while the
  supervisor lives, which dies of the first signal: a command that handles SIGTERM
  runs on under a task that reads as stopped. (Seen with the real code on Linux.)
* `wakeups_settling`. The poll asks `session.busy` and `send` also asks
  `chat_sending`: between the two the wake leaves the queue and no turn begins,
  while the registry says delivered.

More have no run of their own. The property is in the module, and TLC
finds it violated at once in the instance given:

* `ReturnedIsRead` of `JsonlLog`, in `JsonlTorn.cfg`. After a torn line the next append is
  glued to it: a record whose writer was told it is written is lost to every
  reader, where the tests say a torn line costs one record, its own.
  `TearCostsAtMostTwo` and `LossIsReported` say what remains true.
* The same claim between any two records of `WellFormed`, in `JsonlTorn.cfg`. When the flush
  fails, the lock is released before the file is closed, and closing it flushes
  again. If there is room by then, the line lands after its precondition stopped
  being true, beside the claim of another append, and `append` raises although its
  record is on the ledger (`core/jsonl.py:155`; seen with the real code on a
  full file system). The docstring has a uniqueness check "atomic with the append"
  (`core/jsonl.py:131-133`). `ClaimsAreUnique` speaks of the appends that did not fail.
* `AdmittedUnderCeilings` without the allowance for candidates, in `RunLedgerCollect.cfg`.
  `spend_precondition` is there to "re-run the spend and concurrency gates inside the
  append lock" (`core/submit.py:43`), but the candidates of its campaigns are on a ledger with
  another lock (`core/budget.py:471-485`): booked between the check and the record,
  they take the project over its ceiling.
* `StaleIsCleared` without its exception, in `RunLedgerAttended.cfg`. "A run that reached a
  backend has a handle and is collectable" (`core/gates.py:205-206`), but where the
  backend has lost the job no command clears the run, unless it is on Kaggle.
* That nothing runs in a campaign that is over, `Running(c) = {}`, of the campaigns that failed
  too, in `Campaign.cfg`. "A campaign that stopped is a campaign that closes"
  (`tools/evolve.py:552-553`), but after a second interrupt one closes that has not stopped: its
  evaluations run on, are paid and recorded later.
* `GenerationsAlwaysAgree` of `Campaign`, in `Campaign.cfg`. When the mutation engine fails,
  the generation is recorded with the note `error` (`tools/evolve.py:929`), which the fold counts as
  run (`core/campaign.py:306`), while `cmd_run` answers one fewer (`tools/evolve.py:985`); a test
  has the two equal (`tests/test_evolve.py:783`). `GenerationsAgree` is about the campaigns that did not fail.
* `HandleIsNotAbandoned` of `RunLedger`, in `RunLedgerTwoOperators.cfg` with one
  operator. "A run with a handle cannot be abandoned" (`core/submit.py:687`), but
  the check and the append of `abandon` are two steps.
* `KeptNotLost` of `Wakeups` with `Closes` alone, and `TurnsAtHome` with `Moves`
  alone, in `WakeupsSettling.cfg`. The queue of the app is in the memory of its
  window, and neither the post nor the queue says which workspace the wake is of.
* `CancelledIsQuiet` of `Wakeups`, in `WakeupsSettling.cfg`. "It will not wake you"
  (`tools/wakeup.py:271`), but a watcher past its look fires all the same;
  `CancelIsSeen` says what a cancel does stop.

That is why `ResultsStand` is checked with one operator, `OneRunPerPrediction`
speaks of runs, `TurnsAreRecorded` accepts a wake whose firing a cancel or a clear has
covered, and `Deaf` is empty in the run `tasks`.

## 4. What is proved

Every invariant and every safety property that a passing run checks is also a
theorem: for every set of threads, processes, submissions, operators, campaigns,
tasks, stops, wakes, and every value of the ceilings, estimates and costs. TLC
checked each inductive invariant on the instances above before it was proved.

| theorem | statement | from |
|---|---|---|
| **`JsonlLogProofs`** | | `LogAssumption` |
| `TypeCorrect` | `Spec => []TypeOK` | |
| `LossesAreReported` | `Spec => []LossIsReported` | |
| `WritersAreExclusive` | `Spec => []OneWriter` | |
| `ClaimsStayUnique` | `Spec => []ClaimsAreUnique` | |
| `TearsCostAtMostTwo` | `Spec => []TearCostsAtMostTwo` | `~CloseRetries` |
| `ReturnedIsAlwaysRead` | `Spec => []ReturnedIsRead` | `~MayTear` |
| `FileIsAppendLog` | `Spec => ImplementsAppendLog` | `~MayTear` |
| **`RunLedgerProofs`** | | `LedgerAssumption` |
| `TypeCorrect` | `Spec => []TypeOK` | |
| `PredictionsCoverOneRun` | `Spec => []OneRunPerPrediction` | |
| `SlotsAreNotOversold` | `Spec => []ConcurrencyBounded` | |
| `JobsAreRecorded` | `Spec => []NoUnrecordedJob` | |
| `BindingsArePermanent` | `Spec => BindingStands` | |
| **`AdmissionProofs`** | | the same |
| `SubmissionIsAtomic` | `Spec => []ChecksStand` | |
| `AdmissionsAreAffordable` | `Spec => AdmittedUnderCeilings` | |
| `SubmissionIsAdmission` | `Spec => ImplementsAdmission` | |
| `ResultsAreKept` | `Spec => ResultsStand` | one operator: `ledger_two_operators` shows two |
| **`CampaignProofs`** | | `CampaignAssumption` |
| `TypeCorrect` | `Spec => []TypeOK` | |
| `SpendIsBounded` | `Spec => []SpendBounded` | |
| `ClosesAreFinal` | `Spec => []NothingAfterClose` | |
| `HaltsAreHonoured` | `Spec => []HaltHonoured` | |
| `CandidatesAreCollected` | `Spec => []EveryCandidateCollected` | |
| `ProgramsAreEvaluatedOnce` | `Spec => []NoProgramTwice` | |
| `AnswersAgree` | `Spec => []GenerationsAgree` | |
| **`TasksProofs`** | | `TasksAssumption` |
| `TypeCorrect` | `Spec => []TypeOK` | |
| `HeldTasksAreListed` | `Spec => []HeldIsRunning` | |
| `CeilingIsKept` | `Spec => []CeilingHolds` | |
| `RecordedExitsStand` | `Spec => ExitStands` | |
| `WillingTasksAreOver` | `Spec => []WillingIsOver`: of each command that dies of a SIGTERM | |
| `StoppedTasksAreOver` | `Spec => []StoppedIsOver` | `Deaf = {}`: `tasks_deaf` shows another |
| `ForgottenTasksAreOver` | `Spec => []ForgottenIsOver` | `Deaf = {}` |
| **`WakeupsProofs`** | | |
| `TypeCorrect` | `Spec => []TypeOK` | |
| `TurnsAreSingle` | `Spec => []OneTurnEach` | |
| `TurnsAreKnown` | `Spec => []TurnsAreRecorded` | |
| `CancelsAreSeen` | `Spec => CancelIsSeen` | |

With a late flush (`MayTear /\ CloseRetries`) a record may land anywhere in anybody's line, and
what a failed append costs then, two records at most, is model-checked only. The theorems on
writers, losses and claims do not depend on it.

**The file.** `LocksHeld` says whom the mutex and the lock belong to; two threads
of one process are kept apart by the first, two processes by the second.
`FileInv` adds what the pieces are and why: none is there twice, a closing half
comes right after its opening half and a newline right after its closing half,
where a thread is tells which pieces it has put, and (`TearsExplained`) a line that
stops short of its newline is the line being written or one whose writer was cut
short, which happens only where writes are (`NoCuts`). `FileInv` is for files whose close flushes
nothing more, and what rests on it is said to. A step either puts one piece (`PutKeeps`) or changes no piece and only what no
piece depends on (`QuietKeeps`). From it: an acknowledged record that is not read has
all three pieces and stands on the end of a torn line (`LostStandsOnTear`), and the map from
the lost to the writers of the lines they stand on is injective, which is the bound. That
every loss is reported needs less, and holds with late flushes too: the file only grows
(`FileGrows`), so the opening half of an acknowledged record is in it (`Opened`), and
the line that begins there parses or is reported, or the file does not decode and both
readers raise. What `Read` yields is known from its set
(`ReadSet`) and from what one more piece adds (`ScanAppend`). Claims of appends that did not fail are unique because no such append can make the
claim of one that is between its precondition and its closing half
(`ClaimsGuarded`), only one thread being there, and what a late flush adds belongs to one
that failed; this needs no `FileInv`. The refinement maps `WriteClose` to `Commit` and every other step
to a stutter.

**The run ledger.** The inductive invariant of `RunLedgerProofs` is `TypeOK /\ LockOrder`.
None of its promises is inductive alone: that
no two runs share a prediction after a write follows only if at the write the
prediction is still free of other runs, which is `BindingIsFree`, which survives the steps
of other submissions only because they cannot write while the lock is held
(`LockIsHeld`), and only if a run that has a binding has passed its write
(`RecordedAtWrite`). The slots go the same way with `SlotIsFree`, where the number
in flight may only fall while the lock is held; `CommandsHaveRecords` says that no
operator command turns an absent run into a recorded one. The proofs have a
lemma per action and per part of the invariant it disturbs.
`BindingsArePermanent` is an action property: the invariant gives that only
`WriteRecord` and `RecordSmoke` replace a record, and that the record they replace
is blank.

Money needs `MoneyInv` of `AdmissionProofs`, which adds `MoneyIsFree`: what
`RecheckCeilings` found room for, with the candidates it saw, still fits when the
record is written, because while the lock is held no event of any run is
written and a run can at most leave the window, which makes the spend fall
(`SpendFalls`). With the part before it this is `ChecksStand`, and it is all that the lock
gives: a retraction, a campaign that opens on the same prediction and a candidate that is
booked are on other ledgers, and the project's ceiling is passed by just those
candidates (`AdmissionsAreAffordable`). What is left of it is the guard of `Admission`'s step,
which knows of the monthly spend, the slots and the bindings of runs, so the refinement follows: a
`WriteRecord` is `Admit`, a `RecordSmoke` is `Smoke`, what closes a run is `Close`, the
calendar is `Lapse`, and the rest are stutters.
`ResultsStand` needs `ResultInv`: a command that will close a run read it
uncollected, a run that was collected had a handle (`HandleOrder`), and so no
submission is still between its record and its handle.

**Campaigns.** `CampaignInv` relates the position of the process to what the ledgers
say: the candidates are those of the generations behind it and of the slots that
are done (`SlotsAreCollected`), the recorded generations the same
(`GenerationsAreRecorded`), the programs of waiting and running slots are new
(`FreshPrograms`), no generation has counted between a halt and the next boundary
(`OneRunAfterHalt`). What it says of slots it says as long as threads are at work (`AtWork`),
those that an interrupt left behind under a campaign already closed included. The safety properties follow from it but one.
`SpendBounded` needs the sum of what is booked and of what the generation each
campaign is in may still cost (`ExposureBounded`): a boundary adds one generation to it
only where the whole of what is left fitted the ceiling, and finishing an
evaluation moves cost from one term to the other.

**Tasks.** The invariant is `TypeOK /\ TaskOrder /\ StopOrder`, the order in
which a task lives and what a stop knows at each of its steps. `HeldIsRunning` is not
inductive: that a clear does not forget a task that runs depends on its list,
made earlier, naming only tasks whose supervisor is gone and never comes back.
`ExitStands` depends on a stop that is about to record being the only one left that
may, but for other stops, which record the same. The ceiling needs
`RunningBounded`, on what the registry shows as running rather than on the
supervisors that hold a command: only `RecordStarted` lets that set grow, by one, and
only where it found room. That a command that dies of a SIGTERM runs only while its
supervisor holds it (`CommandsAreHeld`) makes the bound one on such commands too, and gives
`WillingTasksAreOver`; a command that handles the signal may outlive its supervisor, and
is then in no count, the code's or the property's.

**Wakes.** The invariant is `TypeOK`, `ArmOrder` (a watcher is spawned once, before
the record, and looks at a record only), `PostOrder` (what the app has of a wake its
watcher has posted, and posted once, after the firing was recorded) and `QueuedOnce`.
`CancelsAreSeen` is proved from a second predicate that no step leaves, `Hushed`:
cancelled, not posted, and the watcher before its look or gone. `TurnsAreRecorded` needs `fired`
beside the fold: where a cancel and a clear come before the firing, the fold never shows it.

**Sums, extrema and loops.** What a recursive definition computes is usually
shown by induction, which the provers here cannot be given as a rule. The lemmas
of `SumTheorems` (a sum over a finite set exists, moves by what one term moves by, is
monotone; every finite set of numbers has a least and a greatest) and the section on reading of `JsonlLogProofs`
argue from a smallest counterexample instead: the least set, or the least
number, for which the statement fails.

Model-checked only, because they are about liveness under fairness: `AppendsEnd`,
`LockIsReleased`, `StaleIsCleared`, `SupervisorsSettle`, `StopsAreRecorded`,
`WatchersEnd` and `CampaignsEnd`.

## 5. Plan

Written so far: the file, the run ledger over it, which is where money is
committed, the campaigns, and the detached processes, with every safety property
proved. Next, in this order:

1. `Budget`: the fold of `budgets.jsonl`: create, raise, configure, close, and
   which ceiling a check sees.
2. `Preflight`: check records per hash and `update_json`, whose lock is on a sidecar
   file because `os.replace` changes the inode.
3. `Polling`: `record_finished` ("the first writer wins"), elapsed hours and the costs they
   give, two status commands at once.
4. `KaggleQuota`: the weekly pool on the lock of the run ledger.
5. `Update`: the instance lock, the update marker and a second instance.
6. `Evolution`: parent selection and migration as functions of the ledger,
   against a reference definition.
7. `UiTasks`: the commands a window starts, which die with it.

Not modelled, and why: the rest of the desktop interface, papers, notebooks and
reports (rendering and I/O), configuration, credentials and paths (look-ups),
HTTP clients, the archive and version control calls whose failures are swallowed
and which no gate reads.
