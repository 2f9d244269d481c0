-------------------------- MODULE AdmissionProofs ----------------------------
(***************************************************************************)
(* Proofs about what the submit path of RunLedger promises, for any number *)
(* of submissions, operators and campaigns: the money it checked under the *)
(* lock is still there when it writes, so that every admission lands under *)
(* the ceilings, and the whole of it is the atomic admission of module     *)
(* Admission.                                                              *)
(***************************************************************************)
EXTENDS RunLedgerProofs, SumTheorems

\* A submission past the first gate names a prediction, and only what is recorded
\* can be old.
NamesPrediction ==
    \A r \in Runs : pc[r] \in BeforeRecord \ {"idle"} => args[r].exp \in Expectations

AgedAreRecorded == \A r \in aged : Recorded(r)

MoneyInv == Inv /\ MoneyIsFree /\ NamesPrediction /\ AgedAreRecorded

-----------------------------------------------------------------------------
(* What a step does to the fold.                                           *)

\* A collection, a write-off or a failed launch closes a run that is recorded.
Closes(r) ==
    /\ Recorded(r)
    /\ \E status \in Terminal, cost \in Nat, results \in BOOLEAN, dev \in Devs :
          Finished(r, status, cost, results, dev)

\* A handle or a verdict changes a field of a run that counts for nothing.
Marks(r) ==
    /\ Recorded(r) /\ lock = Nobody
    /\ \/ rec' = [rec EXCEPT ![r].handle = TRUE]
       \/ rec' = [rec EXCEPT ![r].dev = "judged"]

LEMMA LaunchingEvents ==
    ASSUME Inv, NEW r \in Runs, Launching(r)
    PROVE  aged' = aged /\ (rec' = rec \/ Closes(r) \/ Marks(r))
<1> USE DEF Go, clocks
<1>0. rec \in [Runs -> Record] /\ Recorded(r)
  <2>1. pc[r] \in {"recorded", "launched", "raised", "watching"}
    BY DEF Launching, Launch, LaunchRaises, FinishSubmitFailed, AttachHandle, WatchSmoke,
           FinishSmoke, Die
  <2> QED
    BY <2>1 DEF Inv, LockOrder, TypeOK, RecordedAtWrite, BeforeRecord
<1>1. CASE FinishSubmitFailed(r)
  BY <1>0, <1>1 DEF FinishSubmitFailed, Closes, Terminal, Devs
<1>2. CASE FinishSmoke(r)
  <2>1. PICK cost \in Actuals \cup {rec[r].est} : Finished(r, "completed", cost, FALSE, "none")
    BY <1>2 DEF FinishSmoke
  <2>2. cost \in Nat
    BY <1>0, LedgerAssumption DEF Record
  <2> QED
    BY <1>0, <1>2, <2>1, <2>2 DEF FinishSmoke, Closes, Terminal, Devs
<1>3. CASE AttachHandle(r)
  BY <1>0, <1>3 DEF AttachHandle, Marks
<1>4. CASE Launch(r) \/ LaunchRaises(r) \/ WatchSmoke(r) \/ Die(r)
  BY <1>4 DEF Launch, LaunchRaises, WatchSmoke, Die
<1> QED
  BY <1>1, <1>2, <1>3, <1>4 DEF Launching

LEMMA OperatingEvents ==
    ASSUME Inv, NEW o \in Operators, Operating(o)
    PROVE  aged' = aged /\ (rec' = rec \/ \E r \in Runs : Closes(r) \/ Marks(r))
<1> USE DEF clocks
<1>0. /\ rec \in [Runs -> Record]
      /\ op[o].cmd # "idle" => op[o].run \in Runs /\ Recorded(op[o].run)
  BY DEF Inv, TypeOK, LockOrder, CommandsHaveRecords
<1>1. CASE FinishCollect(o)
  <2> DEFINE r == op[o].run
  <2>1. PICK cost \in Actuals \cup {rec[r].est}, results \in BOOLEAN :
            \E dev \in Deviations(r, results) : Finished(r, "completed", cost, results, dev)
    BY <1>1 DEF FinishCollect
  <2>2. PICK dev \in Deviations(r, results) : Finished(r, "completed", cost, results, dev)
    BY <2>1
  <2>3. dev \in Devs /\ "completed" \in Terminal
    BY DEF Deviations, Devs, Terminal
  <2>4. r \in Runs /\ Recorded(r)
    BY <1>0, <1>1 DEF FinishCollect
  <2>5. cost \in Nat
    BY <1>0, <2>4, LedgerAssumption DEF Record
  <2>6. results \in BOOLEAN
    BY <2>1
  <2>7. aged' = aged
    BY <1>1 DEF FinishCollect
  <2> HIDE DEF r
  <2>8. Closes(r)
    BY <2>2, <2>3, <2>4, <2>5, <2>6 DEF Closes
  <2> QED
    BY <2>4, <2>7, <2>8
<1>2. CASE FinishWriteOff(o)
  <2>1. (IF op[o].cmd = "abandon" THEN "abandoned" ELSE "forgotten") \in Terminal
    BY DEF Terminal
  <2>2. op[o].run \in Runs /\ Recorded(op[o].run)
    BY <1>0, <1>2 DEF FinishWriteOff
  <2>3. Closes(op[o].run)
    BY <1>2, <2>1, <2>2 DEF FinishWriteOff, Closes, Devs
  <2> QED
    BY <1>2, <2>2, <2>3 DEF FinishWriteOff
<1>3. CASE FinishVerdict(o)
  <2>1. op[o].run \in Runs /\ Recorded(op[o].run)
    BY <1>0, <1>3 DEF FinishVerdict
  <2> QED
    BY <1>3, <2>1 DEF FinishVerdict, Marks
<1>4. CASE LeaveCommand(o) \/ \E r \in Runs : StartCollect(o, r) \/ StartAbandon(o, r)
                                              \/ StartForget(o, r) \/ StartVerdict(o, r)
  BY <1>4 DEF LeaveCommand, StartCollect, StartAbandon, StartForget, StartVerdict
<1> QED
  BY <1>1, <1>2, <1>3, <1>4 DEF Operating, Finish

\* The events that may reach the fold in a step, and who may age.
LEMMA Events ==
    ASSUME Inv, [Next]_vars
    PROVE  \/ /\ aged' = aged
              /\ \/ rec' = rec
                 \/ \E r \in Runs : WriteRecord(r) \/ RecordSmoke(r) \/ Closes(r) \/ Marks(r)
           \/ \E r \in Runs : LeavesSpendWindow(r) /\ rec' = rec
<1>1. ASSUME NEW r \in Runs, Submitting(r)
      PROVE  aged' = aged /\ (rec' = rec \/ WriteRecord(r) \/ RecordSmoke(r))
  BY <1>1 DEF Submitting, GateExpectation, GateSpend, GateStale, GateConcurrency, TakeLock,
              RecheckBinding, RecheckCeilings, WriteRecord, RecordSmoke, Withdraw, clocks
<1>2. ASSUME NEW r \in Runs, Environment(r)
      PROVE  rec' = rec /\ (aged' = aged \/ LeavesSpendWindow(r))
  BY <1>2 DEF Environment, JobEnds, JobVanishes, WindowCloses, LeavesSpendWindow, clocks
<1>3. CASE \/ \E e \in Expectations : Mint(e) \/ Falsify(e)
           \/ \E k \in Campaigns : Campaigning(k)
           \/ \E p \in DOMAIN Allocation : BookCandidate(p)
           \/ UNCHANGED vars
  BY <1>3 DEF Mint, Falsify, Campaigning, StartCampaign, OpenCampaign, DropCampaign, BookCandidate, vars, clocks
<1> QED
  BY <1>1, <1>2, <1>3, LaunchingEvents, OperatingEvents DEF Next

\* The fold waits for a submission that is about to write.
LEMMA FoldWaits ==
    ASSUME Inv, [Next]_vars, NEW r \in Runs, pc[r] = "cleared", pc'[r] = "cleared"
    PROVE  rec' = rec /\ aged \subseteq aged'
<1>0. lock = r /\ lock # Nobody
  BY LedgerAssumption DEF Inv, LockOrder, LockIsHeld
<1>1. ASSUME NEW s \in Runs PROVE ~WriteRecord(s)
  <2>1. SUFFICES ASSUME WriteRecord(s) PROVE FALSE
    OBVIOUS
  <2>2. s = r
    BY <1>0, <2>1 DEF WriteRecord, Go, Inv, LockOrder, LockIsHeld
  <2> QED
    BY <2>1, <2>2 DEF WriteRecord, Go, Inv, TypeOK
<1>2. ASSUME NEW s \in Runs PROVE ~RecordSmoke(s) /\ ~Closes(s) /\ ~Marks(s)
  BY <1>0 DEF RecordSmoke, Closes, Finished, Marks
<1>3. aged \subseteq aged'
  BY Events DEF LeavesSpendWindow
<1> QED
  BY <1>1, <1>2, <1>3, Events

\* And a submission keeps what it was started with until it writes.
LEMMA ArgsKept ==
    ASSUME Inv, [Next]_vars, NEW r \in Runs, pc[r] \in BeforeRecord \ {"idle"},
           pc'[r] \in BeforeRecord \ {"idle"}
    PROVE  /\ args'[r].exp = args[r].exp /\ args'[r].est = args[r].est
           /\ pc[r] = "cleared" => args'[r] = args[r]
<1> USE DEF ledgers, clocks
<1>0. /\ pc \in [Runs -> PCs] /\ args \in [Runs -> [exp : Bindable, est : Nat, seen : Nat]]
  BY DEF Inv, TypeOK
<1>1. ASSUME NEW s \in Runs, Submitting(s)
      PROVE  /\ args'[r].exp = args[r].exp /\ args'[r].est = args[r].est
             /\ pc[r] = "cleared" => args'[r] = args[r]
  <2>1. CASE GateExpectation(s)
    BY <1>0, <2>1 DEF GateExpectation, Go
  <2>2. CASE WriteRecord(s)
    BY <1>0, <2>2 DEF WriteRecord, Go, BeforeRecord
  <2>3. CASE Withdraw(s)
    BY <1>0, <2>3 DEF Withdraw
  <2>4. CASE GateSpend(s) \/ GateStale(s) \/ GateConcurrency(s) \/ TakeLock(s)
             \/ RecheckBinding(s) \/ RecordSmoke(s)
    BY <2>4 DEF GateSpend, GateStale, GateConcurrency, TakeLock, RecheckBinding, RecordSmoke
  <2>5. CASE RecheckCeilings(s)
    BY <1>0, <2>5 DEF RecheckCeilings, Go
  <2> QED
    BY <1>1, <2>1, <2>2, <2>3, <2>4, <2>5 DEF Submitting
<1>2. ASSUME NEW s \in Runs, Launching(s) PROVE args' = args
  BY <1>2 DEF Launching, Launch, LaunchRaises, FinishSubmitFailed, AttachHandle, WatchSmoke,
              FinishSmoke, Die
<1>3. ASSUME NEW o \in Operators, Operating(o) PROVE args' = args
  BY <1>3 DEF Operating, Finish, StartCollect, StartAbandon, StartForget, StartVerdict,
              FinishCollect, FinishWriteOff, FinishVerdict, LeaveCommand
<1>4. CASE \/ \E s \in Runs : Environment(s)
           \/ \E e \in Expectations : Mint(e) \/ Falsify(e)
           \/ \E k \in Campaigns : Campaigning(k)
           \/ \E p \in DOMAIN Allocation : BookCandidate(p)
           \/ UNCHANGED vars
  BY <1>4, OthersQuiet
<1> QED
  BY <1>1, <1>2, <1>3, <1>4 DEF Next

\* How a submission comes to the steps before its record.
LEMMA Entered ==
    ASSUME Inv, [Next]_vars, NEW r \in Runs
    PROVE  /\ pc'[r] = "cleared" /\ pc[r] # "cleared" => RecheckCeilings(r)
           /\ pc'[r] \in BeforeRecord \ {"idle"} /\ pc[r] \notin BeforeRecord \ {"idle"}
                 => GateExpectation(r)
<1> USE DEF BeforeRecord, Go
<1>0. pc \in [Runs -> PCs]
  BY DEF Inv, TypeOK
<1>1. ASSUME NEW s \in Runs, Submitting(s), s # r PROVE pc'[r] = pc[r]
  BY <1>0, <1>1 DEF Submitting, GateExpectation, GateSpend, GateStale, GateConcurrency, TakeLock,
              RecheckBinding, RecheckCeilings, WriteRecord, RecordSmoke, Withdraw
<1>2. ASSUME Submitting(r), ~RecheckCeilings(r), ~GateExpectation(r)
      PROVE  /\ pc'[r] # "cleared"
             /\ pc'[r] \in BeforeRecord \ {"idle"} => pc[r] \in BeforeRecord \ {"idle"}
  BY <1>0, <1>2 DEF Submitting, GateSpend, GateStale, GateConcurrency, TakeLock,
              RecheckBinding, WriteRecord, RecordSmoke, Withdraw
<1>3. GateExpectation(r) => pc[r] = "idle" /\ pc'[r] = "expected"
  BY <1>0 DEF GateExpectation
<1>4. RecheckCeilings(r) => pc[r] = "unbound"
  BY DEF RecheckCeilings
<1>5. ASSUME NEW s \in Runs, Launching(s)
      PROVE  pc'[r] = pc[r] \/ pc'[r] \notin BeforeRecord
  BY <1>0, <1>5 DEF Launching, Launch, LaunchRaises, FinishSubmitFailed, AttachHandle, WatchSmoke,
              FinishSmoke, Die
<1>6. ASSUME NEW o \in Operators, Operating(o) PROVE pc' = pc
  BY <1>6 DEF Operating, Finish, StartCollect, StartAbandon, StartForget, StartVerdict,
              FinishCollect, FinishWriteOff, FinishVerdict, LeaveCommand
<1>7. CASE \/ \E s \in Runs : Environment(s)
           \/ \E e \in Expectations : Mint(e) \/ Falsify(e)
           \/ \E k \in Campaigns : Campaigning(k)
           \/ \E p \in DOMAIN Allocation : BookCandidate(p)
           \/ UNCHANGED vars
  BY <1>7, OthersQuiet
<1>8. ASSUME NEW s \in Runs, Submitting(s)
      PROVE  /\ pc'[r] = "cleared" /\ pc[r] # "cleared" => RecheckCeilings(r)
             /\ pc'[r] \in BeforeRecord \ {"idle"} /\ pc[r] \notin BeforeRecord \ {"idle"}
                   => GateExpectation(r)
  BY <1>1, <1>2, <1>3, <1>4, <1>8
<1> QED
  BY <1>5, <1>6, <1>7, <1>8 DEF Next

-----------------------------------------------------------------------------
(* What the ledger counts.                                                 *)

Costs == [r \in Runs |-> CostForCeiling(r)]
InWindow == {r \in Runs : Recorded(r) /\ r \notin aged}
OfProject(p) == {r \in Runs : Recorded(r) /\ ProjectOf[r] = p}

LEMMA CostsTyped ==
    ASSUME TypeOK
    PROVE  \A r \in Runs : Costs[r] \in Nat
<1>1. \A r \in Runs : rec[r] \in Record
  BY DEF TypeOK
<1> QED
  BY <1>1 DEF Costs, CostForCeiling, Record

LEMMA SpendIsSum ==
    /\ RollingSpend = SumFunctionOnSet(Costs, InWindow)
    /\ \A p : RunSpend(p) = SumFunctionOnSet(Costs, OfProject(p))
  BY DEF RollingSpend, RunSpend, CostOf, Costs, InWindow, OfProject

\* Sums over sets of runs are numbers.
LEMMA CostsAdd ==
    ASSUME TypeOK, NEW S \in SUBSET Runs
    PROVE  IsFiniteSet(S) /\ SumFunctionOnSet(Costs, S) \in Nat
<1>1. IsFiniteSet(S)
  BY LedgerAssumption, FS_Subset
<1>2. \A r \in S : Costs[r] \in Nat
  BY CostsTyped
<1> QED
  BY <1>1, <1>2, SumPart

\* With the fold as it was and more of it old, less is spent.
LEMMA SpendFalls ==
    ASSUME TypeOK, rec' = rec, aged \subseteq aged'
    PROVE  /\ RollingSpend' <= RollingSpend
           /\ RollingSpend' \in Nat /\ RollingSpend \in Nat
           /\ \A p : RunSpend(p)' = RunSpend(p)
<1>1. Costs' = Costs /\ \A p : OfProject(p)' = OfProject(p)
  BY DEF Costs, CostForCeiling, Collected, OfProject, Recorded
<1>2. InWindow' \in SUBSET InWindow /\ InWindow \in SUBSET Runs
  BY DEF InWindow, Recorded
<1>3. /\ SumFunctionOnSet(Costs, InWindow') <= SumFunctionOnSet(Costs, InWindow)
      /\ SumFunctionOnSet(Costs, InWindow) \in Nat
      /\ SumFunctionOnSet(Costs, InWindow') \in Nat
  BY <1>2, CostsTyped, CostsAdd, SumPart
<1>4. RollingSpend' = SumFunctionOnSet(Costs', InWindow')
  BY DEF RollingSpend, CostOf, Costs, InWindow
<1>5. \A p : RunSpend(p)' = SumFunctionOnSet(Costs', OfProject(p)')
  BY DEF RunSpend, CostOf, Costs, OfProject
<1> QED
  BY <1>1, <1>3, <1>4, <1>5, SpendIsSum

\* A new run adds its estimate, or nothing where it does not count.
LEMMA SpendRises ==
    ASSUME TypeOK, TypeOK', NEW r \in Runs, ~Recorded(r), NEW est \in Nat,
           rec'[r].status = "in_flight", rec'[r].est = est,
           \A s \in Runs \ {r} : rec'[s] = rec[s],
           NEW S \in SUBSET Runs, r \notin S
    PROVE  /\ SumFunctionOnSet(Costs', S) = SumFunctionOnSet(Costs, S)
           /\ SumFunctionOnSet(Costs', S \cup {r}) = SumFunctionOnSet(Costs, S) + est
           /\ SumFunctionOnSet(Costs, S) \in Nat
<1>1. \A s \in S : Costs'[s] = Costs[s]
  BY DEF Costs, CostForCeiling, Collected
<1>2. Costs'[r] = est
  BY DEF Costs, CostForCeiling, Collected, Terminal
<1>3. \A s \in Runs : Costs[s] \in Nat
  BY CostsTyped
<1>4. IsFiniteSet(S) /\ SumFunctionOnSet(Costs, S) \in Nat
  BY CostsAdd
<1>5. SumFunctionOnSet(Costs', S) = SumFunctionOnSet(Costs, S)
  <2>1. \A s \in S : Costs[s] \in Int /\ Costs'[s] = Costs[s]
    BY <1>1, <1>3
  <2> QED
    BY <1>4, <2>1, SumSame
<1>6. SumFunctionOnSet(Costs', S \cup {r}) = Costs'[r] + SumFunctionOnSet(Costs', S)
  <2>1. \A s \in S \cup {r} : Costs'[s] \in Int
    BY <1>1, <1>2, <1>3
  <2> QED
    BY <1>4, <2>1, SumAdd
<1> QED
  BY <1>2, <1>4, <1>5, <1>6

-----------------------------------------------------------------------------
\* The ceilings with the candidates that the check under the lock found.
Fits(r) ==
    /\ SpendAllows(r)
    /\ Budgeted(r) =>
          RunSpend(ProjectOf[r]) + args[r].seen + args[r].est <= Allocation[ProjectOf[r]]

\* No run moves the money between the check under the lock and the write.
LEMMA NextBudget ==
    ASSUME Inv, [Next]_vars, MoneyIsFree
    PROVE  MoneyIsFree'
<1> SUFFICES ASSUME NEW r \in Runs, pc'[r] = "cleared" PROVE Fits(r)'
  BY DEF MoneyIsFree, Fits
<1>0. TypeOK /\ args[r].est \in Nat
  BY DEF Inv, TypeOK
<1>1. CASE pc[r] = "cleared"
  <2>1. rec' = rec /\ aged \subseteq aged' /\ args'[r] = args[r] /\ Fits(r)
    BY <1>1, FoldWaits, ArgsKept DEF MoneyIsFree, BeforeRecord, Fits
  <2>2. /\ RollingSpend' <= RollingSpend
        /\ RollingSpend' \in Nat /\ RollingSpend \in Nat
        /\ \A p : RunSpend(p)' = RunSpend(p)
    BY <1>0, <2>1, SpendFalls
  <2>3. SpendAllows(r)'
    BY <1>0, <2>1, <2>2, LedgerAssumption DEF SpendAllows, Fits
  <2> QED
    BY <2>1, <2>2, <2>3 DEF Fits, Budgeted
<1>2. CASE pc[r] # "cleared"
  <2>1. /\ SpendAllows(r) /\ ProjectAllows(r) /\ rec' = rec /\ aged' = aged
        /\ args' = [args EXCEPT ![r].seen = IF Budgeted(r) THEN booked[ProjectOf[r]] ELSE 0]
    BY <1>2, Entered DEF RecheckCeilings, CeilingsAllow, clocks
  <2>2. /\ args'[r].est = args[r].est
        /\ Budgeted(r) => args'[r].seen = booked[ProjectOf[r]]
    BY <1>0, <2>1 DEF TypeOK
  <2>3. RollingSpend' = RollingSpend /\ \A p : RunSpend(p)' = RunSpend(p)
    BY <2>1 DEF RollingSpend, RunSpend, CostOf, CostForCeiling, Collected, Recorded
  <2>4. SpendAllows(r)'
    BY <2>1, <2>2, <2>3 DEF SpendAllows
  <2> QED
    BY <2>1, <2>2, <2>3, <2>4 DEF Fits, Budgeted, ProjectAllows, ProjectSpend
<1> QED
  BY <1>1, <1>2

LEMMA NextNames ==
    ASSUME Inv, [Next]_vars, NamesPrediction
    PROVE  NamesPrediction'
<1> SUFFICES ASSUME NEW r \in Runs, pc'[r] \in BeforeRecord \ {"idle"}
             PROVE  args'[r].exp \in Expectations
  BY DEF NamesPrediction
<1>1. CASE pc[r] \in BeforeRecord \ {"idle"}
  BY <1>1, ArgsKept DEF NamesPrediction
<1>2. CASE pc[r] \notin BeforeRecord \ {"idle"}
  <2>1. GateExpectation(r)
    BY <1>2, Entered
  <2>2. minted \subseteq Expectations /\ args \in [Runs -> [exp : Bindable, est : Nat, seen : Nat]]
    BY DEF Inv, TypeOK
  <2> QED
    BY <2>1, <2>2 DEF GateExpectation
<1> QED
  BY <1>1, <1>2

LEMMA NextAged ==
    ASSUME Inv, [Next]_vars, AgedAreRecorded
    PROVE  AgedAreRecorded'
<1>1. \A s \in Runs : Recorded(s) => Recorded(s)'
  <2>1. ASSUME NEW r \in Runs, WriteRecord(r) PROVE \A s \in Runs : Recorded(s) => Recorded(s)'
    BY <2>1, WrittenRecord DEF Recorded
  <2>2. ASSUME NEW r \in Runs, RecordSmoke(r) PROVE \A s \in Runs : Recorded(s) => Recorded(s)'
    BY <2>2, SmokeRecord DEF Recorded
  <2> QED
    BY <2>1, <2>2, FoldStep DEF Keeps
<1>2. aged \subseteq Runs
  BY DEF Inv, TypeOK
<1> QED
  BY <1>1, <1>2, Events DEF AgedAreRecorded, LeavesSpendWindow

LEMMA InitMoney == Init => MoneyInv
<1> SUFFICES ASSUME Init PROVE MoneyInv
  OBVIOUS
<1>1. Inv
  BY InitTyped, InitChecks DEF Inv
<1> QED
  BY <1>1 DEF Init, MoneyInv, MoneyIsFree, NamesPrediction, AgedAreRecorded

LEMMA NextMoney == MoneyInv /\ [Next]_vars => MoneyInv'
  BY NextTyped, NextChecks, NextBudget, NextNames, NextAged DEF MoneyInv, Inv

\* Whatever the other submissions and commands do between its steps, the prediction, the
\* slot and the money that a submission has found free under the lock of runs.jsonl are
\* not taken by another run before it writes; campaigns and retractions have ledgers
\* and locks of their own, and nothing is said of them.
THEOREM SubmissionIsAtomic == Spec => []ChecksStand
<1>1. MoneyInv => ChecksStand
  BY DEF MoneyInv, Inv, LockOrder, ChecksStand
<1> QED
  BY <1>1, InitMoney, NextMoney, PTL DEF Spec

\* A gated record adds its estimate to what is spent, and one run to what is in
\* flight.
LEMMA AdmissionAdds ==
    ASSUME MoneyInv, MoneyInv', NEW r \in Runs, WriteRecord(r)
    PROVE  /\ Fits(r) /\ args[r].est \in Nat /\ args[r].seen \in Nat
           /\ rec'[r].est = args[r].est
           /\ RollingSpend' = RollingSpend + args[r].est
           /\ RollingSpend \in Nat
           /\ RunSpend(ProjectOf[r])' = RunSpend(ProjectOf[r]) + args[r].est
           /\ RunSpend(ProjectOf[r]) \in Nat
           /\ booked' = booked
<1>0. TypeOK /\ TypeOK' /\ Inv
  BY DEF MoneyInv, Inv
<1>1. Fits(r) /\ args[r].est \in Nat /\ args[r].seen \in Nat
  BY <1>0 DEF MoneyInv, MoneyIsFree, Fits, WriteRecord, Go, TypeOK
<1>2. /\ ~Recorded(r) /\ rec'[r].status = "in_flight"
      /\ \A s \in Runs \ {r} : rec'[s] = rec[s]
  BY <1>0, WrittenRecord
<1>3. rec'[r].est = args[r].est
  BY <1>0 DEF WriteRecord, NoRecord, TypeOK
<1>4. r \notin aged /\ aged' = aged
  BY <1>2 DEF MoneyInv, AgedAreRecorded, WriteRecord, clocks
<1>5. ASSUME NEW S \in SUBSET Runs, r \notin S
      PROVE  /\ SumFunctionOnSet(Costs', S \cup {r}) = SumFunctionOnSet(Costs, S) + args[r].est
             /\ SumFunctionOnSet(Costs, S) \in Nat
  BY <1>0, <1>1, <1>2, <1>3, <1>5, SpendRises
<1>6. InWindow' = InWindow \cup {r} /\ InWindow \in SUBSET Runs /\ r \notin InWindow
  BY <1>2, <1>4 DEF InWindow, Recorded
<1> DEFINE p == ProjectOf[r]
<1>7. /\ OfProject(p)' = OfProject(p) \cup {r}
      /\ OfProject(p) \in SUBSET Runs /\ r \notin OfProject(p)
  BY <1>2 DEF OfProject, Recorded
<1>8. RollingSpend' = SumFunctionOnSet(Costs', InWindow')
  BY DEF RollingSpend, CostOf, Costs, InWindow
<1>9. RunSpend(p)' = SumFunctionOnSet(Costs', OfProject(p)')
  BY DEF RunSpend, CostOf, Costs, OfProject
<1>10. RollingSpend' = RollingSpend + args[r].est /\ RollingSpend \in Nat
  BY <1>5, <1>6, <1>8, SpendIsSum
<1>11. RunSpend(p)' = RunSpend(p) + args[r].est /\ RunSpend(p) \in Nat
  BY <1>5, <1>7, <1>9, SpendIsSum
<1>12. booked' = booked
  BY DEF WriteRecord, ledgers
<1> QED
  BY <1>1, <1>3, <1>10, <1>11, <1>12

\* What a submission that lands leaves of the allocation of its project.
WithinAllocation(r) ==
    Budgeted(r) =>
        ProjectSpend(ProjectOf[r])'
            <= Allocation[ProjectOf[r]] + (booked[ProjectOf[r]] - args[r].seen)

\* A submission that lands, lands under the ceilings it was gated on.
LEMMA StepAdmits ==
    ASSUME MoneyInv, MoneyInv', [Next]_vars, NEW r \in Runs, Admits(r)
    PROVE  /\ WriteRecord(r)
           /\ RollingSpend' <= Monthly
           /\ Cardinality(InFlight') <= MaxConcurrent(r)
           /\ WithinAllocation(r)
<1>0. Inv
  BY DEF MoneyInv
<1>1. WriteRecord(r)
  <2>1. ASSUME NEW s \in Runs, WriteRecord(s) PROVE s = r
    BY <1>0, <2>1, WrittenRecord DEF Admits
  <2>2. ASSUME NEW s \in Runs PROVE ~RecordSmoke(s)
    BY <1>0, SmokeRecord DEF Admits
  <2> QED
    BY <1>0, <2>1, <2>2, FoldStep DEF Admits, Keeps
<1>2. /\ Fits(r) /\ args[r].est \in Nat /\ args[r].seen \in Nat
      /\ RollingSpend' = RollingSpend + args[r].est
      /\ RollingSpend \in Nat
      /\ RunSpend(ProjectOf[r])' = RunSpend(ProjectOf[r]) + args[r].est
      /\ RunSpend(ProjectOf[r]) \in Nat
      /\ booked' = booked
  BY <1>1, AdmissionAdds
<1>3. RollingSpend' <= Monthly
  BY <1>2 DEF Fits, SpendAllows
<1>4. WithinAllocation(r)
  <2> SUFFICES ASSUME Budgeted(r)
               PROVE  ProjectSpend(ProjectOf[r])'
                        <= Allocation[ProjectOf[r]] + (booked[ProjectOf[r]] - args[r].seen)
    BY DEF WithinAllocation
  <2>1. booked[ProjectOf[r]] \in Nat /\ Allocation[ProjectOf[r]] \in Nat
    BY <1>0, LedgerAssumption DEF Budgeted, Inv, TypeOK
  <2>2. RunSpend(ProjectOf[r]) + args[r].seen + args[r].est <= Allocation[ProjectOf[r]]
    BY <1>2 DEF Fits
  <2>3. ProjectSpend(ProjectOf[r])'
            = (RunSpend(ProjectOf[r]) + args[r].est) + booked[ProjectOf[r]]
    BY <1>2 DEF ProjectSpend
  <2> QED
    BY <1>2, <2>1, <2>2, <2>3
<1>5. Cardinality(InFlight') <= MaxConcurrent(r)
  <2>1. InFlight' = InFlight \cup {r} /\ Cardinality(InFlight) < MaxConcurrent(r)
    BY <1>0, <1>1, WrittenRecord DEF InFlight
  <2>2. IsFiniteSet(InFlight) /\ Cardinality(InFlight) \in Nat
    BY GatedFinite, FS_CardinalityType
  <2>3. Cardinality(InFlight') \in Nat /\ Cardinality(InFlight') <= Cardinality(InFlight) + 1
    BY <2>1, <2>2, FS_AddElement, FS_CardinalityType
  <2>4. MaxConcurrent(r) \in Int
    BY LedgerAssumption DEF MaxConcurrent
  <2> QED
    BY <2>1, <2>2, <2>3, <2>4
<1> QED
  BY <1>1, <1>3, <1>4, <1>5

\* With any number of submissions racing and any costs collected meanwhile, a gated
\* submission that lands leaves the monthly spend and the slots under the ceilings it
\* was gated on, and its project over the allocation by no more than campaigns booked
\* between the check under the lock and the write (spend_precondition, core/submit.py).
THEOREM AdmissionsAreAffordable == Spec => AdmittedUnderCeilings
<1>1. MoneyInv /\ MoneyInv' /\ [Next]_vars =>
        [\A r \in Runs : Admits(r) =>
          /\ RollingSpend' <= Monthly
          /\ Cardinality(InFlight') <= MaxConcurrent(r)
          /\ Budgeted(r) =>
                ProjectSpend(ProjectOf[r])'
                    <= Allocation[ProjectOf[r]] + (booked[ProjectOf[r]] - args[r].seen)]_vars
  BY StepAdmits DEF WithinAllocation
<1> QED
  BY <1>1, InitMoney, NextMoney, PTL DEF Spec, AdmittedUnderCeilings

-----------------------------------------------------------------------------
(* The refinement of Admission.                                            *)

\* A sum and a cardinality mean the same in both modules.
LEMMA SameOperators ==
    /\ \A f, S : Promise!SumFunctionOnSet(f, S) = SumFunctionOnSet(f, S)
    /\ \A S : Promise!Cardinality(S) = Cardinality(S)
<1>1. \A f, S : Promise!SumFunctionOnSet(f, S) = SumFunctionOnSet(f, S)
  BY DEF Promise!SumFunctionOnSet, Promise!FoldFunctionOnSet, Promise!MapThenFoldSet,
         SumFunctionOnSet, FoldFunctionOnSet, MapThenFoldSet
<1>2. \A S : Promise!Cardinality(S) = Cardinality(S)
  BY DEF Promise!Cardinality, Cardinality
<1> QED
  BY <1>1, <1>2

\* What the abstract ledger counts is the rolling spend, and its open runs are
\* those in flight.
LEMMA TotalIsSpend ==
    ASSUME TypeOK
    PROVE  Promise!Total = RollingSpend
<1>1. \A r \in Runs : Costs[r] \in Int /\ Charges[r] = IF r \in InWindow THEN Costs[r] ELSE 0
  BY CostsTyped DEF Charges, Counted, Costs, InWindow, Recorded, CostForCeiling, Collected
<1>2. InWindow \in SUBSET Runs /\ IsFiniteSet(Runs)
  BY LedgerAssumption DEF InWindow
<1>3. SumFunctionOnSet(Charges, Runs) = SumFunctionOnSet(Costs, InWindow)
  BY <1>1, <1>2, SumZeros
<1> QED
  BY <1>3, SpendIsSum, SameOperators DEF Promise!Total

LEMMA OpenIsInFlight ==
    ASSUME TypeOK
    PROVE  Promise!Open = InFlight
<1>1. \A r \in Runs : rec[r].status \in Statuses
  BY DEF TypeOK, Record
<1> QED
  BY <1>1 DEF Promise!Open, Phases, InFlight, Statuses, Terminal

LEMMA InitPromised == Init => Promise!Init
<1> SUFFICES ASSUME Init PROVE Promise!Init
  OBVIOUS
<1>1. \A r \in Runs : rec[r].status = "absent" /\ rec[r].exp = NoExp
  BY DEF Init, NoRecord
<1>2. Phases = [r \in Runs |-> "absent"]
  BY <1>1 DEF Phases, Terminal
<1>3. Bindings = [r \in Runs |-> NoExp]
  BY <1>1 DEF Bindings
<1>4. Charges = [r \in Runs |-> 0]
  BY <1>1 DEF Charges, Counted
<1> QED
  BY <1>2, <1>3, <1>4 DEF Promise!Init

\* An event of one run moves that run alone.
LEMMA OneRunMoves ==
    ASSUME NEW r \in Runs, \A s \in Runs \ {r} : rec'[s] = rec[s], aged' = aged
    PROVE  /\ Phases' = [Phases EXCEPT ![r] = Phases'[r]]
           /\ Bindings' = [Bindings EXCEPT ![r] = Bindings'[r]]
           /\ Charges' = [Charges EXCEPT ![r] = Charges'[r]]
<1>1. Phases' = [Phases EXCEPT ![r] = Phases'[r]]
  BY DEF Phases
<1>2. Bindings' = [Bindings EXCEPT ![r] = Bindings'[r]]
  BY DEF Bindings
<1>3. Charges' = [Charges EXCEPT ![r] = Charges'[r]]
  BY DEF Charges, Counted
<1> QED
  BY <1>1, <1>2, <1>3

LEMMA WritePromised ==
    ASSUME MoneyInv, MoneyInv', NEW r \in Runs, WriteRecord(r)
    PROVE  Promise!Admit(r, args[r].exp, args[r].est)
           /\ args[r].exp \in Expectations /\ args[r].est \in 0 .. PerJob
<1>0. TypeOK /\ Inv /\ aged' = aged
  BY DEF MoneyInv, Inv, WriteRecord, clocks
<1>1. /\ ~Recorded(r) /\ rec'[r].status = "in_flight" /\ rec'[r].exp = args[r].exp
      /\ args[r].exp \notin RunBound /\ Cardinality(InFlight) < MaxConcurrent(r)
      /\ \A s \in Runs \ {r} : rec'[s] = rec[s]
  BY <1>0, WrittenRecord
<1>2. /\ SpendAllows(r) /\ args[r].est \in Nat /\ rec'[r].est = args[r].est
      /\ RollingSpend \in Nat
  BY AdmissionAdds DEF Fits
<1>3. args[r].exp \in Expectations
  BY DEF MoneyInv, NamesPrediction, WriteRecord, Go, BeforeRecord
<1>4. args[r].exp \notin {Bindings[s] : s \in Runs}
  BY <1>1, <1>3, LedgerAssumption DEF RunBound, Bindings
<1>5. Promise!Total + args[r].est <= Monthly /\ args[r].est <= PerJob
  BY <1>0, <1>2, TotalIsSpend DEF SpendAllows
<1>6. Cardinality(Promise!Open) < Ceilings[r]
  BY <1>0, <1>1, OpenIsInFlight DEF Ceilings
<1>7. Phases[r] = "absent" /\ Phases'[r] = "open" /\ Bindings'[r] = args[r].exp
  BY <1>1 DEF Phases, Bindings, Recorded, Terminal
<1>8. Charges'[r] = args[r].est
  <2>1. r \notin aged'
    BY <1>0, <1>1 DEF MoneyInv, AgedAreRecorded
  <2> QED
    BY <1>1, <1>2, <2>1 DEF Charges, Counted, Terminal
<1>9. Promise!Enter(r, args[r].exp, args[r].est)
  BY <1>0, <1>1, <1>7, <1>8, OneRunMoves DEF Promise!Enter
<1>10. args[r].est \in 0 .. PerJob
  BY <1>2, <1>5, LedgerAssumption
<1> QED
  BY <1>3, <1>4, <1>5, <1>6, <1>9, <1>10, SameOperators DEF Promise!Admit

LEMMA SmokePromised ==
    ASSUME MoneyInv, NEW r \in Runs, RecordSmoke(r)
    PROVE  Promise!Smoke(r)
<1>0. Inv /\ aged' = aged /\ rec \in [Runs -> Record]
  BY DEF MoneyInv, Inv, TypeOK, RecordSmoke, clocks
<1>1. /\ ~Recorded(r) /\ rec'[r].status = "in_flight" /\ rec'[r].exp = NoExp
      /\ \A s \in Runs \ {r} : rec'[s] = rec[s]
  BY <1>0, SmokeRecord
<1>2. rec'[r].est = SmokeCap
  BY <1>0 DEF RecordSmoke, NoRecord
<1>3. Phases[r] = "absent" /\ Phases'[r] = "open" /\ Bindings'[r] = NoExp
  BY <1>1 DEF Phases, Bindings, Recorded, Terminal
<1>4. Charges'[r] = SmokeCap
  <2>1. r \notin aged'
    BY <1>0, <1>1 DEF MoneyInv, AgedAreRecorded
  <2> QED
    BY <1>1, <1>2, <2>1 DEF Charges, Counted, Terminal
<1> QED
  BY <1>0, <1>1, <1>3, <1>4, OneRunMoves DEF Promise!Enter, Promise!Smoke

LEMMA ClosePromised ==
    ASSUME MoneyInv, NEW r \in Runs, Closes(r), aged' = aged
    PROVE  Promise!Close(r, Charges'[r])
<1>0. rec \in [Runs -> Record]
  BY DEF MoneyInv, Inv, TypeOK
<1>1. PICK status \in Terminal, cost \in Nat, results \in BOOLEAN, dev \in Devs :
          Finished(r, status, cost, results, dev)
  BY DEF Closes
<1> DEFINE new == Closed(rec[r], status, cost, results, dev)
<1>2. rec' = [rec EXCEPT ![r] = new]
  BY <1>1 DEF Finished
<1>3. new.status \in Terminal /\ new.exp = rec[r].exp
  BY <1>0 DEF Closed, Record
<1> HIDE DEF new
<1>4. rec'[r] = new /\ \A s \in Runs \ {r} : rec'[s] = rec[s]
  BY <1>0, <1>2
<1>5. Phases[r] # "absent"
  BY DEF Phases, Closes, Recorded, Terminal
<1>6. Phases'[r] = "closed"
  BY <1>3, <1>4 DEF Phases
<1>7. Bindings' = Bindings
  BY <1>3, <1>4 DEF Bindings
<1> QED
  BY <1>4, <1>5, <1>6, <1>7, OneRunMoves DEF Promise!Close

LEMMA MarkPromised ==
    ASSUME MoneyInv, NEW r \in Runs, Marks(r), aged' = aged
    PROVE  UNCHANGED Promise!vars
<1>0. rec \in [Runs -> Record]
  BY DEF MoneyInv, Inv, TypeOK
<1>1. \A s \in Runs : /\ rec'[s].status = rec[s].status /\ rec'[s].exp = rec[s].exp
                      /\ rec'[s].act = rec[s].act /\ rec'[s].est = rec[s].est
  BY <1>0 DEF Marks, Record
<1>2. Phases' = Phases
  BY <1>1 DEF Phases
<1>3. Bindings' = Bindings
  BY <1>1 DEF Bindings
<1>4. Charges' = Charges
  BY <1>1 DEF Charges, Counted
<1> QED
  BY <1>2, <1>3, <1>4 DEF Promise!vars

LEMMA LapsePromised ==
    ASSUME NEW r \in Runs, LeavesSpendWindow(r), rec' = rec
    PROVE  Promise!Lapse(r)
<1>1. aged' = aged \cup {r} /\ Recorded(r)
  BY DEF LeavesSpendWindow
<1>2. Phases' = Phases /\ Bindings' = Bindings
  BY DEF Phases, Bindings
<1>3. Phases[r] # "absent"
  BY <1>1 DEF Phases, Recorded, Terminal
<1>4. Charges' = [Charges EXCEPT ![r] = 0]
  BY <1>1 DEF Charges, Counted
<1> QED
  BY <1>2, <1>3, <1>4 DEF Promise!Lapse

LEMMA StepPromised ==
    ASSUME MoneyInv, MoneyInv', [Next]_vars
    PROVE  [Promise!Next]_Promise!vars
<1>0. Inv
  BY DEF MoneyInv
<1>1. ASSUME NEW r \in Runs, WriteRecord(r) PROVE Promise!Next
  BY <1>1, WritePromised DEF Promise!Next
<1>2. ASSUME NEW r \in Runs, RecordSmoke(r) PROVE Promise!Next
  BY <1>2, SmokePromised DEF Promise!Next
<1>3. ASSUME NEW r \in Runs, Closes(r), aged' = aged PROVE Promise!Next
  BY <1>3, ClosePromised DEF Promise!Next
<1>4. ASSUME NEW r \in Runs, Marks(r), aged' = aged PROVE UNCHANGED Promise!vars
  BY <1>4, MarkPromised
<1>5. ASSUME NEW r \in Runs, LeavesSpendWindow(r), rec' = rec PROVE Promise!Next
  BY <1>5, LapsePromised DEF Promise!Next
<1>6. CASE rec' = rec /\ aged' = aged
  BY <1>6 DEF Promise!vars, Phases, Bindings, Charges, Counted
<1> QED
  BY <1>0, <1>1, <1>2, <1>3, <1>4, <1>5, <1>6, Events

\* The gates, the lock of runs.jsonl and the checks repeated under it come to an
\* atomic admission: every step of every command of the ledger is one step of
\* Admission, or none of its business.
THEOREM SubmissionIsAdmission == Spec => ImplementsAdmission
<1>1. MoneyInv /\ MoneyInv' /\ [Next]_vars => [Promise!Next]_Promise!vars
  BY StepPromised
<1> QED
  BY <1>1, InitPromised, InitMoney, NextMoney, PTL DEF Spec, ImplementsAdmission, Promise!Spec

-----------------------------------------------------------------------------
(* What a collection recorded.                                             *)

\* A command that will close a run found it uncollected, and a run that was
\* collected had a handle: no submission is between its record and its handle.
HandleOrder ==
    \A r \in Runs :
        /\ pc[r] \in {"recorded", "launched", "raised"} => ~rec[r].handle
        /\ pc[r] = "watching" => rec[r].smoke
        /\ rec[r].status = "completed" /\ ~rec[r].smoke => rec[r].handle

CommandOrder ==
    \A o \in Operators :
        /\ op[o].cmd = "collect" => rec[op[o].run].handle
        /\ op[o].cmd \in {"collect", "abandon", "forget"}
              => rec[op[o].run].status # "completed" \/ rec[op[o].run].smoke

ResultInv == Inv /\ HandleOrder /\ CommandOrder

\* An event of a run says nothing of the others.
Unmoved(r) == \A s \in Runs \ {r} : rec'[s] = rec[s]

\* What Finished does to the fields that matter here.
LEMMA FinishedFields ==
    ASSUME rec \in [Runs -> Record], NEW r \in Runs, NEW status, NEW cost, NEW results, NEW dev,
           Finished(r, status, cost, results, dev)
    PROVE  /\ Unmoved(r) /\ rec'[r].status = status
           /\ rec'[r].handle = rec[r].handle /\ rec'[r].smoke = rec[r].smoke
<1>1. rec' = [rec EXCEPT ![r] = Closed(rec[r], status, cost, results, dev)]
  BY DEF Finished
<1>2. /\ Closed(rec[r], status, cost, results, dev).status = status
      /\ Closed(rec[r], status, cost, results, dev).handle = rec[r].handle
      /\ Closed(rec[r], status, cost, results, dev).smoke = rec[r].smoke
  BY DEF Closed, Record
<1> QED
  BY <1>1, <1>2 DEF Unmoved

LEMMA SubmittingResults ==
    ASSUME ResultInv, NEW r \in Runs, Submitting(r)
    PROVE  HandleOrder' /\ CommandOrder'
<1> USE DEF Go, BeforeRecord
<1>0. /\ pc \in [Runs -> PCs] /\ rec \in [Runs -> Record]
      /\ \A o \in Operators : op[o].cmd # "idle" => op[o].run \in Runs /\ Recorded(op[o].run)
  BY DEF ResultInv, Inv, TypeOK, LockOrder, CommandsHaveRecords
<1>1. CASE WriteRecord(r) \/ RecordSmoke(r)
  <2>1. /\ ~Recorded(r) /\ rec'[r].status = "in_flight" /\ ~rec'[r].handle /\ Unmoved(r)
        /\ pc'[r] = "recorded" /\ \A s \in Runs \ {r} : pc'[s] = pc[s]
        /\ op' = op
    <3>1. Inv /\ pc \in [Runs -> PCs] /\ rec \in [Runs -> Record]
      BY <1>0 DEF ResultInv
    <3>2. ~Recorded(r) /\ rec'[r].status = "in_flight" /\ Unmoved(r)
      BY <1>1, <3>1, WrittenRecord, SmokeRecord DEF Unmoved
    <3>3. ~rec'[r].handle
      <4>1. CASE WriteRecord(r)
        BY <3>1, <4>1 DEF WriteRecord, NoRecord
      <4>2. CASE RecordSmoke(r)
        BY <3>1, <4>2 DEF RecordSmoke, NoRecord
      <4> QED
        BY <1>1, <4>1, <4>2
    <3>4. /\ pc'[r] = "recorded" /\ \A s \in Runs \ {r} : pc'[s] = pc[s]
          /\ op' = op
      BY <1>1, <3>1 DEF WriteRecord, RecordSmoke
    <3> QED
      BY <3>2, <3>3, <3>4
  <2>2. HandleOrder'
    BY <2>1 DEF HandleOrder, ResultInv, Unmoved
  <2>3. CommandOrder'
    BY <1>0, <2>1 DEF CommandOrder, ResultInv, Unmoved
  <2> QED
    BY <2>2, <2>3
<1>2. CASE ~(WriteRecord(r) \/ RecordSmoke(r))
  <2>1. /\ rec' = rec /\ op' = op /\ pc'[r] \in BeforeRecord
        /\ \A s \in Runs \ {r} : pc'[s] = pc[s]
    BY <1>0, <1>2 DEF Submitting, GateExpectation, GateSpend, GateStale, GateConcurrency, TakeLock,
                RecheckBinding, RecheckCeilings, Withdraw
  <2> QED
    BY <2>1 DEF HandleOrder, CommandOrder, ResultInv
<1> QED
  BY <1>1, <1>2

LEMMA LaunchingResults ==
    ASSUME ResultInv, NEW r \in Runs, Launching(r)
    PROVE  HandleOrder' /\ CommandOrder'
<1> USE DEF Go
<1>0. /\ pc \in [Runs -> PCs] /\ rec \in [Runs -> Record]
      /\ \A o \in Operators : op[o].cmd # "idle" => op[o].run \in Runs
  BY DEF ResultInv, Inv, TypeOK, LockOrder, CommandsHaveRecords
<1>1. ASSUME NEW status, NEW cost, NEW results, NEW dev, op' = op,
             Finished(r, status, cost, results, dev), pc' = [pc EXCEPT ![r] = "done"],
             status = "completed" => rec[r].smoke
      PROVE  HandleOrder' /\ CommandOrder'
  <2>1. /\ Unmoved(r) /\ rec'[r].status = status
        /\ rec'[r].handle = rec[r].handle /\ rec'[r].smoke = rec[r].smoke
    BY <1>0, <1>1, FinishedFields
  <2>2. HandleOrder'
    BY <1>0, <1>1, <2>1 DEF HandleOrder, ResultInv, Unmoved
  <2>3. CommandOrder'
    BY <1>0, <1>1, <2>1 DEF CommandOrder, ResultInv, Unmoved
  <2> QED
    BY <2>2, <2>3
<1>2. CASE FinishSubmitFailed(r)
  BY <1>1, <1>2 DEF FinishSubmitFailed
<1>3. CASE FinishSmoke(r)
  <2>1. PICK cost : Finished(r, "completed", cost, FALSE, "none")
    BY <1>3 DEF FinishSmoke
  <2>2. rec[r].smoke
    BY <1>3 DEF FinishSmoke, ResultInv, HandleOrder
  <2> QED
    BY <1>1, <1>3, <2>1, <2>2 DEF FinishSmoke
<1>4. CASE AttachHandle(r)
  <2>1. /\ Unmoved(r) /\ rec'[r].status = rec[r].status
        /\ rec'[r].handle = TRUE /\ rec'[r].smoke = rec[r].smoke
    BY <1>0, <1>4 DEF AttachHandle, Unmoved, Record
  <2>2. HandleOrder'
    BY <1>0, <1>4, <2>1 DEF AttachHandle, HandleOrder, ResultInv, Unmoved, Record
  <2>3. CommandOrder'
    BY <1>0, <1>4, <2>1 DEF AttachHandle, CommandOrder, ResultInv, Unmoved
  <2> QED
    BY <2>2, <2>3
<1>5. CASE Launch(r) \/ LaunchRaises(r) \/ WatchSmoke(r) \/ Die(r)
  <2>1. /\ rec' = rec /\ op' = op
        /\ \A s \in Runs \ {r} : pc'[s] = pc[s]
        /\ pc'[r] \in {"launched", "raised"} => pc[r] = "recorded"
        /\ pc'[r] # "recorded"
        /\ pc'[r] = "watching" => rec[r].smoke
    BY <1>0, <1>5 DEF Launch, LaunchRaises, WatchSmoke, Die
  <2> QED
    BY <2>1 DEF HandleOrder, CommandOrder, ResultInv
<1> QED
  BY <1>2, <1>3, <1>4, <1>5 DEF Launching

LEMMA StartResults ==
    ASSUME ResultInv, NEW o \in Operators, NEW r \in Runs, NEW cmd, Start(o, cmd, r),
           Uncollected(r) \/ cmd = "verdict", cmd = "collect" => rec[r].handle,
           UNCHANGED <<rec, pc>>
    PROVE  HandleOrder' /\ CommandOrder'
<1>0. op \in [Operators -> [cmd : Commands, run : Runs \cup {Nobody}]]
  BY DEF ResultInv, Inv, TypeOK
<1>1. HandleOrder'
  BY DEF HandleOrder, ResultInv
<1>2. op'[o] = [cmd |-> cmd, run |-> r] /\ \A p \in Operators \ {o} : op'[p] = op[p]
  BY <1>0 DEF Start
<1>3. cmd # "verdict" => rec[r].status # "completed"
  BY DEF Uncollected, Collected, Terminal
<1>4. CommandOrder'
  BY <1>2, <1>3 DEF CommandOrder, ResultInv
<1> QED
  BY <1>1, <1>4

\* One operator at a time: the only other process that closes gated runs is the
\* submission, before it has a handle.
LEMMA OperatingResults ==
    ASSUME \A p, q \in Operators : p = q,
           ResultInv, NEW o \in Operators, Operating(o)
    PROVE  HandleOrder' /\ CommandOrder'
<1>0. /\ pc \in [Runs -> PCs] /\ rec \in [Runs -> Record]
      /\ op \in [Operators -> [cmd : Commands, run : Runs \cup {Nobody}]]
      /\ op[o].cmd # "idle" => op[o].run \in Runs
  BY DEF ResultInv, Inv, TypeOK, LockOrder, CommandsHaveRecords
<1>1. End(o) => CommandOrder'
  <2>1. End(o) => op'[o].cmd = "idle"
    BY <1>0 DEF End
  <2> QED
    BY <2>1 DEF CommandOrder
<1>2. CASE \E r \in Runs : StartCollect(o, r) \/ StartAbandon(o, r)
                           \/ StartForget(o, r) \/ StartVerdict(o, r)
  BY <1>2, StartResults DEF StartCollect, StartAbandon, StartForget, StartVerdict
<1>3. CASE FinishCollect(o)
  <2> DEFINE r == op[o].run
  <2>1. PICK cost, results, dev : Finished(r, "completed", cost, results, dev)
    BY <1>3 DEF FinishCollect
  <2>2. r \in Runs /\ rec[r].handle /\ pc' = pc /\ End(o)
    BY <1>0, <1>3 DEF FinishCollect, ResultInv, CommandOrder
  <2> HIDE DEF r
  <2>3. /\ Unmoved(r) /\ rec'[r].status = "completed"
        /\ rec'[r].handle = rec[r].handle /\ rec'[r].smoke = rec[r].smoke
    BY <1>0, <2>1, <2>2, FinishedFields
  <2>4. HandleOrder'
    BY <2>2, <2>3 DEF HandleOrder, ResultInv, Unmoved
  <2> QED
    BY <1>1, <2>2, <2>4
<1>4. CASE FinishWriteOff(o)
  <2> DEFINE r == op[o].run
             status == IF op[o].cmd = "abandon" THEN "abandoned" ELSE "forgotten"
  <2>1. Finished(r, status, 0, FALSE, "none") /\ status # "completed"
    BY <1>4 DEF FinishWriteOff
  <2>2. r \in Runs /\ pc' = pc /\ End(o)
    BY <1>0, <1>4 DEF FinishWriteOff
  <2> HIDE DEF r, status
  <2>3. /\ Unmoved(r) /\ rec'[r].status = status
        /\ rec'[r].handle = rec[r].handle /\ rec'[r].smoke = rec[r].smoke
    BY <1>0, <2>1, <2>2, FinishedFields
  <2>4. HandleOrder'
    BY <2>1, <2>2, <2>3 DEF HandleOrder, ResultInv, Unmoved
  <2> QED
    BY <1>1, <2>2, <2>4
<1>5. CASE FinishVerdict(o)
  <2>1. \A s \in Runs : /\ rec'[s].status = rec[s].status /\ rec'[s].smoke = rec[s].smoke
                        /\ rec'[s].handle = rec[s].handle
    BY <1>0, <1>5 DEF FinishVerdict, Record
  <2>2. HandleOrder'
    BY <1>5, <2>1 DEF FinishVerdict, HandleOrder, ResultInv
  <2> QED
    BY <1>1, <1>5, <2>2 DEF FinishVerdict
<1>6. CASE LeaveCommand(o)
  BY <1>1, <1>6 DEF LeaveCommand, HandleOrder, ResultInv
<1> QED
  BY <1>2, <1>3, <1>4, <1>5, <1>6 DEF Operating, Finish

LEMMA NextResults ==
    ASSUME \A p, q \in Operators : p = q
    PROVE  ResultInv /\ [Next]_vars => ResultInv'
<1> SUFFICES ASSUME ResultInv, [Next]_vars PROVE ResultInv'
  OBVIOUS
<1>1. Inv'
  BY NextTyped, NextChecks DEF Inv, ResultInv
<1>2. CASE \/ \E r \in Runs : Environment(r)
           \/ \E e \in Expectations : Mint(e) \/ Falsify(e)
           \/ \E k \in Campaigns : Campaigning(k)
           \/ \E p \in DOMAIN Allocation : BookCandidate(p)
           \/ UNCHANGED vars
  BY <1>1, <1>2, OthersQuiet DEF ResultInv, HandleOrder, CommandOrder
<1> QED
  BY <1>1, <1>2, SubmittingResults, LaunchingResults, OperatingResults DEF Next, ResultInv

\* What no later event of a collected run may change.
Stands(r) ==
    /\ rec'[r].status = "completed"
    /\ rec'[r].act = rec[r].act /\ rec'[r].results = rec[r].results
    /\ rec[r].dev = "judged" => rec'[r].dev = "judged"

LEMMA StepStands ==
    ASSUME ResultInv, [Next]_vars, NEW r \in Runs, ~rec[r].smoke, rec[r].status = "completed"
    PROVE  Stands(r)
<1> USE DEF Go
<1>0. /\ pc \in [Runs -> PCs] /\ rec \in [Runs -> Record] /\ Inv
      /\ Recorded(r) /\ rec[r].handle
  BY DEF ResultInv, Inv, TypeOK, HandleOrder, Recorded
<1>1. ASSUME rec'[r] = rec[r] PROVE Stands(r)
  BY <1>1 DEF Stands
<1>2. ASSUME NEW s \in Runs, s # r, Unmoved(s) PROVE Stands(r)
  BY <1>1, <1>2 DEF Unmoved
<1>3. ASSUME NEW s \in Runs, NEW status, NEW cost, NEW results, NEW dev, s # r,
             Finished(s, status, cost, results, dev)
      PROVE  Stands(r)
  BY <1>0, <1>2, <1>3, FinishedFields
<1>4. ASSUME NEW s \in Runs, Submitting(s) PROVE Stands(r)
  <2>1. CASE WriteRecord(s) \/ RecordSmoke(s)
    <3>1. s # r /\ Unmoved(s)
      BY <1>0, <2>1, WrittenRecord, SmokeRecord DEF Unmoved
    <3> QED
      BY <1>2, <3>1
  <2>2. CASE ~(WriteRecord(s) \/ RecordSmoke(s))
    BY <1>1, <1>4, <2>2
       DEF Submitting, GateExpectation, GateSpend, GateStale, GateConcurrency, TakeLock,
           RecheckBinding, RecheckCeilings, Withdraw
  <2> QED
    BY <2>1, <2>2
<1>5. ASSUME NEW s \in Runs, Launching(s) PROVE Stands(r)
  <2>1. CASE FinishSubmitFailed(s)
    <3>1. s # r
      BY <1>0, <2>1 DEF FinishSubmitFailed, ResultInv, HandleOrder
    <3> QED
      BY <1>3, <2>1, <3>1 DEF FinishSubmitFailed
  <2>2. CASE FinishSmoke(s)
    <3>1. s # r
      BY <2>2 DEF FinishSmoke, ResultInv, HandleOrder
    <3> QED
      BY <1>3, <2>2, <3>1 DEF FinishSmoke
  <2>3. CASE AttachHandle(s)
    BY <1>0, <2>3 DEF AttachHandle, Stands, Record
  <2>4. CASE Launch(s) \/ LaunchRaises(s) \/ WatchSmoke(s) \/ Die(s)
    BY <1>1, <2>4 DEF Launch, LaunchRaises, WatchSmoke, Die
  <2> QED
    BY <1>5, <2>1, <2>2, <2>3, <2>4 DEF Launching
<1>6. ASSUME NEW o \in Operators, Operating(o) PROVE Stands(r)
  <2>0. op[o].cmd # "idle" => op[o].run \in Runs
    BY DEF ResultInv, Inv, LockOrder, CommandsHaveRecords
  <2>1. CASE FinishCollect(o)
    <3>1. op[o].run \in Runs /\ op[o].run # r
      BY <2>0, <2>1 DEF FinishCollect, ResultInv, CommandOrder
    <3>2. PICK cost, results, dev : Finished(op[o].run, "completed", cost, results, dev)
      BY <2>1 DEF FinishCollect
    <3> QED
      BY <1>3, <3>1, <3>2
  <2>2. CASE FinishWriteOff(o)
    <3>1. op[o].run \in Runs /\ op[o].run # r
      BY <2>0, <2>2 DEF FinishWriteOff, ResultInv, CommandOrder
    <3> QED
      BY <1>3, <2>2, <3>1 DEF FinishWriteOff
  <2>3. CASE FinishVerdict(o)
    BY <1>0, <2>3 DEF FinishVerdict, Stands, Record
  <2>4. CASE LeaveCommand(o) \/ \E s \in Runs : StartCollect(o, s) \/ StartAbandon(o, s)
                                                \/ StartForget(o, s) \/ StartVerdict(o, s)
    BY <1>1, <2>4 DEF LeaveCommand, StartCollect, StartAbandon, StartForget, StartVerdict
  <2> QED
    BY <1>6, <2>1, <2>2, <2>3, <2>4 DEF Operating, Finish
<1>7. CASE \/ \E s \in Runs : Environment(s)
           \/ \E e \in Expectations : Mint(e) \/ Falsify(e)
           \/ \E k \in Campaigns : Campaigning(k)
           \/ \E p \in DOMAIN Allocation : BookCandidate(p)
           \/ UNCHANGED vars
  BY <1>1, <1>7, OthersQuiet
<1> QED
  BY <1>4, <1>5, <1>6, <1>7 DEF Next

\* With one operator at a time, however many submissions, smoke runs and campaigns
\* go on beside it, what a collection recorded of a gated run and the verdict on it
\* are never overwritten.  With two it is not so (the run ledger_two_operators).
THEOREM ResultsAreKept ==
    ASSUME \A p, q \in Operators : p = q
    PROVE  Spec => ResultsStand
<1>1. Init => ResultInv
  <2> SUFFICES ASSUME Init PROVE ResultInv
    OBVIOUS
  <2>1. Inv
    BY InitTyped, InitChecks DEF Inv
  <2>2. \A r \in Runs : rec[r].status = "absent" /\ pc[r] = "idle"
    BY DEF Init, NoRecord
  <2> QED
    BY <2>1, <2>2 DEF Init, ResultInv, HandleOrder, CommandOrder
<1>2. ResultInv /\ [Next]_vars
        => [\A r \in Runs : ~rec[r].smoke /\ rec[r].status = "completed" =>
             /\ rec'[r].status = "completed"
             /\ rec'[r].act = rec[r].act /\ rec'[r].results = rec[r].results
             /\ rec[r].dev = "judged" => rec'[r].dev = "judged"]_vars
  BY StepStands DEF Stands
<1> QED
  BY <1>1, <1>2, NextResults, PTL DEF Spec, ResultsStand
=============================================================================
