-------------------------- MODULE RunLedgerProofs ----------------------------
(***************************************************************************)
(* What holds of the run ledger for every number of submissions, operators *)
(* and campaigns.                                                          *)
(***************************************************************************)
EXTENDS RunLedger, FiniteSetTheorems, TLAPS

Devs == {"none", "in_range", "open", "judged"}

\* A record a run_collected event was folded into is a record.
LEMMA ClosedTyped ==
    ASSUME NEW old \in Record, NEW status \in Terminal, NEW cost \in Nat,
           NEW results \in BOOLEAN, NEW dev \in Devs
    PROVE  Closed(old, status, cost, results, dev) \in Record
<1>1. (IF results THEN TRUE ELSE old.reported) \in BOOLEAN
  BY DEF Record
<1> QED
  BY <1>1 DEF Closed, Record, Statuses, Devs

\* Every event that closes a run leaves a well-formed ledger, whichever command
\* writes it.
LEMMA FinishedTyped ==
    ASSUME rec \in [Runs -> Record], stale \subseteq Runs,
           NEW r, NEW status \in Terminal, NEW cost,
           NEW results \in BOOLEAN, NEW dev \in Devs,
           r \in Runs => cost \in Nat,
           Finished(r, status, cost, results, dev)
    PROVE  rec' \in [Runs -> Record] /\ stale' \subseteq Runs
<1>1. r \in Runs => Closed(rec[r], status, cost, results, dev) \in Record
  BY ClosedTyped
<1> QED
  BY <1>1 DEF Finished

-----------------------------------------------------------------------------
(* Type correctness.                                                        *)

\* The steps of a submission until it holds a record, or is back where it was.
LEMMA SubmittingTyped ==
    ASSUME TypeOK, NEW r \in Runs, Submitting(r)
    PROVE  TypeOK'
<1> USE DEF Go, clocks, ledgers, Bindable, PCs
<1>1. CASE GateExpectation(r)
  <2>1. \E e \in Expectations, c \in Nat :
            args' = [args EXCEPT ![r] = [exp |-> e, est |-> c, seen |-> 0]]
    BY <1>1, LedgerAssumption DEF GateExpectation, TypeOK
  <2>2. args' \in [Runs -> [exp : Bindable, est : Nat, seen : Nat]]
    BY <2>1 DEF TypeOK
  <2> QED
    BY <1>1, <2>2 DEF GateExpectation, TypeOK
<1>2. CASE GateSpend(r)
  BY <1>2 DEF GateSpend, TypeOK
<1>3. CASE GateStale(r)
  BY <1>3 DEF GateStale, TypeOK
<1>4. CASE GateConcurrency(r)
  BY <1>4 DEF GateConcurrency, TypeOK
<1>5. CASE TakeLock(r)
  BY <1>5 DEF TakeLock, TypeOK
<1>6. CASE RecheckBinding(r)
  BY <1>6 DEF RecheckBinding, TypeOK
<1>7. CASE RecheckCeilings(r)
  <2>1. (IF Budgeted(r) THEN booked[ProjectOf[r]] ELSE 0) \in Nat
    BY DEF TypeOK, Budgeted
  <2>2. args' \in [Runs -> [exp : Bindable, est : Nat, seen : Nat]]
    BY <1>7, <2>1 DEF RecheckCeilings, TypeOK
  <2> QED
    BY <1>7, <2>2 DEF RecheckCeilings, TypeOK
<1>8. CASE WriteRecord(r)
  <2>1. [NoRecord EXCEPT !.status = "in_flight", !.exp = args[r].exp, !.est = args[r].est]
            \in Record
    BY DEF TypeOK, NoRecord, Record, Statuses
  <2>2. rec' \in [Runs -> Record]
    BY <1>8, <2>1 DEF WriteRecord, TypeOK
  <2> QED
    BY <1>8, <2>2 DEF WriteRecord, TypeOK, NoArgs
<1>9. CASE Withdraw(r)
  BY <1>9 DEF Withdraw, TypeOK, NoArgs
<1>10. CASE RecordSmoke(r)
  <2>1. [NoRecord EXCEPT !.status = "in_flight", !.smoke = TRUE, !.est = SmokeCap] \in Record
    BY LedgerAssumption DEF NoRecord, Record, Statuses
  <2>2. rec' \in [Runs -> Record]
    BY <1>10, <2>1 DEF RecordSmoke, TypeOK
  <2> QED
    BY <1>10, <2>2 DEF RecordSmoke, TypeOK
<1> QED
  BY <1>1, <1>2, <1>3, <1>4, <1>5, <1>6, <1>7, <1>8, <1>9, <1>10 DEF Submitting

\* The steps from the record to the end of the submitting process.
LEMMA LaunchingTyped ==
    ASSUME TypeOK, NEW r \in Runs, Launching(r)
    PROVE  TypeOK'
<1> USE DEF Go, clocks, ledgers, PCs
<1>1. CASE Launch(r)
  BY <1>1 DEF Launch, TypeOK
<1>2. CASE LaunchRaises(r)
  BY <1>2 DEF LaunchRaises, TypeOK
<1>3. CASE FinishSubmitFailed(r)
  <2>1. rec' \in [Runs -> Record] /\ stale' \subseteq Runs
    BY <1>3, FinishedTyped DEF FinishSubmitFailed, TypeOK, Terminal, Devs
  <2> QED
    BY <1>3, <2>1 DEF FinishSubmitFailed, Finished, TypeOK
<1>4. CASE AttachHandle(r)
  <2>1. [rec[r] EXCEPT !.handle = TRUE] \in Record
    <3>1. rec[r] \in Record
      BY DEF TypeOK
    <3> QED
      BY <3>1 DEF Record
  <2>2. rec' \in [Runs -> Record]
    BY <1>4, <2>1 DEF AttachHandle, TypeOK
  <2>3. pc' \in [Runs -> PCs]
    BY <1>4 DEF AttachHandle, TypeOK
  <2> QED
    BY <1>4, <2>2, <2>3 DEF AttachHandle, TypeOK
<1>5. CASE WatchSmoke(r)
  BY <1>5 DEF WatchSmoke, TypeOK
<1>6. CASE FinishSmoke(r)
  <2>1. PICK cost \in Actuals \cup {rec[r].est} : Finished(r, "completed", cost, FALSE, "none")
    BY <1>6 DEF FinishSmoke
  <2>2. cost \in Nat
    BY LedgerAssumption DEF TypeOK, Record
  <2>3. rec' \in [Runs -> Record] /\ stale' \subseteq Runs
    BY <2>1, <2>2, FinishedTyped DEF TypeOK, Terminal, Devs
  <2> QED
    BY <1>6, <2>1, <2>3 DEF FinishSmoke, Finished, TypeOK
<1>7. CASE Die(r)
  BY <1>7 DEF Die, TypeOK
<1> QED
  BY <1>1, <1>2, <1>3, <1>4, <1>5, <1>6, <1>7 DEF Launching

LEMMA EnvironmentTyped ==
    ASSUME TypeOK, NEW r \in Runs, Environment(r)
    PROVE  TypeOK'
<1> USE DEF clocks, ledgers
<1>1. CASE JobEnds(r)
  BY <1>1 DEF JobEnds, TypeOK
<1>2. CASE JobVanishes(r)
  BY <1>2 DEF JobVanishes, TypeOK
<1>3. CASE WindowCloses(r)
  BY <1>3 DEF WindowCloses, InFlight, TypeOK
<1>4. CASE LeavesSpendWindow(r)
  BY <1>4 DEF LeavesSpendWindow, TypeOK
<1> QED
  BY <1>1, <1>2, <1>3, <1>4 DEF Environment

LEMMA OperatingTyped ==
    ASSUME TypeOK, NEW o \in Operators, Operating(o)
    PROVE  TypeOK'
<1> USE DEF clocks, ledgers, Start, End, Commands
<1>1. ASSUME NEW r \in Runs, StartCollect(o, r) PROVE TypeOK'
  BY <1>1 DEF StartCollect, TypeOK
<1>2. ASSUME NEW r \in Runs, StartAbandon(o, r) PROVE TypeOK'
  BY <1>2 DEF StartAbandon, TypeOK
<1>3. ASSUME NEW r \in Runs, StartForget(o, r) PROVE TypeOK'
  BY <1>3 DEF StartForget, TypeOK
<1>4. ASSUME NEW r \in Runs, StartVerdict(o, r) PROVE TypeOK'
  BY <1>4 DEF StartVerdict, TypeOK
<1>5. CASE FinishCollect(o)
  <2> DEFINE r == op[o].run
  <2>1. PICK cost \in Actuals \cup {rec[r].est}, results \in BOOLEAN :
            \E dev \in Deviations(r, results) : Finished(r, "completed", cost, results, dev)
    BY <1>5 DEF FinishCollect
  <2>2. PICK dev \in Deviations(r, results) : Finished(r, "completed", cost, results, dev)
    BY <2>1
  <2>3. dev \in Devs
    BY DEF Deviations, Devs
  <2>4. r \in Runs => cost \in Nat
    BY LedgerAssumption DEF TypeOK, Record
  <2>5. rec' \in [Runs -> Record] /\ stale' \subseteq Runs
    <3>1. rec \in [Runs -> Record] /\ stale \subseteq Runs /\ "completed" \in Terminal
      BY DEF TypeOK, Terminal
    <3>2. results \in BOOLEAN
      BY <2>1
    <3> HIDE DEF r
    <3> QED
      BY <2>2, <2>3, <2>4, <3>1, <3>2, FinishedTyped
  <2> QED
    BY <1>5, <2>5 DEF FinishCollect, TypeOK
<1>6. CASE FinishWriteOff(o)
  <2>1. rec' \in [Runs -> Record] /\ stale' \subseteq Runs
    BY <1>6, FinishedTyped DEF FinishWriteOff, TypeOK, Terminal, Devs
  <2> QED
    BY <1>6, <2>1 DEF FinishWriteOff, TypeOK
<1>7. CASE FinishVerdict(o)
  <2>1. ASSUME NEW r \in Runs PROVE [rec[r] EXCEPT !.dev = "judged"] \in Record
    <3>1. rec[r] \in Record
      BY DEF TypeOK
    <3> QED
      BY <3>1 DEF Record
  <2>2. rec' \in [Runs -> Record]
    BY <1>7, <2>1 DEF FinishVerdict, TypeOK
  <2> QED
    BY <1>7, <2>2 DEF FinishVerdict, TypeOK
<1>8. CASE LeaveCommand(o)
  BY <1>8 DEF LeaveCommand, TypeOK
<1> QED
  BY <1>1, <1>2, <1>3, <1>4, <1>5, <1>6, <1>7, <1>8 DEF Operating, Finish

\* The writers of the other two ledgers.
LEMMA OtherLedgersTyped ==
    ASSUME TypeOK,
           \/ \E e \in Expectations : Mint(e) \/ Falsify(e)
           \/ \E k \in Campaigns : Campaigning(k)
           \/ \E p \in DOMAIN Allocation : BookCandidate(p)
    PROVE  TypeOK'
<1> USE DEF clocks, ledgers, Bindable
<1>1. ASSUME NEW e \in Expectations, Mint(e) PROVE TypeOK'
  BY <1>1 DEF Mint, TypeOK
<1>2. ASSUME NEW e \in Expectations, Falsify(e) PROVE TypeOK'
  BY <1>2 DEF Falsify, TypeOK
<1>3. ASSUME NEW k \in Campaigns, StartCampaign(k) PROVE TypeOK'
  BY <1>3 DEF StartCampaign, TypeOK
<1>4. ASSUME NEW k \in Campaigns, OpenCampaign(k) PROVE TypeOK'
  BY <1>4 DEF OpenCampaign, TypeOK
<1>5. ASSUME NEW k \in Campaigns, DropCampaign(k) PROVE TypeOK'
  BY <1>5 DEF DropCampaign, TypeOK
<1>6. ASSUME NEW p \in DOMAIN Allocation, BookCandidate(p) PROVE TypeOK'
  <2>1. PICK cost \in Actuals : booked' = [booked EXCEPT ![p] = @ + cost]
    BY <1>6 DEF BookCandidate
  <2>2. cost \in Nat
    BY LedgerAssumption
  <2>3. booked' \in [DOMAIN Allocation -> Nat]
    BY <2>1, <2>2 DEF TypeOK
  <2> QED
    BY <1>6, <2>3 DEF BookCandidate, TypeOK
<1> QED
  BY <1>1, <1>2, <1>3, <1>4, <1>5, <1>6 DEF Campaigning

LEMMA InitTyped == Init => TypeOK
  BY DEF Init, TypeOK, NoRecord, NoArgs, Record, Statuses, Bindable, PCs, Commands

LEMMA NextTyped == TypeOK /\ [Next]_vars => TypeOK'
<1> SUFFICES ASSUME TypeOK, [Next]_vars PROVE TypeOK'
  OBVIOUS
<1>1. CASE UNCHANGED vars
  BY <1>1 DEF vars, TypeOK
<1>2. CASE Next
  BY <1>2, SubmittingTyped, LaunchingTyped, EnvironmentTyped, OperatingTyped, OtherLedgersTyped
     DEF Next
<1> QED
  BY <1>1, <1>2

\* The ledger, the processes and the backends keep their types.
THEOREM TypeCorrect == Spec => []TypeOK
<1> QED
  BY InitTyped, NextTyped, PTL DEF Spec

-----------------------------------------------------------------------------
(* Who holds the lock, and what of its checks does not rest on money.      *)

\* A run has a record exactly from the write on, blank until then ...
BeforeRecord ==
    {"idle", "expected", "priced", "current", "gated", "locked", "unbound", "cleared"}

RecordedAtWrite ==
    \A r \in Runs :
        /\ pc[r] \in BeforeRecord <=> ~Recorded(r)
        /\ ~Recorded(r) => rec[r] = NoRecord

\* ... and no command works on a run that has none.
CommandsHaveRecords ==
    \A o \in Operators : op[o].cmd # "idle" => op[o].run \in Runs /\ Recorded(op[o].run)

LockOrder == LockIsHeld /\ BindingIsFree /\ SlotIsFree /\ RecordedAtWrite /\ CommandsHaveRecords

Inv == TypeOK /\ LockOrder

LEMMA InitChecks == Init => LockOrder
<1> SUFFICES ASSUME Init PROVE LockOrder
  OBVIOUS
<1>1. \A r \in Runs : rec[r] = NoRecord /\ pc[r] = "idle"
  BY DEF Init
<1> QED
  BY <1>1 DEF Init, LockOrder, LockIsHeld, BindingIsFree, SlotIsFree, RecordedAtWrite,
              CommandsHaveRecords, Recorded, NoRecord, BeforeRecord

\* A step that leaves the fold and the submissions alone disturbs nothing.
LEMMA QuietChecks ==
    ASSUME LockIsHeld, BindingIsFree, SlotIsFree, RecordedAtWrite,
           UNCHANGED <<rec, pc, args, lock>>
    PROVE  LockIsHeld' /\ BindingIsFree' /\ SlotIsFree' /\ RecordedAtWrite'
  BY DEF LockIsHeld, BindingIsFree, SlotIsFree, RecordedAtWrite, RunBound, InFlight, Recorded

\* While nobody holds the lock, or once its holder has let it go, there is
\* nothing a write to the fold could spoil.
LEMMA NobodyChecked ==
    ASSUME LockIsHeld', \A r \in Runs : lock' # r
    PROVE  BindingIsFree' /\ SlotIsFree'
  BY DEF LockIsHeld, BindingIsFree, SlotIsFree

LEMMA CommandsKept ==
    ASSUME CommandsHaveRecords, op' = op,
           \A r \in Runs : Recorded(r) => Recorded(r)'
    PROVE  CommandsHaveRecords'
  BY DEF CommandsHaveRecords

LEMMA SubmittingChecks ==
    ASSUME Inv, NEW r \in Runs, Submitting(r)
    PROVE  LockOrder'
<1> USE DEF Inv, LockOrder, Go, BeforeRecord
<1>0. pc \in [Runs -> PCs] /\ args \in [Runs -> [exp : Bindable, est : Nat, seen : Nat]]
      /\ rec \in [Runs -> Record]
  BY DEF TypeOK
<1>1. ASSUME rec' = rec, op' = op PROVE CommandsHaveRecords'
  BY <1>1, CommandsKept DEF Recorded
<1>2. ASSUME rec' = rec, pc[r] \in BeforeRecord, NEW to \in BeforeRecord,
             pc' = [pc EXCEPT ![r] = to]
      PROVE  RecordedAtWrite'
  BY <1>0, <1>2 DEF RecordedAtWrite, Recorded
<1>3. ASSUME rec' = rec, lock' = lock, NEW to \in {"expected", "priced", "current", "gated"},
             pc' = [pc EXCEPT ![r] = to], \A s \in Runs \ {r} : args'[s] = args[s]
      PROVE  LockIsHeld' /\ BindingIsFree' /\ SlotIsFree'
  BY <1>0, <1>3 DEF LockIsHeld, BindingIsFree, SlotIsFree, RunBound, InFlight
<1>4. CASE GateExpectation(r)
  <2>1. \A s \in Runs \ {r} : args'[s] = args[s]
    BY <1>4 DEF GateExpectation
  <2> QED
    BY <1>1, <1>2, <1>3, <1>4, <2>1 DEF GateExpectation
<1>5. CASE GateSpend(r)
  BY <1>1, <1>2, <1>3, <1>5 DEF GateSpend
<1>6. CASE GateStale(r)
  BY <1>1, <1>2, <1>3, <1>6 DEF GateStale
<1>7. CASE GateConcurrency(r)
  BY <1>1, <1>2, <1>3, <1>7 DEF GateConcurrency
<1>8. CASE TakeLock(r)
  <2>1. LockIsHeld' /\ BindingIsFree' /\ SlotIsFree'
    BY <1>0, <1>8, LedgerAssumption
       DEF TakeLock, LockIsHeld, BindingIsFree, SlotIsFree, RunBound, InFlight
  <2> QED
    BY <1>1, <1>2, <1>8, <2>1 DEF TakeLock
<1>9. CASE RecheckBinding(r)
  <2>1. LockIsHeld' /\ SlotIsFree'
    BY <1>0, <1>9 DEF RecheckBinding, LockIsHeld, SlotIsFree, InFlight
  <2>2. args[r].exp \notin RunBound
    BY <1>9 DEF RecheckBinding, BindingAllows, Consumed
  <2>3. BindingIsFree'
    BY <1>0, <1>9, <2>2 DEF RecheckBinding, BindingIsFree, RunBound
  <2> QED
    BY <1>1, <1>2, <1>9, <2>1, <2>3 DEF RecheckBinding
<1>10. CASE RecheckCeilings(r)
  <2>1. LockIsHeld' /\ BindingIsFree'
    BY <1>0, <1>10 DEF RecheckCeilings, LockIsHeld, BindingIsFree, RunBound
  <2>2. Cardinality(InFlight) < MaxConcurrent(r)
    BY <1>10 DEF RecheckCeilings, CeilingsAllow, ConcurrencyAllows
  <2>3. SlotIsFree'
    BY <1>0, <1>10, <2>2 DEF RecheckCeilings, SlotIsFree, InFlight, MaxConcurrent
  <2> QED
    BY <1>1, <1>2, <1>10, <2>1, <2>3 DEF RecheckCeilings
<1>11. CASE WriteRecord(r)
  <2>1. LockIsHeld'
    BY <1>0, <1>11 DEF WriteRecord, LockIsHeld
  <2>2. BindingIsFree' /\ SlotIsFree'
    BY <1>11, <2>1, NobodyChecked, LedgerAssumption DEF WriteRecord
  <2>3. rec'[r].status = "in_flight" /\ \A s \in Runs \ {r} : rec'[s] = rec[s]
    BY <1>0, <1>11 DEF WriteRecord, NoRecord
  <2>4. RecordedAtWrite'
    BY <1>0, <1>11, <2>3 DEF WriteRecord, RecordedAtWrite, Recorded
  <2>5. CommandsHaveRecords'
    BY <1>11, <2>3, CommandsKept DEF WriteRecord, Recorded
  <2> QED
    BY <2>1, <2>2, <2>4, <2>5
<1>12. CASE Withdraw(r)
  <2>1. LockIsHeld' /\ BindingIsFree' /\ SlotIsFree'
    BY <1>0, <1>12 DEF Withdraw, LockIsHeld, BindingIsFree, SlotIsFree, RunBound, InFlight
  <2> QED
    BY <1>1, <1>2, <1>12, <2>1 DEF Withdraw
<1>13. CASE RecordSmoke(r)
  <2>1. LockIsHeld'
    BY <1>0, <1>13 DEF RecordSmoke, LockIsHeld
  <2>2. BindingIsFree' /\ SlotIsFree'
    BY <1>13, <2>1, NobodyChecked, LedgerAssumption DEF RecordSmoke
  <2>3. rec'[r].status = "in_flight" /\ \A s \in Runs \ {r} : rec'[s] = rec[s]
    BY <1>0, <1>13 DEF RecordSmoke, NoRecord
  <2>4. RecordedAtWrite'
    BY <1>0, <1>13, <2>3 DEF RecordSmoke, RecordedAtWrite, Recorded
  <2>5. CommandsHaveRecords'
    BY <1>13, <2>3, CommandsKept DEF RecordSmoke, Recorded
  <2> QED
    BY <2>1, <2>2, <2>4, <2>5
<1> QED
  BY <1>4, <1>5, <1>6, <1>7, <1>8, <1>9, <1>10, <1>11, <1>12, <1>13 DEF Submitting

\* finish, whoever calls it, and the other events that come without a
\* precondition: they wait for the lock, so nobody has checked anything yet.
LEMMA UnguardedWrite ==
    ASSUME Inv, lock = Nobody, lock' = Nobody, NEW r,
           NEW new, new.status # "absent", rec' = [rec EXCEPT ![r] = new],
           r \in Runs => Recorded(r)
    PROVE  /\ LockIsHeld /\ pc' = pc => LockIsHeld'
           /\ LockIsHeld' => BindingIsFree' /\ SlotIsFree'
           /\ pc' = pc => RecordedAtWrite'
           /\ \A s \in Runs : Recorded(s) <=> Recorded(s)'
<1> USE DEF Inv, LockOrder
<1>0. rec \in [Runs -> Record]
  BY DEF TypeOK
<1>1. LockIsHeld' => BindingIsFree' /\ SlotIsFree'
  BY NobodyChecked, LedgerAssumption
<1>2. \A s \in Runs : rec'[s] = rec[s] \/ (s = r /\ rec'[s] = new)
  BY <1>0
<1>3. \A s \in Runs : Recorded(s) <=> Recorded(s)'
  BY <1>2 DEF Recorded
<1>4. pc' = pc => RecordedAtWrite'
  BY <1>2, <1>3 DEF RecordedAtWrite, Recorded
<1> QED
  BY <1>1, <1>3, <1>4 DEF LockIsHeld

LEMMA LaunchingChecks ==
    ASSUME Inv, NEW r \in Runs, Launching(r)
    PROVE  LockOrder'
<1> USE DEF Inv, LockOrder, Go, BeforeRecord
<1>0. pc \in [Runs -> PCs] /\ rec \in [Runs -> Record] /\ Recorded(r)
  <2>1. pc[r] \in {"recorded", "launched", "raised", "watching"}
    BY DEF Launching, Launch, LaunchRaises, FinishSubmitFailed, AttachHandle, WatchSmoke,
           FinishSmoke, Die
  <2> QED
    BY <2>1 DEF TypeOK, RecordedAtWrite
<1>1. ASSUME rec' = rec, op' = op PROVE CommandsHaveRecords'
  BY <1>1, CommandsKept DEF Recorded
<1>2. ASSUME rec' = rec, lock' = lock, args' = args, pc[r] \notin BeforeRecord,
             NEW to \in {"launched", "raised", "watching", "dead"},
             pc' = [pc EXCEPT ![r] = to]
      PROVE  LockIsHeld' /\ BindingIsFree' /\ SlotIsFree' /\ RecordedAtWrite'
  BY <1>0, <1>2 DEF LockIsHeld, BindingIsFree, SlotIsFree, RecordedAtWrite, RunBound, InFlight,
                    Recorded
<1>3. ASSUME lock = Nobody, lock' = lock, op' = op,
             NEW new, new.status # "absent", rec' = [rec EXCEPT ![r] = new],
             pc[r] \notin BeforeRecord,
             NEW to \in {"watching", "done"}, pc' = [pc EXCEPT ![r] = to]
      PROVE  LockOrder'
  <2>1. LockIsHeld'
    BY <1>0, <1>3 DEF LockIsHeld
  <2>2. BindingIsFree' /\ SlotIsFree' /\ \A s \in Runs : Recorded(s) <=> Recorded(s)'
    BY <1>0, <1>3, <2>1, UnguardedWrite
  <2>3. RecordedAtWrite'
    <3>1. \A s \in Runs : s # r => rec'[s] = rec[s]
      BY <1>0, <1>3
    <3> QED
      BY <1>0, <1>3, <2>2, <3>1 DEF RecordedAtWrite
  <2>4. CommandsHaveRecords'
    BY <1>3, <2>2, CommandsKept
  <2> QED
    BY <2>1, <2>2, <2>3, <2>4
<1>4. ASSUME NEW status \in Terminal, NEW cost, NEW results, NEW dev,
             pc' = [pc EXCEPT ![r] = "done"], pc[r] \notin BeforeRecord,
             lock' = lock, op' = op, Finished(r, status, cost, results, dev)
      PROVE  LockOrder'
  <2>1. Closed(rec[r], status, cost, results, dev).status = status
    BY <1>0 DEF Closed, Record
  <2>2. status # "absent"
    BY DEF Terminal
  <2> QED
    BY <1>3, <1>4, <2>1, <2>2 DEF Finished
<1>5. CASE Launch(r)
  BY <1>1, <1>2, <1>5 DEF Launch
<1>6. CASE LaunchRaises(r)
  BY <1>1, <1>2, <1>6 DEF LaunchRaises
<1>7. CASE FinishSubmitFailed(r)
  <2>1. "submit_failed" \in Terminal
    BY DEF Terminal
  <2> QED
    BY <1>4, <1>7, <2>1 DEF FinishSubmitFailed
<1>8. CASE AttachHandle(r)
  <2> DEFINE new == [rec[r] EXCEPT !.handle = TRUE]
  <2>1. new.status # "absent"
    BY <1>0 DEF Record, Recorded
  <2>2. rec' = [rec EXCEPT ![r] = new]
    BY <1>8 DEF AttachHandle
  <2> HIDE DEF new
  <2> QED
    BY <1>3, <1>8, <2>1, <2>2 DEF AttachHandle
<1>9. CASE WatchSmoke(r)
  BY <1>1, <1>2, <1>9 DEF WatchSmoke
<1>10. CASE FinishSmoke(r)
  <2>1. PICK cost : Finished(r, "completed", cost, FALSE, "none")
    BY <1>10 DEF FinishSmoke
  <2>2. "completed" \in Terminal
    BY DEF Terminal
  <2> QED
    BY <1>4, <1>10, <2>1, <2>2 DEF FinishSmoke
<1>11. CASE Die(r)
  BY <1>1, <1>2, <1>11 DEF Die
<1> QED
  BY <1>5, <1>6, <1>7, <1>8, <1>9, <1>10, <1>11 DEF Launching

LEMMA OperatingChecks ==
    ASSUME Inv, NEW o \in Operators, Operating(o)
    PROVE  LockOrder'
<1> USE DEF Inv, LockOrder
<1>0. rec \in [Runs -> Record] /\ op \in [Operators -> [cmd : Commands, run : Runs \cup {Nobody}]]
  BY DEF TypeOK
<1>1. ASSUME NEW r \in Runs, NEW cmd, Start(o, cmd, r), Recorded(r),
             UNCHANGED <<rec, pc, args, lock>>
      PROVE  LockOrder'
  <2>1. CommandsHaveRecords'
    BY <1>0, <1>1 DEF Start, CommandsHaveRecords, Recorded
  <2> QED
    BY <1>1, <2>1, QuietChecks
<1>2. ASSUME End(o), \A s \in Runs : Recorded(s) => Recorded(s)'
      PROVE  CommandsHaveRecords'
  BY <1>0, <1>2 DEF End, CommandsHaveRecords
<1>3. ASSUME op[o].cmd # "idle", End(o), lock = Nobody, UNCHANGED <<pc, args, lock>>,
             NEW new, new.status # "absent", rec' = [rec EXCEPT ![op[o].run] = new]
      PROVE  LockOrder'
  <2>1. Recorded(op[o].run)
    BY <1>3 DEF CommandsHaveRecords
  <2>2. LockIsHeld' /\ BindingIsFree' /\ SlotIsFree' /\ RecordedAtWrite'
        /\ \A s \in Runs : Recorded(s) <=> Recorded(s)'
    BY <1>3, <2>1, UnguardedWrite
  <2> QED
    BY <1>2, <1>3, <2>2
<1>4. ASSUME op[o].cmd # "idle", End(o), UNCHANGED <<pc, args, lock>>,
             NEW status \in Terminal, NEW cost, NEW results, NEW dev,
             Finished(op[o].run, status, cost, results, dev)
      PROVE  LockOrder'
  <2>1. op[o].run \in Runs
    BY <1>4 DEF CommandsHaveRecords
  <2>2. Closed(rec[op[o].run], status, cost, results, dev).status = status
    BY <1>0, <2>1 DEF Closed, Record
  <2>3. status # "absent"
    BY DEF Terminal
  <2> QED
    BY <1>3, <1>4, <2>2, <2>3 DEF Finished
<1>5. \A r \in Runs : rec[r].dev # "none" => Recorded(r)
  BY DEF RecordedAtWrite, NoRecord
<1>6. CASE \E r \in Runs : StartCollect(o, r) \/ StartAbandon(o, r)
                           \/ StartForget(o, r) \/ StartVerdict(o, r)
  BY <1>1, <1>5, <1>6 DEF StartCollect, StartAbandon, StartForget, StartVerdict, Uncollected
<1>7. CASE FinishCollect(o)
  <2>1. PICK cost, results, dev : Finished(op[o].run, "completed", cost, results, dev)
    BY <1>7 DEF FinishCollect
  <2>2. "completed" \in Terminal
    BY DEF Terminal
  <2> QED
    BY <1>4, <1>7, <2>1, <2>2 DEF FinishCollect
<1>8. CASE FinishWriteOff(o)
  <2>1. (IF op[o].cmd = "abandon" THEN "abandoned" ELSE "forgotten") \in Terminal
    BY DEF Terminal
  <2> QED
    BY <1>4, <1>8, <2>1 DEF FinishWriteOff
<1>9. CASE FinishVerdict(o)
  <2> DEFINE new == [rec[op[o].run] EXCEPT !.dev = "judged"]
  <2>1. op[o].run \in Runs /\ Recorded(op[o].run)
    BY <1>9 DEF FinishVerdict, CommandsHaveRecords
  <2>2. new.status # "absent"
    BY <1>0, <2>1 DEF Record, Recorded
  <2>3. rec' = [rec EXCEPT ![op[o].run] = new]
    BY <1>9 DEF FinishVerdict
  <2> HIDE DEF new
  <2> QED
    BY <1>3, <1>9, <2>2, <2>3 DEF FinishVerdict
<1>10. CASE LeaveCommand(o)
  <2>1. CommandsHaveRecords'
    BY <1>2, <1>10 DEF LeaveCommand, Recorded
  <2> QED
    BY <1>10, <2>1, QuietChecks DEF LeaveCommand
<1> QED
  BY <1>6, <1>7, <1>8, <1>9, <1>10 DEF Operating, Finish

\* The backends, the clocks and the other two ledgers.
LEMMA OthersQuiet ==
    ASSUME \/ \E r \in Runs : Environment(r)
           \/ \E e \in Expectations : Mint(e) \/ Falsify(e)
           \/ \E k \in Campaigns : Campaigning(k)
           \/ \E p \in DOMAIN Allocation : BookCandidate(p)
           \/ UNCHANGED vars
    PROVE  UNCHANGED <<rec, pc, args, lock, op>>
  BY DEF Environment, JobEnds, JobVanishes, WindowCloses, LeavesSpendWindow, Mint, Falsify,
         Campaigning, StartCampaign, OpenCampaign, DropCampaign, BookCandidate, vars

LEMMA OthersChecks ==
    ASSUME Inv, UNCHANGED <<rec, pc, args, lock, op>>
    PROVE  LockOrder'
<1>1. CommandsHaveRecords'
  BY CommandsKept DEF Inv, LockOrder, Recorded
<1> QED
  BY <1>1, QuietChecks DEF Inv, LockOrder

LEMMA NextChecks == Inv /\ [Next]_vars => LockOrder'
<1> SUFFICES ASSUME Inv, [Next]_vars PROVE LockOrder'
  OBVIOUS
<1>1. CASE \E r \in Runs : Submitting(r)
  BY <1>1, SubmittingChecks
<1>2. CASE \E r \in Runs : Launching(r)
  BY <1>2, LaunchingChecks
<1>3. CASE \E o \in Operators : Operating(o)
  BY <1>3, OperatingChecks
<1>4. CASE \/ \E r \in Runs : Environment(r)
           \/ \E e \in Expectations : Mint(e) \/ Falsify(e)
           \/ \E k \in Campaigns : Campaigning(k)
           \/ \E p \in DOMAIN Allocation : BookCandidate(p)
           \/ UNCHANGED vars
  BY <1>4, OthersQuiet, OthersChecks
<1> QED
  BY <1>1, <1>2, <1>3, <1>4 DEF Next

-----------------------------------------------------------------------------
(* What the predictions and the ceilings are promised.                      *)

\* An event other than a submission keeps the prediction of every run, starts
\* none and removes none.
Keeps(r) ==
    /\ rec'[r].exp = rec[r].exp /\ rec'[r].smoke = rec[r].smoke
    /\ rec'[r].status = "in_flight" => rec[r].status = "in_flight"
    /\ Recorded(r) => Recorded(r)'

LEMMA FinishedKeeps ==
    ASSUME rec \in [Runs -> Record], NEW r, NEW status \in Terminal, NEW cost, NEW results,
           NEW dev, Finished(r, status, cost, results, dev)
    PROVE  \A s \in Runs : Keeps(s)
<1>1. \A s \in Runs : s # r => rec'[s] = rec[s]
  BY DEF Finished
<1>2. r \in Runs => rec'[r] = Closed(rec[r], status, cost, results, dev)
  BY DEF Finished
<1>3. r \in Runs => Closed(rec[r], status, cost, results, dev).status = status
  BY DEF Closed, Record
<1>4. r \in Runs => /\ Closed(rec[r], status, cost, results, dev).exp = rec[r].exp
                    /\ Closed(rec[r], status, cost, results, dev).smoke = rec[r].smoke
  BY DEF Closed, Record
<1>5. status # "absent" /\ status # "in_flight"
  BY DEF Terminal
<1> QED
  BY <1>1, <1>2, <1>3, <1>4, <1>5 DEF Keeps, Recorded

LEMMA UnwrittenKeeps ==
    ASSUME rec' = rec
    PROVE  \A s \in Runs : Keeps(s)
  BY DEF Keeps, Recorded

LEMMA FoldStep ==
    ASSUME Inv, [Next]_vars
    PROVE  \/ \E r \in Runs : WriteRecord(r) \/ RecordSmoke(r)
           \/ \A s \in Runs : Keeps(s)
<1>0. rec \in [Runs -> Record]
  BY DEF Inv, TypeOK
<1>1. ASSUME NEW r \in Runs, Submitting(r), ~WriteRecord(r), ~RecordSmoke(r)
      PROVE  \A s \in Runs : Keeps(s)
  <2>1. rec' = rec
    BY <1>1 DEF Submitting, GateExpectation, GateSpend, GateStale, GateConcurrency, TakeLock,
                RecheckBinding, RecheckCeilings, Withdraw
  <2> QED
    BY <2>1, UnwrittenKeeps
<1>2. ASSUME NEW r \in Runs, Launching(r) PROVE \A s \in Runs : Keeps(s)
  <2>1. CASE FinishSubmitFailed(r)
    <3>1. "submit_failed" \in Terminal
      BY DEF Terminal
    <3> QED
      BY <1>0, <2>1, <3>1, FinishedKeeps DEF FinishSubmitFailed
  <2>2. CASE FinishSmoke(r)
    <3>1. PICK cost : Finished(r, "completed", cost, FALSE, "none")
      BY <2>2 DEF FinishSmoke
    <3>2. "completed" \in Terminal
      BY DEF Terminal
    <3> QED
      BY <1>0, <3>1, <3>2, FinishedKeeps
  <2>3. CASE AttachHandle(r)
    <3>1. \A s \in Runs : s # r => rec'[s] = rec[s]
      BY <2>3 DEF AttachHandle
    <3>2. rec'[r] = [rec[r] EXCEPT !.handle = TRUE]
      BY <1>0, <2>3 DEF AttachHandle
    <3> QED
      BY <1>0, <3>1, <3>2 DEF Keeps, Recorded, Record
  <2>4. CASE Launch(r) \/ LaunchRaises(r) \/ WatchSmoke(r) \/ Die(r)
    BY <2>4, UnwrittenKeeps DEF Launch, LaunchRaises, WatchSmoke, Die
  <2> QED
    BY <1>2, <2>1, <2>2, <2>3, <2>4 DEF Launching
<1>3. ASSUME NEW o \in Operators, Operating(o) PROVE \A s \in Runs : Keeps(s)
  <2>1. CASE FinishCollect(o)
    <3>1. PICK cost, results, dev : Finished(op[o].run, "completed", cost, results, dev)
      BY <2>1 DEF FinishCollect
    <3>2. "completed" \in Terminal
      BY DEF Terminal
    <3> QED
      BY <1>0, <3>1, <3>2, FinishedKeeps
  <2>2. CASE FinishWriteOff(o)
    <3>1. (IF op[o].cmd = "abandon" THEN "abandoned" ELSE "forgotten") \in Terminal
      BY DEF Terminal
    <3> QED
      BY <1>0, <2>2, <3>1, FinishedKeeps DEF FinishWriteOff
  <2>3. CASE FinishVerdict(o)
    <3> DEFINE r == op[o].run
    <3>1. \A s \in Runs : s # r => rec'[s] = rec[s]
      BY <2>3 DEF FinishVerdict
    <3>2. r \in Runs => rec'[r] = [rec[r] EXCEPT !.dev = "judged"]
      BY <1>0, <2>3 DEF FinishVerdict
    <3> HIDE DEF r
    <3> QED
      BY <1>0, <3>1, <3>2 DEF Keeps, Recorded, Record
  <2>4. CASE LeaveCommand(o) \/ \E r \in Runs : StartCollect(o, r) \/ StartAbandon(o, r)
                                                \/ StartForget(o, r) \/ StartVerdict(o, r)
    BY <2>4, UnwrittenKeeps
       DEF LeaveCommand, StartCollect, StartAbandon, StartForget, StartVerdict
  <2> QED
    BY <1>3, <2>1, <2>2, <2>3, <2>4 DEF Operating, Finish
<1>4. CASE \/ \E r \in Runs : Environment(r)
           \/ \E e \in Expectations : Mint(e) \/ Falsify(e)
           \/ \E k \in Campaigns : Campaigning(k)
           \/ \E p \in DOMAIN Allocation : BookCandidate(p)
           \/ UNCHANGED vars
  BY <1>4, OthersQuiet, UnwrittenKeeps
<1> QED
  BY <1>1, <1>2, <1>3, <1>4 DEF Next

\* What the two kinds of submission put on the ledger.
LEMMA WrittenRecord ==
    ASSUME Inv, NEW r \in Runs, WriteRecord(r)
    PROVE  /\ ~Recorded(r) /\ rec[r].exp = NoExp
           /\ rec'[r].status = "in_flight" /\ ~rec'[r].smoke
           /\ rec'[r].exp = args[r].exp /\ args[r].exp \notin RunBound
           /\ Cardinality(InFlight) < MaxConcurrent(r)
           /\ \A s \in Runs \ {r} : rec'[s] = rec[s]
  BY DEF Inv, TypeOK, LockOrder, RecordedAtWrite, BindingIsFree, SlotIsFree, BeforeRecord,
         WriteRecord, Go, NoRecord

LEMMA SmokeRecord ==
    ASSUME Inv, NEW r \in Runs, RecordSmoke(r)
    PROVE  /\ ~Recorded(r) /\ rec[r].exp = NoExp
           /\ rec'[r].status = "in_flight" /\ rec'[r].smoke /\ rec'[r].exp = NoExp
           /\ \A s \in Runs \ {r} : rec'[s] = rec[s]
  BY DEF Inv, TypeOK, LockOrder, RecordedAtWrite, BeforeRecord, RecordSmoke, Go, NoRecord

LEMMA NextOneRun == Inv /\ OneRunPerPrediction /\ [Next]_vars => OneRunPerPrediction'
<1> SUFFICES ASSUME Inv, OneRunPerPrediction, [Next]_vars PROVE OneRunPerPrediction'
  OBVIOUS
<1>1. ASSUME NEW r \in Runs, WriteRecord(r) PROVE OneRunPerPrediction'
  BY <1>1, WrittenRecord DEF OneRunPerPrediction, RunBound
<1>2. ASSUME NEW r \in Runs, RecordSmoke(r) PROVE OneRunPerPrediction'
  BY <1>2, SmokeRecord DEF OneRunPerPrediction
<1>3. CASE \A s \in Runs : Keeps(s)
  BY <1>3 DEF OneRunPerPrediction, Keeps
<1> QED
  BY <1>1, <1>2, <1>3, FoldStep

\* A prediction covers at most one run, with any number of submissions racing
\* for it.
THEOREM PredictionsCoverOneRun == Spec => []OneRunPerPrediction
<1>1. Init => Inv
  BY InitTyped, InitChecks DEF Inv
<1>2. Init => OneRunPerPrediction
  BY DEF Init, OneRunPerPrediction, NoRecord
<1>3. Inv /\ [Next]_vars => Inv'
  BY NextTyped, NextChecks DEF Inv
<1> QED
  BY <1>1, <1>2, <1>3, NextOneRun, PTL DEF Spec

LEMMA GatedFinite == IsFiniteSet(InFlight) /\ IsFiniteSet(GatedInFlight)
<1>1. InFlight \in SUBSET Runs /\ GatedInFlight \in SUBSET Runs
  BY DEF InFlight, GatedInFlight
<1> QED
  BY <1>1, FS_Subset, LedgerAssumption

\* Fewer gated runs in flight are still under the ceiling.
LEMMA FewerGated ==
    ASSUME ConcurrencyBounded, GatedInFlight' \subseteq GatedInFlight
    PROVE  ConcurrencyBounded'
<1>1. CASE GatedInFlight = {}
  BY <1>1 DEF ConcurrencyBounded
<1>2. CASE GatedInFlight # {}
  <2>1. PICK r \in Runs : Cardinality(GatedInFlight) <= MaxConcurrent(r)
    BY <1>2 DEF ConcurrencyBounded
  <2>2. Cardinality(GatedInFlight') <= Cardinality(GatedInFlight)
        /\ Cardinality(GatedInFlight) \in Nat /\ IsFiniteSet(GatedInFlight')
    BY GatedFinite, FS_Subset, FS_CardinalityType
  <2>3. Cardinality(GatedInFlight') \in Nat
    BY <2>2, FS_CardinalityType
  <2>4. MaxConcurrent(r) \in Int
    BY LedgerAssumption DEF MaxConcurrent
  <2>5. Cardinality(GatedInFlight') <= MaxConcurrent(r)
    BY <2>1, <2>2, <2>3, <2>4
  <2> QED
    BY <2>5 DEF ConcurrencyBounded, MaxConcurrent
<1> QED
  BY <1>1, <1>2

LEMMA NextConcurrency == Inv /\ ConcurrencyBounded /\ [Next]_vars => ConcurrencyBounded'
<1> SUFFICES ASSUME Inv, ConcurrencyBounded, [Next]_vars PROVE ConcurrencyBounded'
  OBVIOUS
<1>1. ASSUME NEW r \in Runs, WriteRecord(r) PROVE ConcurrencyBounded'
  <2>1. GatedInFlight' \in SUBSET (InFlight \cup {r})
    BY <1>1, WrittenRecord DEF GatedInFlight, InFlight
  <2>2. Cardinality(InFlight) < MaxConcurrent(r) /\ Cardinality(InFlight) \in Nat
    BY <1>1, WrittenRecord, GatedFinite, FS_CardinalityType
  <2>3. IsFiniteSet(InFlight \cup {r})
        /\ Cardinality(InFlight \cup {r}) <= Cardinality(InFlight) + 1
    BY <2>2, GatedFinite, FS_AddElement
  <2>4. Cardinality(GatedInFlight') <= Cardinality(InFlight \cup {r})
        /\ IsFiniteSet(GatedInFlight')
    BY <2>1, <2>3, FS_Subset
  <2>5. Cardinality(GatedInFlight') \in Nat /\ Cardinality(InFlight \cup {r}) \in Nat
        /\ MaxConcurrent(r) \in Int
    BY <2>3, <2>4, FS_CardinalityType, LedgerAssumption DEF MaxConcurrent
  <2>6. Cardinality(GatedInFlight') <= MaxConcurrent(r)
    BY <2>2, <2>3, <2>4, <2>5
  <2> QED
    BY <2>6 DEF ConcurrencyBounded, MaxConcurrent
<1>2. ASSUME NEW r \in Runs, RecordSmoke(r) PROVE ConcurrencyBounded'
  <2>1. GatedInFlight' \subseteq GatedInFlight
    BY <1>2, SmokeRecord DEF GatedInFlight, InFlight
  <2> QED
    BY <2>1, FewerGated
<1>3. CASE \A s \in Runs : Keeps(s)
  <2>1. GatedInFlight' \subseteq GatedInFlight
    BY <1>3 DEF GatedInFlight, InFlight, Keeps
  <2> QED
    BY <2>1, FewerGated
<1> QED
  BY <1>1, <1>2, <1>3, FoldStep

\* Any number of submissions racing for the last slot fill it once.
THEOREM SlotsAreNotOversold == Spec => []ConcurrencyBounded
<1>1. Init => Inv
  BY InitTyped, InitChecks DEF Inv
<1>2. Init => ConcurrencyBounded
  BY DEF Init, ConcurrencyBounded, GatedInFlight, InFlight, NoRecord
<1>3. Inv /\ [Next]_vars => Inv'
  BY NextTyped, NextChecks DEF Inv
<1> QED
  BY <1>1, <1>2, <1>3, NextConcurrency, PTL DEF Spec

LEMMA NextRecordedJob == Inv /\ NoUnrecordedJob /\ [Next]_vars => NoUnrecordedJob'
<1> SUFFICES ASSUME Inv, NoUnrecordedJob, [Next]_vars PROVE NoUnrecordedJob'
  OBVIOUS
<1>1. \A s \in Runs : Recorded(s) => Recorded(s)'
  <2>1. ASSUME NEW r \in Runs, WriteRecord(r) PROVE \A s \in Runs : Recorded(s) => Recorded(s)'
    BY <2>1, WrittenRecord DEF Recorded
  <2>2. ASSUME NEW r \in Runs, RecordSmoke(r) PROVE \A s \in Runs : Recorded(s) => Recorded(s)'
    BY <2>2, SmokeRecord DEF Recorded
  <2> QED
    BY <2>1, <2>2, FoldStep DEF Keeps
<1>2. \A s \in Runs : job'[s] # "none" => job[s] # "none" \/ Recorded(s)
  <2>0. job \in [Runs -> {"none", "live", "ended", "gone"}]
    BY DEF Inv, TypeOK
  <2>1. ASSUME NEW r \in Runs, Launch(r) \/ LaunchRaises(r)
        PROVE  Recorded(r) /\ \A s \in Runs \ {r} : job'[s] = job[s]
    BY <2>0, <2>1
       DEF Launch, LaunchRaises, Go, Inv, LockOrder, RecordedAtWrite, BeforeRecord
  <2>2. ASSUME NEW r \in Runs, JobEnds(r) \/ JobVanishes(r)
        PROVE  job[r] # "none" /\ \A s \in Runs \ {r} : job'[s] = job[s]
    BY <2>0, <2>2 DEF JobEnds, JobVanishes
  <2>3. \/ \E r \in Runs : Launch(r) \/ LaunchRaises(r)
        \/ \E r \in Runs : JobEnds(r) \/ JobVanishes(r)
        \/ job' = job
    <3>1. ASSUME NEW r \in Runs, Submitting(r) PROVE job' = job
      BY <3>1 DEF Submitting, GateExpectation, GateSpend, GateStale, GateConcurrency, TakeLock,
                  RecheckBinding, RecheckCeilings, WriteRecord, Withdraw, RecordSmoke
    <3>2. ASSUME NEW r \in Runs, Launching(r)
          PROVE  Launch(r) \/ LaunchRaises(r) \/ job' = job
      BY <3>2 DEF Launching, FinishSubmitFailed, AttachHandle, WatchSmoke, FinishSmoke, Die
    <3>3. ASSUME NEW r \in Runs, Environment(r)
          PROVE  JobEnds(r) \/ JobVanishes(r) \/ job' = job
      BY <3>3 DEF Environment, WindowCloses, LeavesSpendWindow
    <3>4. ASSUME NEW o \in Operators, Operating(o) PROVE job' = job
      BY <3>4 DEF Operating, Finish, StartCollect, StartAbandon, StartForget, StartVerdict,
                  FinishCollect, FinishWriteOff, FinishVerdict, LeaveCommand
    <3>5. CASE \/ \E e \in Expectations : Mint(e) \/ Falsify(e)
               \/ \E k \in Campaigns : Campaigning(k)
               \/ \E p \in DOMAIN Allocation : BookCandidate(p)
               \/ UNCHANGED vars
      BY <3>5 DEF Mint, Falsify, Campaigning, StartCampaign, OpenCampaign, DropCampaign, BookCandidate, vars
    <3> QED
      BY <3>1, <3>2, <3>3, <3>4, <3>5 DEF Next
  <2> QED
    BY <2>1, <2>2, <2>3
<1> QED
  BY <1>1, <1>2 DEF NoUnrecordedJob

\* Wherever a submission is interrupted, what runs on a backend is on the
\* ledger.
THEOREM JobsAreRecorded == Spec => []NoUnrecordedJob
<1>1. Init => Inv
  BY InitTyped, InitChecks DEF Inv
<1>2. Init => NoUnrecordedJob
  BY DEF Init, NoUnrecordedJob
<1>3. Inv /\ [Next]_vars => Inv'
  BY NextTyped, NextChecks DEF Inv
<1> QED
  BY <1>1, <1>2, <1>3, NextRecordedJob, PTL DEF Spec

LEMMA RunBoundGrows ==
    ASSUME Inv, [Next]_vars
    PROVE  RunBound \subseteq RunBound'
<1>1. ASSUME NEW r \in Runs, WriteRecord(r) PROVE RunBound \subseteq RunBound'
  BY <1>1, WrittenRecord DEF RunBound
<1>2. ASSUME NEW r \in Runs, RecordSmoke(r) PROVE RunBound \subseteq RunBound'
  BY <1>2, SmokeRecord DEF RunBound
<1>3. CASE \A s \in Runs : Keeps(s)
  BY <1>3 DEF RunBound, Keeps
<1> QED
  BY <1>1, <1>2, <1>3, FoldStep

LEMMA OtherBoundGrows ==
    ASSUME Inv, [Next]_vars
    PROVE  CampaignBound \subseteq CampaignBound' /\ retracted \subseteq retracted'
<1>0. camp \in [Campaigns -> [step : {"idle", "checked", "open"}, exp : Bindable]]
  BY DEF Inv, TypeOK
<1>1. ASSUME NEW k \in Campaigns, camp[k].step # "open",
             \A l \in Campaigns \ {k} : camp'[l] = camp[l]
      PROVE  CampaignBound \subseteq CampaignBound'
  BY <1>1 DEF CampaignBound
<1>2. ASSUME NEW k \in Campaigns, Campaigning(k)
      PROVE  CampaignBound \subseteq CampaignBound' /\ retracted' = retracted
  <2>1. camp[k].step # "open" /\ retracted' = retracted
    BY <1>2 DEF Campaigning, StartCampaign, OpenCampaign, DropCampaign
  <2>2. \A l \in Campaigns \ {k} : camp'[l] = camp[l]
    BY <1>0, <1>2 DEF Campaigning, StartCampaign, OpenCampaign, DropCampaign
  <2> QED
    BY <1>1, <2>1, <2>2
<1>3. ASSUME NEW e \in Expectations, Mint(e) \/ Falsify(e)
      PROVE  camp' = camp /\ retracted \subseteq retracted'
  BY <1>3 DEF Mint, Falsify
<1>4. ASSUME \/ \E r \in Runs : Submitting(r) \/ Launching(r) \/ Environment(r)
             \/ \E o \in Operators : Operating(o)
             \/ \E p \in DOMAIN Allocation : BookCandidate(p)
             \/ UNCHANGED vars
      PROVE  camp' = camp /\ retracted' = retracted
  <2>1. ASSUME NEW r \in Runs, Submitting(r) PROVE camp' = camp /\ retracted' = retracted
    BY <2>1 DEF Submitting, GateExpectation, GateSpend, GateStale, GateConcurrency, TakeLock,
                RecheckBinding, RecheckCeilings, WriteRecord, Withdraw, RecordSmoke, ledgers
  <2>2. ASSUME NEW r \in Runs, Launching(r) PROVE camp' = camp /\ retracted' = retracted
    BY <2>2 DEF Launching, Launch, LaunchRaises, FinishSubmitFailed, AttachHandle, WatchSmoke,
                FinishSmoke, Die, ledgers
  <2>3. ASSUME NEW r \in Runs, Environment(r) PROVE camp' = camp /\ retracted' = retracted
    BY <2>3 DEF Environment, JobEnds, JobVanishes, WindowCloses, LeavesSpendWindow, ledgers
  <2>4. ASSUME NEW o \in Operators, Operating(o) PROVE camp' = camp /\ retracted' = retracted
    BY <2>4 DEF Operating, Finish, StartCollect, StartAbandon, StartForget, StartVerdict,
                FinishCollect, FinishWriteOff, FinishVerdict, LeaveCommand, ledgers
  <2>5. ASSUME NEW p \in DOMAIN Allocation, BookCandidate(p)
        PROVE  camp' = camp /\ retracted' = retracted
    BY <2>5 DEF BookCandidate
  <2> QED
    BY <1>4, <2>1, <2>2, <2>3, <2>4, <2>5 DEF vars
<1> QED
  BY <1>2, <1>3, <1>4 DEF Next, CampaignBound

\* No write-off, failed launch or retraction gives a prediction back.
THEOREM BindingsArePermanent == Spec => BindingStands
<1>1. Init => Inv
  BY InitTyped, InitChecks DEF Inv
<1>2. Inv /\ [Next]_vars => Inv'
  BY NextTyped, NextChecks DEF Inv
<1>3. Inv /\ [Next]_vars => [Consumed \subseteq Consumed']_vars
  BY RunBoundGrows, OtherBoundGrows DEF Consumed
<1> QED
  BY <1>1, <1>2, <1>3, PTL DEF Spec, BindingStands
=============================================================================
