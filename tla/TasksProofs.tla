---------------------------- MODULE TasksProofs ------------------------------
(***************************************************************************)
(* Proofs about Tasks, for any number of tasks, stops and clears: the      *)
(* ceiling holds, a command that is held is listed as running, an exit     *)
(* that is recorded stands, and what reads as stopped is over.             *)
(*                                                                         *)
(* What they rest on is the order in which a task lives: recorded while    *)
(* its supervisor waits or is gone, held only when recorded, and finished, *)
(* forgotten or about to be forgotten only when its supervisor is gone.    *)
(***************************************************************************)
EXTENDS Tasks, FiniteSetTheorems, TLAPS

\* The order in which a task lives.
TaskOrder ==
    \A t \in Ids :
        /\ start[t] # "done" => ~reg[t].started
        /\ start[t] \in {"idle", "checked"} => sup[t] = "none"
        /\ start[t] = "spawned" \/ reg[t].started => sup[t] # "none"
        /\ sup[t] = "holding" => reg[t].started
        /\ reg[t].exit # "none" \/ reg[t].forgotten \/ t \in clearing => sup[t] = "gone"

\* What a stop has done by each of its steps.
StopOrder ==
    \A s \in Stops :
        /\ stop[s].step # "idle" => stop[s].task \in Ids /\ reg[stop[s].task].started
        /\ stop[s].step \in {"halting", "signalling", "signalled", "recording"} =>
               reg[stop[s].task].stopping
        /\ stop[s].step \in {"signalled", "recording"} => sup[stop[s].task] = "gone"
        /\ stop[s].step = "recording" => reg[stop[s].task].exit \in {"none", "stopped"}

\* The ceiling, on what the registry and the liveness of supervisors show.
RunningBounded == Cardinality(RunningTasks) <= Limit

IInv == TypeOK /\ TaskOrder /\ StopOrder

\* What the registry says of a task.
TaskRecord == [started : BOOLEAN, stopping : BOOLEAN, forgotten : BOOLEAN,
               exit : {"none", "ok", "failed", "stopped"}]

-----------------------------------------------------------------------------
\* A registry with one flag of one task raised is a registry.
LEMMA RegistryTyped ==
    ASSUME NEW f \in [Ids -> TaskRecord], NEW t \in Ids
    PROVE  /\ [f EXCEPT ![t].started = TRUE] \in [Ids -> TaskRecord]
           /\ [f EXCEPT ![t].stopping = TRUE] \in [Ids -> TaskRecord]
           /\ [f EXCEPT ![t].forgotten = TRUE] \in [Ids -> TaskRecord]
<1> DEFINE R == TaskRecord
<1>1. f[t] \in R
  OBVIOUS
<1>2. /\ [f[t] EXCEPT !.started = TRUE] \in R
      /\ [f[t] EXCEPT !.stopping = TRUE] \in R
      /\ [f[t] EXCEPT !.forgotten = TRUE] \in R
  BY <1>1 DEF TaskRecord
<1> HIDE DEF R
<1>3. ASSUME NEW r \in R PROVE [f EXCEPT ![t] = r] \in [Ids -> R]
  BY DEF R
<1> QED
  BY <1>2, <1>3 DEF R

-----------------------------------------------------------------------------
\* The invariant on the order of things holds at the start.
LEMMA InitOrder == Init => IInv
  BY DEF Init, IInv, TypeOK, TaskOrder, StopOrder, Unrecorded

\* No step of `task start` disturbs it.
LEMMA StartingOrder ==
    ASSUME NEW t \in Ids, IInv, Starting(t)
    PROVE  IInv'
<1> USE DEF IInv, TypeOK, TaskOrder, StopOrder
<1>1. CASE CheckCeiling(t)
  BY <1>1 DEF CheckCeiling
<1>2. CASE Spawn(t)
  BY <1>2 DEF Spawn
<1>3. CASE RecordStarted(t)
  <2>1. TypeOK'
    <3>1. reg' \in [Ids -> TaskRecord]
      BY <1>3, RegistryTyped DEF RecordStarted, TaskRecord
    <3> QED
      BY <1>3, <3>1 DEF RecordStarted, TaskRecord
  <2>2. TaskOrder'
    BY <1>3 DEF RecordStarted
  <2>3. StopOrder'
    BY <1>3 DEF RecordStarted
  <2> QED
    BY <2>1, <2>2, <2>3
<1>4. CASE RefuseStart(t)
  BY <1>4 DEF RefuseStart
<1>5. CASE StartDies(t)
  BY <1>5 DEF StartDies
<1> QED
  BY <1>1, <1>2, <1>3, <1>4, <1>5 DEF Starting

\* Nor does one of the supervisor.
LEMMA SupervisingOrder ==
    ASSUME NEW t \in Ids, IInv, Supervising(t)
    PROVE  IInv'
<1> USE DEF IInv, TypeOK, TaskOrder, StopOrder
<1>1. CASE Claim(t)
  BY <1>1 DEF Claim, Listed
<1>2. CASE GiveUp(t)
  BY <1>2 DEF GiveUp
<1>3. CASE CommandEnds(t)
  BY <1>3 DEF CommandEnds
<1>4. CASE RecordExited(t)
  BY <1>4 DEF RecordExited, ExitState
<1>5. CASE SupervisorDies(t)
  BY <1>5 DEF SupervisorDies, Alive
<1> QED
  BY <1>1, <1>2, <1>3, <1>4, <1>5 DEF Supervising

\* Nor one of `task stop`.
LEMMA StoppingOrder ==
    ASSUME NEW s \in Stops, IInv, Stopping(s)
    PROVE  IInv'
<1> USE DEF IInv, TypeOK, TaskOrder, StopOrder
<1>1. ASSUME NEW t \in Ids, StopTask(s, t) PROVE IInv'
  BY <1>1 DEF StopTask, Running, Listed
<1>2. CASE RecordStopping(s)
  <2>1. TypeOK'
    <3>1. reg' \in [Ids -> TaskRecord]
      BY <1>2, RegistryTyped DEF RecordStopping, Step, TaskRecord
    <3> QED
      BY <1>2, <3>1 DEF RecordStopping, Step, TaskRecord
  <2>2. TaskOrder'
    BY <1>2 DEF RecordStopping, Step
  <2>3. StopOrder'
    BY <1>2 DEF RecordStopping, Step
  <2> QED
    BY <2>1, <2>2, <2>3
<1>3. CASE HaltFails(s)
  BY <1>3 DEF HaltFails, Step
<1>4. CASE SeeRecord(s)
  BY <1>4 DEF SeeRecord
<1>5. CASE Signal(s)
  <2>1. TypeOK'
    BY <1>5 DEF Signal, Step
  <2>2. TaskOrder'
    BY <1>5 DEF Signal, Step
  <2>3. StopOrder'
    BY <1>5 DEF Signal, Step
  <2> QED
    BY <2>1, <2>2, <2>3
<1>6. CASE SeeNoRecord(s)
  BY <1>6 DEF SeeNoRecord, Step, Over, Finished
<1>7. CASE RecordStopped(s)
  BY <1>7 DEF RecordStopped, Step, ExitState
<1>8. CASE SignalFails(s)
  BY <1>8 DEF SignalFails, Step
<1>9. CASE StopDies(s)
  BY <1>9 DEF StopDies
<1> QED
  BY <1>1, <1>2, <1>3, <1>4, <1>5, <1>6, <1>7, <1>8, <1>9 DEF Stopping, StopGoesOn

\* Nor one of `task clear`: what it has on its list was over when it looked, and
\* what is over does not run again.
LEMMA ClearingOrder ==
    ASSUME IInv, Clearing
    PROVE  IInv'
<1> USE DEF IInv, TypeOK, TaskOrder, StopOrder
<1>1. CASE StartClear
  BY <1>1 DEF StartClear, Clearable, Listed, Running, Finished, Alive
<1>2. ASSUME NEW t \in Ids, Forget(t) PROVE IInv'
  <2>1. TypeOK'
    <3>1. reg' \in [Ids -> TaskRecord]
      BY <1>2, RegistryTyped DEF Forget, TaskRecord
    <3> QED
      BY <1>2, <3>1 DEF Forget, TaskRecord
  <2>2. TaskOrder'
    BY <1>2 DEF Forget
  <2>3. StopOrder'
    BY <1>2 DEF Forget
  <2> QED
    BY <2>1, <2>2, <2>3
<1> QED
  BY <1>1, <1>2 DEF Clearing

\* So the order holds for ever.
LEMMA NextOrder == IInv /\ [Next]_vars => IInv'
<1> SUFFICES ASSUME IInv, [Next]_vars PROVE IInv'
  OBVIOUS
<1>1. CASE UNCHANGED vars
  BY <1>1 DEF vars, IInv, TypeOK, TaskOrder, StopOrder
<1>2. CASE Next
  BY <1>2, StartingOrder, SupervisingOrder, StoppingOrder, ClearingOrder DEF Next
<1> QED
  BY <1>1, <1>2

LEMMA Ordered == Spec => []IInv
  BY InitOrder, NextOrder, PTL DEF Spec

\* Whatever may be started, stopped or cleared at once, the states of tasks keep
\* their types.
THEOREM TypeCorrect == Spec => []TypeOK
<1>1. IInv => TypeOK
  BY DEF IInv
<1> QED
  BY <1>1, Ordered, PTL

\* A command with a supervisor is listed as running: no stop records an end for it
\* and no clear forgets it (cmd_supervise, cmd_stop, cmd_clear).
THEOREM HeldTasksAreListed == Spec => []HeldIsRunning
<1>1. IInv => HeldIsRunning
  BY DEF IInv, TypeOK, TaskOrder, HeldIsRunning, Running, Listed, Finished, Alive
<1> QED
  BY <1>1, Ordered, PTL

-----------------------------------------------------------------------------
\* Only a start that found room makes one more task running.
LEMMA StepsRun ==
    ASSUME IInv, IInv', [Next]_vars
    PROVE  \/ RunningTasks' \subseteq RunningTasks
           \/ \E t \in Ids : Room /\ RunningTasks' \subseteq RunningTasks \cup {t}
<1> USE DEF IInv, TypeOK, TaskOrder, RunningTasks, Running, Listed, Finished, Alive
<1>1. CASE UNCHANGED vars
  BY <1>1 DEF vars
<1>2. ASSUME NEW t \in Ids, Starting(t)
      PROVE  \/ RunningTasks' \subseteq RunningTasks
             \/ Room /\ RunningTasks' \subseteq RunningTasks \cup {t}
  BY <1>2 DEF Starting, CheckCeiling, Spawn, RecordStarted, RefuseStart, StartDies
<1>3. ASSUME NEW t \in Ids, Supervising(t)
      PROVE  RunningTasks' \subseteq RunningTasks
  BY <1>3 DEF Supervising, Claim, GiveUp, CommandEnds, RecordExited, SupervisorDies
<1>4. ASSUME NEW s \in Stops, Stopping(s)
      PROVE  RunningTasks' \subseteq RunningTasks
  BY <1>4 DEF Stopping, StopGoesOn, StopTask, RecordStopping, HaltFails, SeeRecord, Signal,
              SeeNoRecord, RecordStopped, SignalFails, StopDies, Step
<1>5. CASE Clearing
  BY <1>5 DEF Clearing, StartClear, Forget
<1> QED
  BY <1>1, <1>2, <1>3, <1>4, <1>5 DEF Next

\* The tasks that run are within the ceiling, after every step.
LEMMA StepBounded ==
    ASSUME IInv, IInv', [Next]_vars, RunningBounded
    PROVE  RunningBounded'
<1>1. IsFiniteSet(RunningTasks) /\ Cardinality(RunningTasks) \in Nat
  BY TasksAssumption, FS_Subset, FS_CardinalityType DEF RunningTasks
<1>2. CASE RunningTasks' \subseteq RunningTasks
  BY <1>1, <1>2, FS_Subset, FS_CardinalityType, TasksAssumption DEF RunningBounded
<1>3. ASSUME NEW t \in Ids, Room, RunningTasks' \subseteq RunningTasks \cup {t}
      PROVE  RunningBounded'
  <2> DEFINE Grown == RunningTasks \cup {t}
  <2>1. IsFiniteSet(Grown) /\ Cardinality(Grown) <= Cardinality(RunningTasks) + 1
    BY <1>1, FS_AddElement
  <2>2. Cardinality(RunningTasks') <= Cardinality(Grown)
    BY <1>3, <2>1, FS_Subset
  <2>3. Cardinality(Grown) \in Nat /\ Cardinality(RunningTasks') \in Nat
    BY <1>3, <2>1, FS_Subset, FS_CardinalityType
  <2> HIDE DEF Grown
  <2> QED
    BY <1>1, <1>3, <2>1, <2>2, <2>3, TasksAssumption DEF RunningBounded, Room
<1> QED
  BY <1>2, <1>3, StepsRun

-----------------------------------------------------------------------------
\* A command that dies of a SIGTERM runs only while its supervisor holds it.
CommandsAreHeld == \A t \in Ids \ Deaf : cmd[t] = "live" => sup[t] = "holding"

\* It does not outlive its supervisor.
LEMMA StepHeld ==
    ASSUME IInv, [Next]_vars, CommandsAreHeld
    PROVE  CommandsAreHeld'
<1> USE DEF IInv, TypeOK, TaskOrder, CommandsAreHeld
<1>1. CASE UNCHANGED vars
  BY <1>1 DEF vars
<1>2. ASSUME NEW t \in Ids, Starting(t) PROVE CommandsAreHeld'
  BY <1>2 DEF Starting, CheckCeiling, Spawn, RecordStarted, RefuseStart, StartDies
<1>3. ASSUME NEW t \in Ids, Supervising(t) PROVE CommandsAreHeld'
  BY <1>3 DEF Supervising, Claim, GiveUp, CommandEnds, RecordExited, SupervisorDies
<1>4. ASSUME NEW s \in Stops, Stopping(s) PROVE CommandsAreHeld'
  <2>1. CASE Signal(s)
    BY <2>1 DEF Signal, Step, StopOrder, Alive
  <2>2. CASE ~Signal(s)
    BY <1>4, <2>2 DEF Stopping, StopGoesOn, StopTask, RecordStopping, HaltFails, SeeRecord,
                      SeeNoRecord, RecordStopped, SignalFails, StopDies, Step
  <2> QED
    BY <2>1, <2>2
<1>5. CASE Clearing
  BY <1>5 DEF Clearing, StartClear, Forget
<1> QED
  BY <1>1, <1>2, <1>3, <1>4, <1>5 DEF Next

\* Nor at any time.
LEMMA HeldAlways == Spec => []CommandsAreHeld
<1>1. Init => CommandsAreHeld
  BY DEF Init, CommandsAreHeld
<1>2. IInv /\ [Next]_vars /\ CommandsAreHeld => CommandsAreHeld'
  BY StepHeld
<1> QED
  BY <1>1, <1>2, Ordered, PTL DEF Spec

\* However many starts race, with refusals, stops and deaths between them, no more
\* supervisors hold a command, and no more commands that die of a SIGTERM are live,
\* than the ceiling allows: _check_ceiling is repeated inside the append that makes a
\* task visible.
THEOREM CeilingIsKept == Spec => []CeilingHolds
<1>1. Init => RunningBounded
  <2> SUFFICES ASSUME Init PROVE RunningBounded
    OBVIOUS
  <2>1. RunningTasks = {}
    BY DEF Init, Unrecorded, RunningTasks, Running, Listed
  <2> QED
    BY <2>1, FS_EmptySet, TasksAssumption DEF RunningBounded
<1>2. IInv /\ IInv' /\ [Next]_vars /\ RunningBounded => RunningBounded'
  BY StepBounded
<1>3. IInv /\ CommandsAreHeld /\ RunningBounded => CeilingHolds
  <2> SUFFICES ASSUME IInv, CommandsAreHeld, RunningBounded PROVE CeilingHolds
    OBVIOUS
  <2> DEFINE Held == {t \in Ids : sup[t] = "holding" \/ (cmd[t] = "live" /\ t \notin Deaf)}
  <2>1. Held \subseteq RunningTasks
    BY DEF IInv, CommandsAreHeld, TypeOK, TaskOrder, RunningTasks, Running, Listed, Finished, Alive
  <2>2. IsFiniteSet(RunningTasks)
    BY TasksAssumption, FS_Subset DEF RunningTasks
  <2>3. /\ Cardinality(Held) <= Cardinality(RunningTasks)
        /\ Cardinality(Held) \in Nat /\ Cardinality(RunningTasks) \in Nat
    BY <2>1, <2>2, FS_Subset, FS_CardinalityType
  <2> QED
    BY <2>3, TasksAssumption DEF RunningBounded, CeilingHolds
<1> QED
  BY <1>1, <1>2, <1>3, Ordered, HeldAlways, PTL DEF Spec

-----------------------------------------------------------------------------
\* A recorded end is never rewritten: the supervisor records one only while it
\* holds a command, a stop only when the supervisor is gone and nothing but
\* another stop can have recorded since it looked.
THEOREM RecordedExitsStand == Spec => ExitStands
<1>1. IInv /\ [Next]_vars
        => [\A t \in Ids : reg[t].exit # "none" => reg'[t].exit = reg[t].exit]_vars
  <2> SUFFICES ASSUME IInv, Next, NEW t \in Ids, reg[t].exit # "none"
               PROVE  reg'[t].exit = reg[t].exit
    OBVIOUS
  <2> USE DEF IInv, TypeOK, TaskOrder, StopOrder
  <2>1. ASSUME NEW u \in Ids, Starting(u) PROVE reg'[t].exit = reg[t].exit
    <3>1. CASE RecordStarted(u)
      BY <3>1 DEF RecordStarted
    <3>2. CASE ~RecordStarted(u)
      BY <2>1, <3>2 DEF Starting, CheckCeiling, Spawn, RefuseStart, StartDies
    <3> QED
      BY <3>1, <3>2
  <2>2. ASSUME NEW u \in Ids, Supervising(u) PROVE reg'[t].exit = reg[t].exit
    BY <2>2 DEF Supervising, Claim, GiveUp, CommandEnds, RecordExited, SupervisorDies
  <2>3. ASSUME NEW s \in Stops, Stopping(s) PROVE reg'[t].exit = reg[t].exit
    <3>1. CASE RecordStopped(s)
      BY <2>3, <3>1 DEF RecordStopped, Step, ExitState
    <3>2. CASE ~RecordStopped(s)
      BY <2>3, <3>2 DEF Stopping, StopGoesOn, StopTask, RecordStopping, HaltFails, SeeRecord,
                        Signal, SeeNoRecord, SignalFails, StopDies, Step
    <3> QED
      BY <3>1, <3>2
  <2>4. CASE Clearing
    BY <2>4 DEF Clearing, StartClear, Forget
  <2> QED
    BY <2>1, <2>2, <2>3, <2>4 DEF Next
<1> QED
  BY <1>1, Ordered, PTL DEF Spec, ExitStands

\* The stop of a task whose command dies of a SIGTERM is true, and such a task is
\* not forgotten while it runs, whatever other tasks do.
WillingIsOver ==
    \A t \in Ids \ Deaf :
        reg[t].exit = "stopped" \/ reg[t].forgotten => cmd[t] # "live"

\* With any number of stops and clears racing, a task that reads as stopped, or is
\* forgotten, is over when its command dies of a SIGTERM: the tree is signalled
\* before an end is recorded for it (cmd_stop, _kill_tree), and a list to clear
\* that is out of date holds nothing that runs (cmd_clear).
THEOREM WillingTasksAreOver == Spec => []WillingIsOver
<1>1. IInv /\ CommandsAreHeld => WillingIsOver
  BY DEF IInv, TypeOK, TaskOrder, CommandsAreHeld, WillingIsOver
<1> QED
  BY <1>1, Ordered, HeldAlways, PTL

\* Where every command dies of a SIGTERM, a task that reads as stopped is over.
\* Without the assumption _kill_tree leaves the command running (the run
\* tasks_deaf).
THEOREM StoppedTasksAreOver ==
    ASSUME Deaf = {}
    PROVE  Spec => []StoppedIsOver
<1>1. WillingIsOver => StoppedIsOver
  BY DEF WillingIsOver, StoppedIsOver
<1> QED
  BY <1>1, WillingTasksAreOver, PTL

\* And nothing that still runs is forgotten, though `clear` works from an old list.
THEOREM ForgottenTasksAreOver ==
    ASSUME Deaf = {}
    PROVE  Spec => []ForgottenIsOver
<1>1. WillingIsOver => ForgottenIsOver
  BY DEF WillingIsOver, ForgottenIsOver
<1> QED
  BY <1>1, WillingTasksAreOver, PTL
=============================================================================
