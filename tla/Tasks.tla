------------------------------- MODULE Tasks ---------------------------------
(***************************************************************************)
(* Background tasks: tools/task.py over the registry of core/tasks.py.     *)
(*                                                                         *)
(* `task start` checks the ceiling, spawns a detached supervisor and       *)
(* records the task, checking the ceiling again under the lock of the      *)
(* registry.  The supervisor waits for that record, runs the command and   *)
(* records how it ended.  `task stop` marks the task, asks, signals and    *)
(* records the end itself when the supervisor no longer can.  `task clear` *)
(* forgets what is over.  All are processes of their own over one          *)
(* append-only registry, and whether a task is running is read off its     *)
(* events and the liveness of its supervisor.                              *)
(***************************************************************************)
EXTENDS Integers, FiniteSets

CONSTANTS
    Ids,        \* tasks that may be started
    Stops,      \* `task stop` processes
    Limit,      \* [execution] max_concurrent_tasks
    Graceful,   \* the tasks with a --halt verb
    Deaf,       \* the tasks whose command survives a SIGTERM
    Trouble,    \* whether processes are killed from outside, and signals refused
    NoTask      \* the task of a stop that has none

ASSUME TasksAssumption ==
    /\ IsFiniteSet(Ids)
    /\ Limit \in Nat \ {0}
    /\ NoTask \notin Ids
    /\ Trouble \in BOOLEAN

VARIABLES
    reg,        \* what the registry says of each task
    start,      \* where `task start` is
    sup,        \* the supervisor
    cmd,        \* the command itself
    stop,       \* each stop: its step and its task
    clearing    \* what a `task clear` has still to forget

vars == <<reg, start, sup, cmd, stop, clearing>>

\* Mutant: what has recorded no exit folds as lost.
UnrecordedLost == [started |-> FALSE, stopping |-> FALSE, forgotten |-> FALSE, exit |-> "lost"]

Unrecorded == [started |-> FALSE, stopping |-> FALSE, forgotten |-> FALSE, exit |-> "none"]

-----------------------------------------------------------------------------
(* The fold, and the liveness read into it.                                *)

Listed(t)   == reg[t].started /\ ~reg[t].forgotten
Alive(t)    == sup[t] \in {"waiting", "holding"}
Finished(t) == reg[t].exit # "none"

Running(t) == Listed(t) /\ ~Finished(t) /\ Alive(t)

\* Started, no exit recorded, and the supervisor is gone.
Lost(t) == Listed(t) /\ ~Finished(t) /\ ~Alive(t)

RunningTasks == {t \in Ids : Running(t)}

Room == Cardinality(RunningTasks) < Limit

\* The state an exit event folds to: it depends on what was asked before it.
ExitState(t, code) ==
    IF reg[t].stopping THEN "stopped" ELSE IF code = "ok" THEN "ok" ELSE "failed"

-----------------------------------------------------------------------------
Init ==
    /\ reg = [t \in Ids |-> Unrecorded]
    /\ start = [t \in Ids |-> "idle"]
    /\ sup = [t \in Ids |-> "none"]
    /\ cmd = [t \in Ids |-> "none"]
    /\ stop = [s \in Stops |-> [step |-> "idle", task |-> NoTask]]
    /\ clearing = {}

(* task start.                                                             *)

\* _check_ceiling, outside the lock.
CheckCeiling(t) ==
    /\ start[t] = "idle" /\ Room
    /\ start' = [start EXCEPT ![t] = "checked"]
    /\ UNCHANGED <<reg, sup, cmd, stop, clearing>>

Spawn(t) ==
    /\ start[t] = "checked"
    /\ start' = [start EXCEPT ![t] = "spawned"]
    /\ sup' = [sup EXCEPT ![t] = "waiting"]
    /\ UNCHANGED <<reg, cmd, stop, clearing>>

\* Mutant: the record is appended without a precondition.
RecordUnchecked(t) ==
    /\ start[t] = "spawned"
    /\ start' = [start EXCEPT ![t] = "done"]
    /\ reg' = [reg EXCEPT ![t].started = TRUE]
    /\ UNCHANGED <<sup, cmd, stop, clearing>>

\* record_started, with the ceiling as its precondition.
RecordStarted(t) ==
    /\ start[t] = "spawned" /\ Room
    /\ start' = [start EXCEPT ![t] = "done"]
    /\ reg' = [reg EXCEPT ![t].started = TRUE]
    /\ UNCHANGED <<sup, cmd, stop, clearing>>

\* The ceiling closed since: no record, and the waiting supervisor is killed.
RefuseStart(t) ==
    /\ start[t] = "spawned" /\ ~Room
    /\ start' = [start EXCEPT ![t] = "done"]
    /\ sup' = [sup EXCEPT ![t] = "gone"]
    /\ UNCHANGED <<reg, cmd, stop, clearing>>

\* Killed before the record: a supervisor it spawned is left waiting.
StartDies(t) ==
    /\ Trouble /\ start[t] \in {"checked", "spawned"}
    /\ start' = [start EXCEPT ![t] = "done"]
    /\ UNCHANGED <<reg, sup, cmd, stop, clearing>>

Starting(t) ==
    CheckCeiling(t) \/ Spawn(t) \/ RecordStarted(t) \/ RefuseStart(t) \/ StartDies(t)

-----------------------------------------------------------------------------
(* The supervisor.                                                         *)

\* Mutant: the supervisor runs its command without looking for the record.
ClaimUnseen(t) ==
    /\ sup[t] = "waiting"
    /\ sup' = [sup EXCEPT ![t] = "holding"]
    /\ \E outcome \in {"live", "failed"} : cmd' = [cmd EXCEPT ![t] = outcome]
    /\ UNCHANGED <<reg, start, stop, clearing>>

\* _claim sees the record; the command starts, or cannot be started.
Claim(t) ==
    /\ sup[t] = "waiting" /\ Listed(t)
    /\ sup' = [sup EXCEPT ![t] = "holding"]
    /\ \E outcome \in {"live", "failed"} : cmd' = [cmd EXCEPT ![t] = outcome]
    /\ UNCHANGED <<reg, start, stop, clearing>>

\* Mutant: nothing bounds the wait.
GiveUpNever(t) == FALSE

\* CLAIM_TIMEOUT_S runs out.  The record may still come, to nobody.
GiveUp(t) ==
    /\ sup[t] = "waiting" /\ ~Listed(t)
    /\ sup' = [sup EXCEPT ![t] = "gone"]
    /\ UNCHANGED <<reg, start, cmd, stop, clearing>>

CommandEnds(t) ==
    /\ cmd[t] = "live"
    /\ \E code \in {"ok", "failed"} : cmd' = [cmd EXCEPT ![t] = code]
    /\ UNCHANGED <<reg, start, sup, stop, clearing>>

\* record_exited, and the supervisor is done.
RecordExited(t) ==
    /\ sup[t] = "holding" /\ cmd[t] \in {"ok", "failed"}
    /\ reg' = [reg EXCEPT ![t].exit = ExitState(t, cmd[t])]
    /\ sup' = [sup EXCEPT ![t] = "gone"]
    /\ UNCHANGED <<start, cmd, stop, clearing>>

\* A reboot, or a kill of its whole group: the supervisor goes, and its command
\* with it.
SupervisorDies(t) ==
    /\ Trouble /\ Alive(t)
    /\ sup' = [sup EXCEPT ![t] = "gone"]
    /\ cmd' = IF cmd[t] = "live" THEN [cmd EXCEPT ![t] = "killed"] ELSE cmd
    /\ UNCHANGED <<reg, start, stop, clearing>>

Supervising(t) ==
    Claim(t) \/ GiveUp(t) \/ CommandEnds(t) \/ RecordExited(t) \/ SupervisorDies(t)

-----------------------------------------------------------------------------
(* task stop.                                                              *)

Step(s, from, to) == stop[s].step = from /\ stop' = [stop EXCEPT ![s].step = to]

\* Refused for a task that is not running.
StopTask(s, t) ==
    /\ stop[s].step = "idle" /\ Running(t)
    /\ stop' = [stop EXCEPT ![s] = [step |-> "asked", task |-> t]]
    /\ UNCHANGED <<reg, start, sup, cmd, clearing>>

\* Before anything is signalled: what tells a stop from a failure.
RecordStopping(s) ==
    LET t == stop[s].task
    IN  /\ Step(s, "asked", IF t \in Graceful THEN "halting" ELSE "signalling")
        /\ reg' = [reg EXCEPT ![t].stopping = TRUE]
        /\ UNCHANGED <<start, sup, cmd, clearing>>

\* Mutant: any task that no longer runs is over, recorded or not.
OverIfGone(t) == ~Running(t)

\* Mutant: the exit event is not looked for.
OverIfAbsent(t) == ~Listed(t)

\* What _await_record waits for: an exit event, or a record that is no more.
Over(t) == Finished(t) \/ ~Listed(t)

\* The halt verb had its grace and the task is still there.
HaltFails(s) ==
    /\ Step(s, "halting", "signalling")
    /\ ~Over(stop[s].task)
    /\ UNCHANGED <<reg, start, sup, cmd, clearing>>

SeeRecord(s) ==
    /\ stop[s].step \in {"halting", "signalled"}
    /\ Over(stop[s].task)
    /\ stop' = [stop EXCEPT ![s].step = "done"]
    /\ UNCHANGED <<reg, start, sup, cmd, clearing>>

\* Mutant: the supervisor alone is killed.
SignalSupervisor(s) ==
    LET t == stop[s].task
    IN  /\ Step(s, "signalling", "signalled")
        /\ sup' = [sup EXCEPT ![t] = "gone"]
        /\ UNCHANGED <<reg, start, cmd, clearing>>

\* _kill_tree: a SIGTERM to the group of the supervisor, which dies of it, and so
\* does a command that does not handle it.  Nothing is left to reach the group
\* by when the supervisor is gone already.
Signal(s) ==
    LET t == stop[s].task
    IN  /\ Step(s, "signalling", "signalled")
        /\ sup' = [sup EXCEPT ![t] = "gone"]
        /\ cmd' = IF Alive(t) /\ cmd[t] = "live" /\ t \notin Deaf
                  THEN [cmd EXCEPT ![t] = "killed"] ELSE cmd
        /\ UNCHANGED <<reg, start, clearing>>

\* The signal is refused and the supervisor stays: a note, and no more.
SignalFails(s) ==
    /\ Trouble
    /\ Step(s, "signalling", "failed")
    /\ Alive(stop[s].task)
    /\ UNCHANGED <<reg, start, sup, cmd, clearing>>

\* The supervisor is gone and has recorded nothing ...
SeeNoRecord(s) ==
    /\ Step(s, "signalled", "recording")
    /\ ~Over(stop[s].task)
    /\ UNCHANGED <<reg, start, sup, cmd, clearing>>

\* ... and nobody else will, so the stop does.
RecordStopped(s) ==
    LET t == stop[s].task
    IN  /\ Step(s, "recording", "done")
        /\ reg' = [reg EXCEPT ![t].exit = ExitState(t, "killed")]
        /\ UNCHANGED <<start, sup, cmd, clearing>>

StopDies(s) ==
    /\ Trouble /\ stop[s].step \notin {"idle", "done", "failed"}
    /\ stop' = [stop EXCEPT ![s].step = "failed"]
    /\ UNCHANGED <<reg, start, sup, cmd, clearing>>

StopGoesOn(s) ==
    \/ RecordStopping(s) \/ HaltFails(s) \/ SeeRecord(s) \/ Signal(s)
    \/ SeeNoRecord(s) \/ RecordStopped(s)

Stopping(s) == (\E t \in Ids : StopTask(s, t)) \/ StopGoesOn(s) \/ SignalFails(s) \/ StopDies(s)

-----------------------------------------------------------------------------
(* task clear.                                                             *)

\* Mutant: everything that is listed is cleared.
ClearableAll == {t \in Ids : Listed(t)}

Clearable == {t \in Ids : Listed(t) /\ ~Running(t)}

\* The list is read once ...
StartClear ==
    /\ clearing = {} /\ Clearable # {}
    /\ clearing' = Clearable
    /\ UNCHANGED <<reg, start, sup, cmd, stop>>

\* ... and forgotten one by one.
Forget(t) ==
    /\ t \in clearing
    /\ clearing' = clearing \ {t}
    /\ reg' = [reg EXCEPT ![t].forgotten = TRUE]
    /\ UNCHANGED <<start, sup, cmd, stop>>

Clearing == StartClear \/ \E t \in Ids : Forget(t)

-----------------------------------------------------------------------------
Next ==
    \/ \E t \in Ids : Starting(t) \/ Supervising(t)
    \/ \E s \in Stops : Stopping(s)
    \/ Clearing

Spec == Init /\ [][Next]_vars

\* Supervisors and stops are running code.  That a command ends is not assumed,
\* nor that anybody starts, stops or clears.
FairSpec ==
    /\ Spec
    /\ \A t \in Ids : WF_vars(Claim(t) \/ GiveUp(t) \/ RecordExited(t))
    /\ \A s \in Stops : WF_vars(StopGoesOn(s))

-----------------------------------------------------------------------------
(* What must hold.                                                         *)

TypeOK ==
    /\ reg \in [Ids -> [started : BOOLEAN, stopping : BOOLEAN, forgotten : BOOLEAN,
                        exit : {"none", "ok", "failed", "stopped"}]]
    /\ start \in [Ids -> {"idle", "checked", "spawned", "done"}]
    /\ sup \in [Ids -> {"none", "waiting", "holding", "gone"}]
    /\ cmd \in [Ids -> {"none", "live", "ok", "failed", "killed"}]
    /\ stop \in [Stops -> [step : {"idle", "asked", "halting", "signalling", "signalled",
                                   "recording", "done", "failed"},
                           task : Ids \cup {NoTask}]]
    /\ clearing \subseteq Ids

\* A supervisor that holds a command is listed as running, whatever stops and
\* clears, each with a list of its own that is no longer true, do meanwhile: there
\* is never "a task nothing knows about" (cmd_supervise).
HeldIsRunning == \A t \in Ids : sup[t] = "holding" => Running(t)

\* However many starts race, no more supervisors hold a command, and no more
\* commands that die of a SIGTERM are live, than the ceiling allows (_check_ceiling
\* inside the append lock).  A deaf command that outlived its supervisor has left
\* the count: its slot is free while it runs on.
CeilingHolds ==
    Cardinality({t \in Ids : sup[t] = "holding" \/ (cmd[t] = "live" /\ t \notin Deaf)}) <= Limit

\* An end that was recorded is never rewritten: a stop that comes late, or two of
\* them, leave the exit code and the state as they are.
ExitStands ==
    [][\A t \in Ids : reg[t].exit # "none" => reg'[t].exit = reg[t].exit]_vars

\* A task that reads as stopped is: "the tree, not the process" (_kill_tree).
StoppedIsOver == \A t \in Ids : reg[t].exit = "stopped" => cmd[t] # "live"

\* Nothing that still runs is forgotten, though the list `clear` works from is
\* an old one.
ForgottenIsOver == \A t \in Ids : reg[t].forgotten => cmd[t] # "live"

\* No supervisor waits for a record that does not come.
SupervisorsSettle == \A t \in Ids : sup[t] = "waiting" ~> sup[t] # "waiting"

\* A stop that is not refused or killed does not leave a task that reads as lost,
\* whoever is gone by then: an exit is recorded, or the task was cleared meanwhile.
StopsAreRecorded ==
    \A s \in Stops :
        stop[s].step = "asked"
            ~> \/ stop[s].step = "failed"
               \/ \E t \in Ids : stop[s].task = t /\ (Finished(t) \/ reg[t].forgotten)
=============================================================================
