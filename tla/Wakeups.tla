------------------------------ MODULE Wakeups --------------------------------
(***************************************************************************)
(* Wakeups: core/wakeups.py and tools/wakeup.py, and the desktop app that  *)
(* turns one into a prompt (ui/app.py, ui/state.py).                       *)
(*                                                                         *)
(* `wakeup arm` spawns a detached watcher and then records the wake.  The  *)
(* watcher looks at its record, checks the condition, records that it      *)
(* fired, posts it to the app and records that the app took it.  The app   *)
(* queues it in memory and, on a tick of its poll, sends it to the chat as *)
(* a prompt.  `cancel` and `clear` only ever append to the registry: what  *)
(* the watcher does next depends on when it looks.                         *)
(***************************************************************************)
EXTENDS Integers, Sequences, SequencesExt

CONSTANTS
    Wakes,       \* the wakes of one workspace
    MaxPending,  \* MAX_PENDING_WAKES
    Trouble,     \* whether arms and watchers are killed, answers of the app lost,
                 \* and its sends raise
    Closes,      \* whether the window is closed while there are wakes
    Moves,       \* whether the app is switched to another workspace
    Types        \* whether somebody types prompts of their own

ASSUME WakesAssumption ==
    /\ MaxPending \in Nat
    /\ {Trouble, Closes, Moves, Types} \subseteq BOOLEAN

VARIABLES
    reg,      \* what the registry says of each wake: the fold of its events
    fired,    \* the wakes with a firing among their events, folded or not
    arm,      \* where `arm` is
    watcher,  \* the watcher
    due,      \* whether the deadline has passed
    cancel,   \* the wakes a `cancel` found armed and has yet to cancel
    place,    \* what the window of the app shows, if there is one
    queue,    \* pending_wakes
    chat,     \* where a turn is, and who started it
    turned    \* where the turn of each wake began, if it did

vars == <<reg, fired, arm, watcher, due, cancel, place, queue, chat, turned>>
commands == <<arm, watcher, due, cancel>>
app == <<place, queue, chat, turned>>

Idle == [phase |-> "idle", by |-> "none"]

-----------------------------------------------------------------------------
(* The fold.                                                               *)

Listed(w) == reg[w].state \notin {"none", "forgotten"}
Alive(w) == watcher[w] \notin {"none", "gone"}

Armed(w) == Listed(w) /\ reg[w].state = "armed" /\ Alive(w)

\* FIRED, EXPIRED and CANCELLED, and LOST: armed, and nobody watches.
Terminal(w) == Listed(w) /\ ~Armed(w)

\* An event of a wake the registry has forgotten changes nothing.
Fold(w, rec) == IF Listed(w) THEN [reg EXCEPT ![w] = rec] ELSE reg

Init ==
    /\ reg = [w \in Wakes |-> [state |-> "none", delivered |-> FALSE]]
    /\ fired = {}
    /\ arm = [w \in Wakes |-> "idle"]
    /\ watcher = [w \in Wakes |-> "none"]
    /\ due = [w \in Wakes |-> FALSE]
    /\ cancel = {}
    /\ place \in {"home", "closed"}
    /\ queue = <<>>
    /\ chat = Idle
    /\ turned = [w \in Wakes |-> "no"]

-----------------------------------------------------------------------------
(* arm.                                                                    *)

SpawnWatcher(w) ==
    /\ arm[w] = "idle"
    /\ arm' = [arm EXCEPT ![w] = "spawned"]
    /\ watcher' = [watcher EXCEPT ![w] = "waiting"]
    /\ UNCHANGED <<reg, fired, due, cancel>> /\ UNCHANGED app

RecordArmed(w) ==
    /\ arm[w] = "spawned"
    /\ arm' = [arm EXCEPT ![w] = "done"]
    /\ reg' = [reg EXCEPT ![w].state = "armed"]
    /\ UNCHANGED <<fired, watcher, due, cancel>> /\ UNCHANGED app

ArmDies(w) ==
    /\ Trouble /\ arm[w] = "spawned"
    /\ arm' = [arm EXCEPT ![w] = "done"]
    /\ UNCHANGED <<reg, fired, watcher, due, cancel>> /\ UNCHANGED app

-----------------------------------------------------------------------------
(* The watcher.                                                            *)

Goes(w, from, to) == watcher[w] = from /\ watcher' = [watcher EXCEPT ![w] = to]

\* cmd_watch finds its record ...
FindRecord(w) ==
    /\ Goes(w, "waiting", "looking") /\ Listed(w)
    /\ UNCHANGED <<reg, fired, arm, due, cancel>> /\ UNCHANGED app

\* ... or is "unclaimed" after a hundred looks.
GiveUp(w) ==
    /\ Goes(w, "waiting", "gone") /\ ~Listed(w)
    /\ UNCHANGED <<reg, fired, arm, due, cancel>> /\ UNCHANGED app

\* Mutant: the watcher goes by the record it read first.
LookOnce(w) ==
    /\ Goes(w, "looking", "checking")
    /\ UNCHANGED <<reg, fired, arm, due, cancel>> /\ UNCHANGED app

\* Cancelled, forgotten, or on to the condition.
Look(w) ==
    /\ Goes(w, "looking",
            IF Listed(w) /\ reg[w].state # "cancelled" THEN "checking" ELSE "gone")
    /\ UNCHANGED <<reg, fired, arm, due, cancel>> /\ UNCHANGED app

DeadlinePasses(w) ==
    /\ reg[w].state # "none" /\ ~due[w]
    /\ due' = [due EXCEPT ![w] = TRUE]
    /\ UNCHANGED <<reg, fired, arm, watcher, cancel>> /\ UNCHANGED app

\* Mutant: what cannot be read is waited for past the deadline.
LookAgainUndue(w) ==
    /\ Goes(w, "checking", "looking")
    /\ UNCHANGED <<reg, fired, arm, due, cancel>> /\ UNCHANGED app

\* Not yet, or not to be told.
LookAgain(w) ==
    /\ Goes(w, "checking", "looking") /\ ~due[w]
    /\ UNCHANGED <<reg, fired, arm, due, cancel>> /\ UNCHANGED app

\* Mutant: the wake is posted before it is recorded.
FireUnrecorded(w) ==
    /\ Goes(w, "checking", "posting")
    /\ UNCHANGED <<reg, fired, arm, due, cancel>> /\ UNCHANGED app

\* It happened, or the deadline passed; with --no-resume nobody is told.
RecordFired(w) ==
    /\ \E next \in {"posting", "gone"} : Goes(w, "checking", next)
    /\ reg' = Fold(w, [reg[w] EXCEPT !.state = "fired"])
    /\ fired' = fired \cup {w}
    /\ UNCHANGED <<arm, due, cancel>> /\ UNCHANGED app

\* Mutant: the queue has no end.
PostUnbounded(w) ==
    /\ Goes(w, "posting", "accepted") /\ place # "closed"
    /\ queue' = Append(queue, w)
    /\ UNCHANGED <<reg, fired, arm, due, cancel, place, chat, turned>>

\* The app takes it into its queue: accept_wake behind /__grad/wake.
Post(w) ==
    /\ Goes(w, "posting", "accepted")
    /\ place # "closed" /\ Len(queue) < MaxPending
    /\ queue' = Append(queue, w)
    /\ UNCHANGED <<reg, fired, arm, due, cancel, place, chat, turned>>

\* The app takes it and the watcher does not hear of it.
PostUnheard(w) ==
    /\ Trouble
    /\ Goes(w, "posting", "gone")
    /\ place # "closed" /\ Len(queue) < MaxPending
    /\ queue' = Append(queue, w)
    /\ UNCHANGED <<reg, fired, arm, due, cancel, place, chat, turned>>

\* Nobody there, or too many already: it stays undelivered.
PostRefused(w) ==
    /\ Goes(w, "posting", "gone")
    /\ place = "closed" \/ Len(queue) >= MaxPending
    /\ UNCHANGED <<reg, fired, arm, due, cancel>> /\ UNCHANGED app

RecordDelivered(w) ==
    /\ Goes(w, "accepted", "gone")
    /\ reg' = Fold(w, [reg[w] EXCEPT !.delivered = TRUE])
    /\ UNCHANGED <<fired, arm, due, cancel>> /\ UNCHANGED app

WatcherDies(w) ==
    /\ Trouble /\ Alive(w)
    /\ watcher' = [watcher EXCEPT ![w] = "gone"]
    /\ UNCHANGED <<reg, fired, arm, due, cancel>> /\ UNCHANGED app

Watching(w) ==
    \/ FindRecord(w) \/ GiveUp(w) \/ Look(w) \/ LookAgain(w) \/ RecordFired(w)
    \/ Post(w) \/ PostRefused(w) \/ RecordDelivered(w)

-----------------------------------------------------------------------------
(* cancel and clear.                                                       *)

StartCancel(w) ==
    /\ Armed(w) /\ w \notin cancel
    /\ cancel' = cancel \cup {w}
    /\ UNCHANGED <<reg, fired, arm, watcher, due>> /\ UNCHANGED app

RecordCancelled(w) ==
    /\ w \in cancel
    /\ cancel' = cancel \ {w}
    /\ reg' = Fold(w, [reg[w] EXCEPT !.state = "cancelled"])
    /\ UNCHANGED <<fired, arm, watcher, due>> /\ UNCHANGED app

\* What is terminal stays so: the list `clear` works from does not age.
Forget(w) ==
    /\ Terminal(w)
    /\ reg' = [reg EXCEPT ![w] = [state |-> "forgotten", delivered |-> FALSE]]
    /\ UNCHANGED fired /\ UNCHANGED commands /\ UNCHANGED app

-----------------------------------------------------------------------------
(* The app: a window with its queue, and the chat in it.                   *)

\* session.busy, which `ask` sets for a turn and `compact` for its own; chat_sending
\* is set around both, in every phase but "idle".
Busy == chat.phase = "busy"

Phase(from, to) == chat.phase = from /\ chat' = [chat EXCEPT !.phase = to]

TypePrompt ==
    /\ Types /\ place # "closed" /\ chat = Idle
    /\ chat' = [phase |-> "sending", by |-> "person"]
    /\ UNCHANGED <<reg, fired, place, queue, turned>> /\ UNCHANGED commands

\* Within one `send`, from its guard through `ask` and maybe_compact to its end.
TurnGoesOn ==
    /\ \/ Phase("sending", "busy")
       \/ Phase("busy", "sending")
       \/ chat.phase = "sending" /\ chat' = Idle
    /\ UNCHANGED <<reg, fired, place, queue, turned>> /\ UNCHANGED commands

\* Mutant: a wake that is sent stays in the queue.
DeliverKept ==
    /\ place # "closed" /\ queue # <<>> /\ ~Busy /\ chat.by # "wake"
    /\ chat' = [phase |-> "sending", by |-> "wake"]
    /\ turned' = [turned EXCEPT ![Head(queue)] = place]
    /\ UNCHANGED <<reg, fired, place, queue>> /\ UNCHANGED commands

\* _deliver_wakes: one wake per tick, while the session is not busy, is taken
\* from the queue and sent.  Its turn begins, and the tick waits for that turn;
\* or `send` refuses it, when a turn of somebody else's is not over; or `send`
\* raises before the turn, which the tick logs.
DeliverWake ==
    /\ place # "closed" /\ queue # <<>> /\ ~Busy /\ chat.by # "wake"
    /\ queue' = Tail(queue)
    /\ \/ /\ chat = Idle
          /\ chat' = [phase |-> "sending", by |-> "wake"]
          /\ turned' = [turned EXCEPT ![Head(queue)] = place]
       \/ /\ chat # Idle \/ Trouble
          /\ UNCHANGED <<chat, turned>>
    /\ UNCHANGED <<reg, fired, place>> /\ UNCHANGED commands

\* The last window goes, and its queue with it.
WindowCloses ==
    /\ Closes /\ place # "closed"
    /\ place' = "closed" /\ queue' = <<>> /\ chat' = Idle
    /\ UNCHANGED <<reg, fired, turned>> /\ UNCHANGED commands

WindowOpens ==
    /\ place = "closed"
    /\ place' = "home"
    /\ UNCHANGED <<reg, fired, queue, chat, turned>> /\ UNCHANGED commands

\* The app turns to another workspace, here between two turns, and keeps its queue.
Move ==
    /\ Moves /\ place # "closed" /\ chat = Idle
    /\ place' = IF place = "home" THEN "away" ELSE "home"
    /\ UNCHANGED <<reg, fired, queue, chat, turned>> /\ UNCHANGED commands

-----------------------------------------------------------------------------
Next ==
    \/ \E w \in Wakes :
          \/ SpawnWatcher(w) \/ RecordArmed(w) \/ ArmDies(w)
          \/ Watching(w) \/ PostUnheard(w) \/ WatcherDies(w) \/ DeadlinePasses(w)
          \/ StartCancel(w) \/ RecordCancelled(w) \/ Forget(w)
    \/ TypePrompt \/ TurnGoesOn \/ DeliverWake
    \/ WindowCloses \/ WindowOpens \/ Move

Spec == Init /\ [][Next]_vars

\* Time passes and watchers are running code.
FairSpec ==
    /\ Spec
    /\ \A w \in Wakes : WF_vars(Watching(w)) /\ WF_vars(DeadlinePasses(w))

-----------------------------------------------------------------------------
(* What must hold.                                                         *)

TypeOK ==
    /\ reg \in [Wakes -> [state : {"none", "armed", "fired", "cancelled", "forgotten"},
                          delivered : BOOLEAN]]
    /\ fired \subseteq Wakes
    /\ arm \in [Wakes -> {"idle", "spawned", "done"}]
    /\ watcher \in [Wakes -> {"none", "waiting", "looking", "checking", "posting",
                              "accepted", "gone"}]
    /\ due \in [Wakes -> BOOLEAN]
    /\ cancel \subseteq Wakes
    /\ place \in {"home", "away", "closed"}
    /\ queue \in Seq(Wakes) /\ Len(queue) <= MaxPending
    /\ chat \in [phase : {"idle", "sending", "busy"}, by : {"none", "person", "wake"}]
    /\ turned \in [Wakes -> {"no", "home", "away"}]

\* A wake that is no longer listed as undelivered has had its turn or will have it
\* from the queue: "kept, not lost" (tools/wakeup.py).
KeptNotLost ==
    \A w \in Wakes : reg[w].delivered => turned[w] # "no" \/ Contains(queue, w)

\* A wake has one turn, or one place in the queue, and not both.
OneTurnEach ==
    /\ IsInjective(queue)
    /\ \A w \in Wakes : Contains(queue, w) => turned[w] = "no"

\* Whatever dies in between, a turn is about a wake whose firing was written to the
\* registry before, and which the registry does not show as armed or lost.  It need
\* not show it as fired: a cancel may have come over it, and a clear may have made
\* it forget the wake, even before the firing was written.
TurnsAreRecorded ==
    \A w \in Wakes : turned[w] # "no" =>
        w \in fired /\ reg[w].state \in {"fired", "cancelled", "forgotten"}

\* A cancel the watcher has yet to look at keeps the wake from having a turn.
CancelIsSeen ==
    \A w \in Wakes :
        [](reg[w].state = "cancelled" /\ watcher[w] \in {"waiting", "looking"}
              => [](turned[w] = "no"))

\* "stop waiting for one; it will not wake you" (tools/wakeup.py): no turn begins
\* for a wake that is cancelled.
CancelledIsQuiet ==
    [][\A w \in Wakes : reg[w].state = "cancelled" => turned'[w] = turned[w]]_vars

\* The turn begins where the wake was armed.
TurnsAtHome == \A w \in Wakes : turned[w] # "away"

\* No watcher watches for ever: the deadline ends it whatever the condition does.
WatchersEnd == \A w \in Wakes : Alive(w) ~> ~Alive(w)
=============================================================================
