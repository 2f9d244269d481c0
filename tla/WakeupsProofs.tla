---------------------------- MODULE WakeupsProofs ----------------------------
(***************************************************************************)
(* Proofs about Wakeups, for any number of wakes and any length of the     *)
(* app's queue: a wake has one turn, no turn begins whose firing was not   *)
(* written before, and a cancel that is seen in time is final.             *)
(*                                                                         *)
(* They rest on how far a wake can be, given how far its watcher is: it is *)
(* in the queue or has had its turn only when its watcher has posted it,   *)
(* and its watcher posts only what it has recorded as fired.               *)
(***************************************************************************)
EXTENDS Wakeups, SequenceTheorems, TLAPS

Queued(w) == \E i \in DOMAIN queue : queue[i] = w

\* The watcher is spawned once, before the record, and looks at a record only.
ArmOrder ==
    \A w \in Wakes :
        /\ arm[w] = "idle" => watcher[w] = "none"
        /\ arm[w] # "done" => reg[w].state = "none"
        /\ watcher[w] \in {"looking", "checking", "posting", "accepted"} =>
               reg[w].state # "none"

\* What the app has of a wake, by what its watcher has done.
PostOrder ==
    \A w \in Wakes :
        /\ Queued(w) => turned[w] = "no"
        /\ Queued(w) \/ turned[w] # "no" => watcher[w] \in {"accepted", "gone"}
        /\ watcher[w] \in {"posting", "accepted"} \/ Queued(w) \/ turned[w] # "no" =>
               w \in fired /\ reg[w].state \in {"fired", "cancelled", "forgotten"}

\* No wake is in the queue twice.
QueuedOnce == \A i, j \in DOMAIN queue : queue[i] = queue[j] => i = j

IInv == TypeOK /\ ArmOrder /\ PostOrder /\ QueuedOnce

\* What the registry says of a wake.
WakeRecord == [state : {"none", "armed", "fired", "cancelled", "forgotten"},
               delivered : BOOLEAN]

-----------------------------------------------------------------------------
\* The events of a wake are records.
LEMMA EventsTyped ==
    ASSUME NEW r \in WakeRecord
    PROVE  /\ \A s \in {"armed", "fired", "cancelled"} :
                  /\ [r EXCEPT !.state = s] \in WakeRecord
                  /\ [r EXCEPT !.state = s].state = s
                  /\ [r EXCEPT !.state = s].delivered = r.delivered
           /\ [r EXCEPT !.delivered = TRUE] \in WakeRecord
           /\ [r EXCEPT !.delivered = TRUE].state = r.state
           /\ [r EXCEPT !.delivered = TRUE].delivered
           /\ [state |-> "forgotten", delivered |-> FALSE] \in WakeRecord
  BY DEF WakeRecord

\* The type of the registry by its name.
LEMMA RegistryTyped == TypeOK => reg \in [Wakes -> WakeRecord]
  BY DEF TypeOK, WakeRecord

\* The registry stays one, whatever is recorded of one wake.
LEMMA RegistryUpdated ==
    ASSUME NEW f \in [Wakes -> WakeRecord], NEW w \in Wakes, NEW r \in WakeRecord,
           NEW g, g = [f EXCEPT ![w] = r]
    PROVE  g \in [Wakes -> WakeRecord] /\ g[w] = r /\ \A v \in Wakes \ {w} : g[v] = f[v]
<1> DEFINE R == WakeRecord
<1>1. f \in [Wakes -> R] /\ r \in R
  OBVIOUS
<1> HIDE DEF R
<1>2. g \in [Wakes -> R] /\ g[w] = r /\ \A v \in Wakes \ {w} : g[v] = f[v]
  BY <1>1
<1> QED
  BY <1>2 DEF R

\* What an event does to the registry: nothing, when the wake is not listed.
LEMMA FoldStep ==
    ASSUME NEW w \in Wakes, NEW r \in WakeRecord, TypeOK, reg' = Fold(w, r)
    PROVE  /\ reg' \in [Wakes -> WakeRecord]
           /\ \A v \in Wakes \ {w} : reg'[v] = reg[v]
           /\ Listed(w) => reg'[w] = r
           /\ ~Listed(w) => reg'[w] = reg[w]
<1>1. reg \in [Wakes -> WakeRecord]
  BY RegistryTyped
<1>2. CASE Listed(w)
  <2>1. reg' = [reg EXCEPT ![w] = r]
    BY <1>2 DEF Fold
  <2>2. reg' \in [Wakes -> WakeRecord] /\ reg'[w] = r /\ \A v \in Wakes \ {w} : reg'[v] = reg[v]
    BY <1>1, <2>1, RegistryUpdated
  <2> QED
    BY <1>2, <2>2
<1>3. CASE ~Listed(w)
  <2>1. reg' = reg
    BY <1>3 DEF Fold
  <2> QED
    BY <1>1, <1>3, <2>1
<1> QED
  BY <1>2, <1>3

\* A firing is recorded of a wake that is listed.
LEMMA FiredStep ==
    ASSUME NEW w \in Wakes, TypeOK, RecordFired(w)
    PROVE  /\ reg' \in [Wakes -> WakeRecord]
           /\ \A v \in Wakes \ {w} : reg'[v] = reg[v]
           /\ reg'[w].state = IF Listed(w) THEN "fired" ELSE reg[w].state
           /\ reg'[w].delivered = reg[w].delivered
<1> DEFINE event == [reg[w] EXCEPT !.state = "fired"]
<1>1. reg[w] \in WakeRecord
  BY RegistryTyped
<1>2. event \in WakeRecord /\ event.state = "fired" /\ event.delivered = reg[w].delivered
  BY <1>1, EventsTyped
<1>3. reg' = Fold(w, event)
  BY DEF RecordFired
<1> HIDE DEF event
<1> QED
  BY <1>2, <1>3, FoldStep

\* So is a delivery ...
LEMMA DeliveredStep ==
    ASSUME NEW w \in Wakes, TypeOK, RecordDelivered(w)
    PROVE  /\ reg' \in [Wakes -> WakeRecord]
           /\ \A v \in Wakes \ {w} : reg'[v] = reg[v]
           /\ reg'[w].state = reg[w].state
<1> DEFINE event == [reg[w] EXCEPT !.delivered = TRUE]
<1>1. reg[w] \in WakeRecord
  BY RegistryTyped
<1>2. event \in WakeRecord /\ event.state = reg[w].state
  BY <1>1, EventsTyped
<1>3. reg' = Fold(w, event)
  BY DEF RecordDelivered
<1> HIDE DEF event
<1> QED
  BY <1>2, <1>3, FoldStep

\* ... and a cancel.
LEMMA CancelledStep ==
    ASSUME NEW w \in Wakes, TypeOK, RecordCancelled(w)
    PROVE  /\ reg' \in [Wakes -> WakeRecord]
           /\ \A v \in Wakes \ {w} : reg'[v] = reg[v]
           /\ reg'[w].state = IF Listed(w) THEN "cancelled" ELSE reg[w].state
           /\ reg'[w].delivered = reg[w].delivered
<1> DEFINE event == [reg[w] EXCEPT !.state = "cancelled"]
<1>1. reg[w] \in WakeRecord
  BY RegistryTyped
<1>2. event \in WakeRecord /\ event.state = "cancelled" /\ event.delivered = reg[w].delivered
  BY <1>1, EventsTyped
<1>3. reg' = Fold(w, event)
  BY DEF RecordCancelled
<1> HIDE DEF event
<1> QED
  BY <1>2, <1>3, FoldStep

\* The record of a wake is its first event ...
LEMMA ArmedStep ==
    ASSUME NEW w \in Wakes, TypeOK, RecordArmed(w)
    PROVE  /\ reg' \in [Wakes -> WakeRecord]
           /\ \A v \in Wakes \ {w} : reg'[v] = reg[v]
           /\ reg'[w].state = "armed" /\ reg'[w].delivered = reg[w].delivered
<1> DEFINE event == [reg[w] EXCEPT !.state = "armed"]
<1>1. reg \in [Wakes -> WakeRecord]
  BY RegistryTyped
<1>2. event \in WakeRecord /\ event.state = "armed" /\ event.delivered = reg[w].delivered
  BY <1>1, EventsTyped
<1>3. reg' = [reg EXCEPT ![w] = event]
  BY DEF RecordArmed
<1> HIDE DEF event
<1> QED
  BY <1>1, <1>2, <1>3, RegistryUpdated

\* ... and what clears it its last.
LEMMA ForgottenStep ==
    ASSUME NEW w \in Wakes, TypeOK, Forget(w)
    PROVE  /\ reg' \in [Wakes -> WakeRecord]
           /\ \A v \in Wakes \ {w} : reg'[v] = reg[v]
           /\ reg'[w].state = "forgotten" /\ ~reg'[w].delivered
           /\ reg[w].state # "none"
<1> DEFINE event == [state |-> "forgotten", delivered |-> FALSE]
<1>1. reg \in [Wakes -> WakeRecord]
  BY RegistryTyped
<1>2. event \in WakeRecord /\ event.state = "forgotten" /\ ~event.delivered
  BY DEF WakeRecord
<1>3. reg' = [reg EXCEPT ![w] = event] /\ reg[w].state # "none"
  BY DEF Forget, Terminal, Listed
<1> HIDE DEF event
<1> QED
  BY <1>1, <1>2, <1>3, RegistryUpdated

\* A wake that is posted is the one more in the queue.
LEMMA AppendQueued ==
    ASSUME NEW q \in Seq(Wakes), NEW w \in Wakes
    PROVE  /\ Append(q, w) \in Seq(Wakes)
           /\ Len(Append(q, w)) = Len(q) + 1
           /\ DOMAIN Append(q, w) = DOMAIN q \cup {Len(q) + 1}
           /\ \A i \in DOMAIN q : Append(q, w)[i] = q[i]
           /\ Append(q, w)[Len(q) + 1] = w
  BY AppendProperties

\* What is left in the queue is what was behind its head.
LEMMA TailQueued ==
    ASSUME NEW q \in Seq(Wakes), q # <<>>
    PROVE  /\ Head(q) \in Wakes /\ 1 \in DOMAIN q /\ Head(q) = q[1]
           /\ Tail(q) \in Seq(Wakes)
           /\ Len(Tail(q)) = Len(q) - 1
           /\ \A i \in DOMAIN Tail(q) : i + 1 \in DOMAIN q /\ Tail(q)[i] = q[i + 1] /\ i \in Nat
  BY HeadTailProperties

LEMMA InitInv == Init => IInv
  BY WakesAssumption DEF Init, IInv, TypeOK, ArmOrder, PostOrder, QueuedOnce, Queued, Idle

-----------------------------------------------------------------------------
\* A step of `arm`.
LEMMA ArmingInv ==
    ASSUME NEW w \in Wakes, IInv, SpawnWatcher(w) \/ RecordArmed(w) \/ ArmDies(w)
    PROVE  IInv'
<1> USE DEF IInv, TypeOK, ArmOrder, PostOrder, QueuedOnce, Queued, app, commands
<1>1. CASE SpawnWatcher(w)
  BY <1>1 DEF SpawnWatcher
<1>2. CASE RecordArmed(w)
  <2>2. /\ reg' \in [Wakes -> WakeRecord] /\ \A v \in Wakes \ {w} : reg'[v] = reg[v]
        /\ reg'[w].state = "armed"
    BY <1>2, ArmedStep
  <2>3. TypeOK' /\ QueuedOnce'
    BY <1>2, <2>2 DEF RecordArmed, WakeRecord
  <2>4. ArmOrder' /\ PostOrder'
    BY <1>2, <2>2 DEF RecordArmed
  <2> QED
    BY <2>3, <2>4
<1>3. CASE ArmDies(w)
  BY <1>3 DEF ArmDies
<1> QED
  BY <1>1, <1>2, <1>3

\* A post puts a wake into the queue that was not in it and has had no turn.
LEMMA PostingInv ==
    ASSUME NEW w \in Wakes, IInv, Post(w) \/ PostUnheard(w)
    PROVE  IInv'
<1> USE DEF IInv, TypeOK
<1>1. /\ watcher[w] = "posting" /\ Len(queue) < MaxPending
      /\ queue' = Append(queue, w)
      /\ \E to \in {"accepted", "gone"} : watcher' = [watcher EXCEPT ![w] = to]
      /\ UNCHANGED <<reg, fired, arm, due, cancel, place, chat, turned>>
  BY DEF Post, PostUnheard, Goes
<1>2. queue \in Seq(Wakes)
  OBVIOUS
<1>3. ~Queued(w) /\ turned[w] = "no" /\ reg[w].state \in {"fired", "cancelled", "forgotten"}
  BY <1>1 DEF PostOrder
<1>4. \A v \in Wakes : Queued(v)' <=> Queued(v) \/ v = w
  BY <1>1, <1>2, AppendQueued DEF Queued
<1>5. TypeOK'
  BY <1>1, <1>2, AppendQueued, WakesAssumption
<1>6. ArmOrder'
  BY <1>1, <1>3 DEF ArmOrder
<1>7. PostOrder'
  BY <1>1, <1>3, <1>4 DEF PostOrder
<1>8. QueuedOnce'
  BY <1>1, <1>2, <1>3, AppendQueued DEF QueuedOnce, Queued
<1> QED
  BY <1>5, <1>6, <1>7, <1>8

\* Any other step of a watcher, its death included.
LEMMA WatchingInv ==
    ASSUME NEW w \in Wakes, IInv,
           Watching(w) \/ PostUnheard(w) \/ WatcherDies(w) \/ DeadlinePasses(w)
    PROVE  IInv'
<1> USE DEF IInv, TypeOK, ArmOrder, PostOrder, QueuedOnce, Queued, app, Goes
<1>1. CASE FindRecord(w)
  BY <1>1 DEF FindRecord, Listed
<1>2. CASE GiveUp(w)
  BY <1>2 DEF GiveUp
<1>3. CASE Look(w)
  BY <1>3 DEF Look
<1>4. CASE LookAgain(w)
  BY <1>4 DEF LookAgain
<1>5. CASE RecordFired(w)
  <2>2. /\ reg' \in [Wakes -> WakeRecord] /\ \A v \in Wakes \ {w} : reg'[v] = reg[v]
        /\ reg'[w].state \in {"fired", "none", "forgotten"}
        /\ reg[w].state # "none" => reg'[w].state # "none"
        /\ reg[w].state = "none" => reg'[w].state = "none"
    BY <1>5, FiredStep DEF Listed
  <2>3. /\ watcher[w] = "checking"
        /\ \E to \in {"posting", "gone"} : watcher' = [watcher EXCEPT ![w] = to]
        /\ fired' = fired \cup {w}
        /\ UNCHANGED <<arm, due, cancel, place, queue, chat, turned>>
    BY <1>5 DEF RecordFired
  <2>4. TypeOK' /\ QueuedOnce'
    BY <2>2, <2>3 DEF WakeRecord
  <2>5. ArmOrder'
    BY <2>2, <2>3
  <2>6. PostOrder'
    BY <2>2, <2>3
  <2> QED
    BY <2>4, <2>5, <2>6
<1>6. CASE Post(w) \/ PostUnheard(w)
  BY <1>6, PostingInv
<1>7. CASE PostRefused(w)
  BY <1>7 DEF PostRefused
<1>8. CASE RecordDelivered(w)
  <2>2. /\ reg' \in [Wakes -> WakeRecord]
        /\ \A v \in Wakes : reg'[v].state = reg[v].state
    BY <1>8, DeliveredStep
  <2>3. /\ watcher[w] = "accepted" /\ watcher' = [watcher EXCEPT ![w] = "gone"]
        /\ UNCHANGED <<fired, arm, due, cancel, place, queue, chat, turned>>
    BY <1>8 DEF RecordDelivered
  <2>4. TypeOK' /\ QueuedOnce'
    BY <2>2, <2>3 DEF WakeRecord
  <2>5. ArmOrder' /\ PostOrder'
    BY <2>2, <2>3
  <2> QED
    BY <2>4, <2>5
<1>9. CASE WatcherDies(w)
  BY <1>9 DEF WatcherDies, Alive
<1>10. CASE DeadlinePasses(w)
  BY <1>10 DEF DeadlinePasses
<1> QED
  BY <1>1, <1>2, <1>3, <1>4, <1>5, <1>6, <1>7, <1>8, <1>9, <1>10 DEF Watching

\* A step of `cancel` or `clear`.
LEMMA CancellingInv ==
    ASSUME NEW w \in Wakes, IInv, StartCancel(w) \/ RecordCancelled(w) \/ Forget(w)
    PROVE  IInv'
<1> USE DEF IInv, TypeOK, ArmOrder, PostOrder, QueuedOnce, Queued, app, commands
<1>1. CASE StartCancel(w)
  BY <1>1 DEF StartCancel
<1>2. CASE RecordCancelled(w)
  <2>2. /\ reg' \in [Wakes -> WakeRecord] /\ \A v \in Wakes \ {w} : reg'[v] = reg[v]
        /\ reg'[w].state \in {"cancelled", reg[w].state}
        /\ reg[w].state = "none" => reg'[w].state = "none"
    BY <1>2, CancelledStep DEF Listed
  <2>3. cancel' \subseteq Wakes /\ UNCHANGED <<fired, arm, watcher, due, place, queue, chat, turned>>
    BY <1>2 DEF RecordCancelled
  <2>4. TypeOK' /\ QueuedOnce'
    BY <2>2, <2>3 DEF WakeRecord
  <2>5. ArmOrder'
    BY <2>2, <2>3
  <2>6. \A v \in Wakes : Queued(v)' <=> Queued(v)
    BY <2>3
  <2>8. \A v \in Wakes : reg'[v].state = reg[v].state \/ reg'[v].state = "cancelled"
    BY <2>2
  <2>7. PostOrder'
    <3> HIDE DEF Queued
    <3> QED
      BY <2>3, <2>6, <2>8
  <2> QED
    BY <2>4, <2>5, <2>7
<1>3. CASE Forget(w)
  <2>1. /\ reg' \in [Wakes -> WakeRecord] /\ \A v \in Wakes \ {w} : reg'[v] = reg[v]
        /\ reg'[w].state = "forgotten" /\ reg[w].state # "none"
    BY <1>3, ForgottenStep
  <2>2. UNCHANGED <<fired, arm, watcher, due, cancel, place, queue, chat, turned>>
    BY <1>3 DEF Forget
  <2>3. TypeOK' /\ QueuedOnce'
    BY <2>1, <2>2 DEF WakeRecord
  <2>4. ArmOrder'
    BY <2>1, <2>2
  <2>5. \A v \in Wakes : Queued(v)' <=> Queued(v)
    BY <2>2
  <2>6. PostOrder'
    <3> HIDE DEF Queued
    <3> QED
      BY <2>1, <2>2, <2>5
  <2> QED
    BY <2>3, <2>4, <2>6
<1> QED
  BY <1>1, <1>2, <1>3

\* A step of the app: what leaves its queue has its turn, or is dropped.
LEMMA AppInv ==
    ASSUME IInv, TypePrompt \/ TurnGoesOn \/ DeliverWake \/ WindowCloses \/ WindowOpens \/ Move
    PROVE  IInv'
<1> USE DEF IInv, TypeOK, ArmOrder, PostOrder, QueuedOnce, Queued, commands
<1>1. CASE TypePrompt
  BY <1>1 DEF TypePrompt
<1>2. CASE TurnGoesOn
  BY <1>2 DEF TurnGoesOn, Phase, Idle
<1>3. CASE DeliverWake
  <2> PICK w \in Wakes : w = Head(queue)
    BY <1>3, TailQueued DEF DeliverWake
  <2>1. /\ 1 \in DOMAIN queue /\ w = queue[1]
        /\ queue' \in Seq(Wakes) /\ Len(queue') <= Len(queue)
        /\ \A i \in DOMAIN queue' :
              i + 1 \in DOMAIN queue /\ queue'[i] = queue[i + 1] /\ i \in Nat /\ i + 1 # 1
    BY <1>3, TailQueued DEF DeliverWake
  <2>2. Queued(w) /\ ~Queued(w)'
    BY <2>1
  <2>3. \A v \in Wakes : Queued(v)' => Queued(v)
    BY <2>1
  <2>4. /\ turned' \in [Wakes -> {"no", "home", "away"}]
        /\ \A v \in Wakes : v # w => turned'[v] = turned[v]
    BY <1>3, <2>1 DEF DeliverWake
  <2>5. UNCHANGED <<reg, fired, arm, watcher, due, cancel, place>>
    BY <1>3 DEF DeliverWake
  <2>6. chat' \in [phase : {"idle", "sending", "busy"}, by : {"none", "person", "wake"}]
    BY <1>3 DEF DeliverWake
  <2>7. Len(queue') <= MaxPending
    BY <2>1, WakesAssumption
  <2>8. TypeOK'
    BY <2>1, <2>4, <2>5, <2>6, <2>7
  <2>9. ArmOrder'
    BY <2>5
  <2>10. QueuedOnce'
    BY <2>1
  <2>11. PostOrder'
    <3> HIDE DEF Queued
    <3> QED
      BY <2>1, <2>2, <2>3, <2>4, <2>5
  <2> QED
    BY <2>8, <2>9, <2>10, <2>11
<1>4. CASE WindowCloses
  BY <1>4, WakesAssumption DEF WindowCloses, Idle
<1>5. CASE WindowOpens
  BY <1>5 DEF WindowOpens
<1>6. CASE Move
  BY <1>6 DEF Move
<1> QED
  BY <1>1, <1>2, <1>3, <1>4, <1>5, <1>6

\* So how far a wake can be is an invariant.
LEMMA NextInv == IInv /\ [Next]_vars => IInv'
<1> SUFFICES ASSUME IInv, [Next]_vars PROVE IInv'
  OBVIOUS
<1>1. CASE UNCHANGED vars
  BY <1>1 DEF vars, IInv, TypeOK, ArmOrder, PostOrder, QueuedOnce, Queued
<1>2. CASE Next
  BY <1>2, ArmingInv, WatchingInv, CancellingInv, AppInv DEF Next
<1> QED
  BY <1>1, <1>2

LEMMA Inductive == Spec => []IInv
  BY InitInv, NextInv, PTL DEF Spec

\* However many wakes, arms, cancels and windows there are, all keep their types, and
\* the queue of the app its length.
THEOREM TypeCorrect == Spec => []TypeOK
<1>1. IInv => TypeOK
  BY DEF IInv
<1> QED
  BY <1>1, Inductive, PTL

\* A wake is put into the queue of the app once and has one turn, whatever dies and
\* whichever answers are lost between the post and the record of it: a watcher that
\* has posted never posts again (wakeups.watch).
THEOREM TurnsAreSingle == Spec => []OneTurnEach
<1>1. IInv => OneTurnEach
  <2> SUFFICES ASSUME IInv PROVE OneTurnEach
    OBVIOUS
  <2>1. queue \in Seq(Wakes)
    BY DEF IInv, TypeOK
  <2>2. \A w \in Wakes : Contains(queue, w) => Queued(w)
    BY <2>1 DEF Contains, Queued
  <2>3. IsInjective(queue)
    BY DEF IInv, QueuedOnce, IsInjective
  <2> QED
    BY <2>2, <2>3 DEF IInv, PostOrder, OneTurnEach
<1> QED
  BY <1>1, Inductive, PTL

\* Whatever dies, and however a cancel or a clear comes in between, a turn is about a
\* wake whose firing was written before (wakeups.watch records it and then posts), and
\* which the registry does not show as armed.
THEOREM TurnsAreKnown == Spec => []TurnsAreRecorded
<1>1. IInv => TurnsAreRecorded
  BY DEF IInv, PostOrder, TurnsAreRecorded
<1> QED
  BY <1>1, Inductive, PTL

-----------------------------------------------------------------------------
\* A wake whose cancel came before the look of its watcher.
Hushed(w) ==
    /\ reg[w].state \in {"cancelled", "forgotten"}
    /\ watcher[w] \in {"waiting", "looking", "gone"}
    /\ ~Queued(w) /\ turned[w] = "no"

\* It stays one: the watcher looks, and goes.
LEMMA StaysHushed ==
    ASSUME NEW w \in Wakes, IInv, IInv', Hushed(w), [Next]_vars
    PROVE  Hushed(w)'
<1> USE DEF Hushed
<1>1. CASE UNCHANGED vars
  BY <1>1 DEF vars, Queued
<1>2. ASSUME NEW v \in Wakes, SpawnWatcher(v) \/ RecordArmed(v) \/ ArmDies(v)
      PROVE  Hushed(w)'
  <2>1. arm[w] = "done"
    BY DEF IInv, ArmOrder
  <2>2. v # w \/ ArmDies(v)
    BY <1>2, <2>1 DEF SpawnWatcher, RecordArmed
  <2>3. reg'[w] = reg[w] /\ watcher'[w] = watcher[w] /\ UNCHANGED <<queue, turned>>
    BY <1>2, <2>2, ArmedStep DEF SpawnWatcher, RecordArmed, ArmDies, IInv, TypeOK, app
  <2> QED
    BY <2>3 DEF Queued
<1>3. ASSUME NEW v \in Wakes,
             Watching(v) \/ PostUnheard(v) \/ WatcherDies(v) \/ DeadlinePasses(v)
      PROVE  Hushed(w)'
  <2>1. CASE FindRecord(v) \/ GiveUp(v) \/ Look(v) \/ LookAgain(v) \/ PostRefused(v)
               \/ WatcherDies(v) \/ DeadlinePasses(v)
    <3>1. UNCHANGED <<reg, queue, turned>>
      BY <2>1 DEF FindRecord, GiveUp, Look, LookAgain, PostRefused, WatcherDies, DeadlinePasses, app
    <3>2. watcher'[w] \in {"waiting", "looking", "gone"}
      BY <2>1 DEF FindRecord, GiveUp, Look, LookAgain, PostRefused, WatcherDies, DeadlinePasses,
                  Goes, IInv, TypeOK, Listed
    <3> QED
      BY <3>1, <3>2 DEF Queued
  <2>2. CASE RecordFired(v)
    <3>1. v # w
      BY <2>2 DEF RecordFired, Goes
    <3>2. TypeOK
      BY DEF IInv
    <3>3. reg'[w] = reg[w]
      BY <2>2, <3>1, <3>2, FiredStep
    <3>4. watcher'[w] = watcher[w] /\ UNCHANGED <<queue, turned>>
      BY <2>2, <3>1, <3>2 DEF RecordFired, Goes, TypeOK, app
    <3> QED
      BY <3>3, <3>4 DEF Queued
  <2>3. CASE RecordDelivered(v)
    <3>1. v # w
      BY <2>3 DEF RecordDelivered, Goes
    <3>2. TypeOK
      BY DEF IInv
    <3>3. reg'[w] = reg[w]
      BY <2>3, <3>1, <3>2, DeliveredStep
    <3>4. watcher'[w] = watcher[w] /\ UNCHANGED <<queue, turned>>
      BY <2>3, <3>1, <3>2 DEF RecordDelivered, Goes, TypeOK, app
    <3> QED
      BY <3>3, <3>4 DEF Queued
  <2>4. CASE Post(v) \/ PostUnheard(v)
    <3>1. v # w
      BY <2>4 DEF Post, PostUnheard, Goes
    <3>2. /\ queue \in Seq(Wakes) /\ queue' = Append(queue, v)
          /\ reg' = reg /\ turned' = turned /\ watcher'[w] = watcher[w]
      BY <2>4, <3>1 DEF Post, PostUnheard, Goes, IInv, TypeOK
    <3>3. ~Queued(w)'
      BY <3>1, <3>2, AppendQueued DEF Queued
    <3> QED
      BY <3>2, <3>3
  <2> QED
    BY <1>3, <2>1, <2>2, <2>3, <2>4 DEF Watching
<1>4. ASSUME NEW v \in Wakes, StartCancel(v) \/ RecordCancelled(v) \/ Forget(v)
      PROVE  Hushed(w)'
  <2>1. UNCHANGED <<watcher, queue, turned>>
    BY <1>4 DEF StartCancel, RecordCancelled, Forget, commands, app
  <2>2. reg'[w].state \in {"cancelled", "forgotten"}
    <3>1. CASE StartCancel(v)
      BY <3>1 DEF StartCancel
    <3>2. CASE RecordCancelled(v)
      BY <3>2, CancelledStep DEF IInv
    <3>3. CASE Forget(v)
      BY <3>3, ForgottenStep DEF IInv
    <3> QED
      BY <1>4, <3>1, <3>2, <3>3
  <2> QED
    BY <2>1, <2>2 DEF Queued
<1>5. ASSUME TypePrompt \/ TurnGoesOn \/ DeliverWake \/ WindowCloses \/ WindowOpens \/ Move
      PROVE  Hushed(w)'
  <2>1. UNCHANGED <<reg, watcher>>
    BY <1>5 DEF TypePrompt, TurnGoesOn, DeliverWake, WindowCloses, WindowOpens, Move, commands
  <2>2. CASE DeliverWake
    <3>1. /\ Head(queue) = queue[1] /\ 1 \in DOMAIN queue
          /\ \A i \in DOMAIN queue' : i + 1 \in DOMAIN queue /\ queue'[i] = queue[i + 1]
      BY <2>2, TailQueued DEF DeliverWake, IInv, TypeOK
    <3>2. ~Queued(w)' /\ Head(queue) # w
      BY <3>1 DEF Queued
    <3>3. turned'[w] = turned[w]
      BY <2>2, <3>2 DEF DeliverWake, IInv, TypeOK
    <3> QED
      BY <2>1, <3>2, <3>3
  <2>3. CASE WindowCloses
    BY <2>1, <2>3 DEF WindowCloses, Queued
  <2>4. CASE ~DeliverWake /\ ~WindowCloses
    BY <1>5, <2>1, <2>4 DEF TypePrompt, TurnGoesOn, WindowOpens, Move, Queued
  <2> QED
    BY <2>2, <2>3, <2>4
<1> QED
  BY <1>1, <1>2, <1>3, <1>4, <1>5 DEF Next

\* A cancel that is on the registry before the watcher looks is final: the wake will
\* never have a turn (wakeups.watch).
THEOREM CancelsAreSeen == Spec => CancelIsSeen
<1> SUFFICES ASSUME NEW w \in Wakes
             PROVE  Spec => [](reg[w].state = "cancelled" /\ watcher[w] \in {"waiting", "looking"}
                                   => [](turned[w] = "no"))
  BY DEF CancelIsSeen
<1>1. IInv /\ reg[w].state = "cancelled" /\ watcher[w] \in {"waiting", "looking"} => Hushed(w)
  BY DEF IInv, PostOrder, Hushed
<1>2. IInv /\ IInv' /\ Hushed(w) /\ [Next]_vars => Hushed(w)'
  BY StaysHushed
<1>3. Hushed(w) => turned[w] = "no"
  BY DEF Hushed
<1> QED
  BY <1>1, <1>2, <1>3, Inductive, PTL DEF Spec

=============================================================================
