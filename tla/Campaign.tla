------------------------------ MODULE Campaign -------------------------------
(***************************************************************************)
(* Campaign: tools/evolve.py and the two ledgers of core/campaign.py.      *)
(*                                                                         *)
(* `evolve run` passes the budget gate of its project, opens a campaign    *)
(* and drives it one generation at a time: is a halt requested, does the   *)
(* rest still fit the budget, propose, drop what was proposed before, and  *)
(* evaluate on a pool of threads that record each candidate as it ends.    *)
(* Campaigns of one project share its ceiling and read it at their own     *)
(* boundaries; a person asks for a halt from another process.              *)
(***************************************************************************)
EXTENDS Integers, Sequences, FiniteSets, FiniteSetsExt, Functions

CONSTANTS
    Campaigns,    \* the campaigns of one project
    Sources,      \* the programs an operator may propose
    Offers,       \* what the operator of a campaign may propose in a generation
    Escaping,     \* those that change code outside the evolve block
    Generations,  \* --generations of each campaign
    Population,   \* --population
    EvalJobs,     \* --eval-jobs
    Estimate,     \* --estimate-per-candidate-usd
    Remote,       \* the campaigns run with --remote
    Actual,       \* what one evaluation of each campaign may come to cost
    Ceiling,      \* the gpu_usd ceiling of the project
    Attended      \* the campaigns somebody halts, interrupts or kills

NoSource == "no source"
Slots(c) == 1..Population[c]

ASSUME CampaignAssumption ==
    /\ IsFiniteSet(Campaigns)
    /\ Escaping \subseteq Sources
    /\ {Generations, Population, EvalJobs, Estimate} \subseteq [Campaigns -> Nat \ {0}]
    /\ \A c \in Campaigns : \A g \in 0..(Generations[c] - 1) :
          Offers[c][g] \subseteq [Slots(c) -> Sources \cup {NoSource}]
    /\ Remote \subseteq Campaigns
    /\ Actual \in [Campaigns -> SUBSET Nat]
    /\ \A c \in Campaigns : Actual[c] # {} /\ IsFiniteSet(Actual[c])
    /\ \A c \in Campaigns \ Remote : Actual[c] = {Estimate[c]}
    /\ Ceiling \in Nat
    /\ Attended \subseteq Campaigns

VARIABLES
    events,   \* campaigns.jsonl, the events of each campaign
    cands,    \* candidates.jsonl, the candidates of each campaign
    pc,       \* where `evolve run` is
    gen,      \* the generation it is at
    slots,    \* the proposals of that generation and how far each evaluation is
    stopped,  \* an exception is on its way out of the pool
    ending,   \* the status the campaign will be closed with
    halter    \* where the `evolve halt` for each campaign is

vars == <<events, cands, pc, gen, slots, stopped, ending, halter>>


-----------------------------------------------------------------------------
(* The folds of the two ledgers.                                           *)

Has(c, kind) == \E i \in DOMAIN events[c] : events[c][i].kind = kind

Exists(c) == Has(c, "campaign")
Open(c) == Exists(c) /\ ~Has(c, "closed")
HaltRequested(c) == Has(c, "halt")

\* Mutant: the record of the boundary a campaign stopped at counts.
BoundariesCount(rec) == rec.kind = "generation"

CountsAsRun(rec) == rec.kind = "generation" /\ rec.note # "halted"

GenerationsRun(c) ==
    LET counted == {i \in DOMAIN events[c] : CountsAsRun(events[c][i])}
    IN Max({0} \cup {events[c][i].gen + 1 : i \in counted})

Booked(c) == SumFunctionOnSet([k \in cands[c] |-> k.cost], cands[c])

ProjectSpend == SumFunctionOnSet([c \in Campaigns |-> Booked(c)], Campaigns)

Left(c, g) == (Generations[c] - g) * Population[c]

\* Mutant: the gate is passed before the first generation only.
FitsAtStart(c, g) == g > 0 \/ ProjectSpend + Left(c, g) * Estimate[c] <= Ceiling

\* core/budget.py: what is booked, and all that this campaign may yet do.
Fits(c, g) == ProjectSpend + Left(c, g) * Estimate[c] <= Ceiling

Record(kind, g, note) == [kind |-> kind, gen |-> g, note |-> note]

Log(c, rec) == events' = [events EXCEPT ![c] = Append(@, rec)]

-----------------------------------------------------------------------------
Init ==
    /\ events = [c \in Campaigns |-> <<>>]
    /\ cands = [c \in Campaigns |-> {}]
    /\ pc = [c \in Campaigns |-> "idle"]
    /\ gen = [c \in Campaigns |-> 0]
    /\ slots = [c \in Campaigns |-> <<>>]
    /\ stopped = [c \in Campaigns |-> FALSE]
    /\ ending = [c \in Campaigns |-> "closed"]
    /\ halter = [c \in Campaigns |-> "idle"]

Goto(c, place) == pc' = [pc EXCEPT ![c] = place]

\* Mutant: an exception leaves `evolve run` without closing the campaign.
EndUncaught(c, status) ==
    /\ ending' = [ending EXCEPT ![c] = status]
    /\ Goto(c, IF status = "failed" THEN "over" ELSE "closing")

EndAs(c, status) ==
    /\ ending' = [ending EXCEPT ![c] = status]
    /\ Goto(c, "closing")

\* _campaign_gate before generation 0, and then the campaign record.
Gate(c) ==
    /\ pc[c] = "idle"
    /\ Goto(c, IF Fits(c, 0) THEN "gated" ELSE "refused")
    /\ UNCHANGED <<events, cands, gen, slots, stopped, ending, halter>>

OpenCampaign(c) ==
    /\ pc[c] = "gated"
    /\ Log(c, Record("campaign", 0, "open"))
    /\ Goto(c, "head")
    /\ UNCHANGED <<cands, gen, slots, stopped, ending, halter>>

\* Mutant: the loop asks for a halt only before its first generation.
MustHaltFirst(c) == HaltRequested(c) /\ gen[c] = 0

MustHalt(c) == HaltRequested(c)

\* The boundary: no generation is left, a halt is requested, or go on to the gate.
Boundary(c) ==
    /\ pc[c] = "head"
    /\ \/ /\ gen[c] = Generations[c]
          /\ EndAs(c, "closed")
          /\ UNCHANGED events
       \/ /\ gen[c] < Generations[c]
          /\ MustHalt(c)
          /\ Log(c, Record("generation", gen[c], "halted"))
          /\ EndAs(c, "halted")
       \/ /\ gen[c] < Generations[c]
          /\ ~MustHalt(c)
          /\ Goto(c, "budget")
          /\ UNCHANGED <<events, ending>>
    /\ UNCHANGED <<cands, gen, slots, stopped, halter>>

Regate(c) ==
    /\ pc[c] = "budget"
    /\ \/ /\ Fits(c, gen[c])
          /\ Goto(c, "propose")
          /\ UNCHANGED <<events, ending>>
       \/ /\ ~Fits(c, gen[c])
          /\ Log(c, Record("generation", gen[c], "halted"))
          /\ EndAs(c, "exhausted")
    /\ UNCHANGED <<cands, gen, slots, stopped, halter>>

-----------------------------------------------------------------------------
(* Proposals.                                                              *)

Seen(c) == {k.source : k \in cands[c]} \ {NoSource}

\* Mutant: only what earlier generations proposed is a duplicate.
PreparedAgainstHistory(c, offer) ==
    [i \in Slots(c) |->
        [source |-> IF offer[i] \in Seen(c) THEN NoSource ELSE offer[i],
         state |-> "waiting"]]

\* A slot whose program was proposed before, in any generation or by an earlier
\* slot of this one, is a duplicate and loses its source.
Prepared(c, offer) ==
    [i \in Slots(c) |->
        [source |-> IF offer[i] \in Seen(c) \cup {offer[j] : j \in 1..(i - 1)}
                    THEN NoSource ELSE offer[i],
         state |-> "waiting"]]

\* An operator that fails for one slot yields no source there.
Propose(c) ==
    /\ pc[c] = "propose"
    /\ \E offer \in Offers[c][gen[c]] :
          slots' = [slots EXCEPT ![c] = Prepared(c, offer)]
    /\ Goto(c, "evaluate")
    /\ UNCHANGED <<events, cands, gen, stopped, ending, halter>>

\* A GradError leaves _drive; any other exception is noted on the ledger first.
ProposeFails(c) ==
    /\ pc[c] = "propose"
    /\ \/ UNCHANGED events
       \/ Log(c, Record("generation", gen[c], "error"))
    /\ EndAs(c, "failed")
    /\ UNCHANGED <<cands, gen, slots, stopped, halter>>

-----------------------------------------------------------------------------
(* The pool.                                                               *)

Running(c) == {i \in DOMAIN slots[c] : slots[c][i].state = "running"}
Waiting(c) == {i \in DOMAIN slots[c] : slots[c][i].state = "waiting"}

SlotIs(c, i, state) == slots' = [slots EXCEPT ![c][i].state = state]

\* Mutant: generations are numbered from one.
CandidateAhead(c, i, skipped, cost) ==
    [gen |-> gen[c] + 1, index |-> i, source |-> slots[c][i].source,
     skipped |-> skipped, cost |-> cost]

Candidate(c, i, skipped, cost) ==
    [gen |-> gen[c], index |-> i, source |-> slots[c][i].source,
     skipped |-> skipped, cost |-> cost]

\* Mutant: what was not run is not recorded.
KeepEvaluated(c, k) == cands' = IF k.skipped THEN cands ELSE [cands EXCEPT ![c] = @ \cup {k}]

Keep(c, k) == cands' = [cands EXCEPT ![c] = @ \cup {k}]

\* One job, or one proposal, is evaluated without a pool.
Pooled(c) == EvalJobs[c] > 1 /\ Population[c] > 1

\* A free thread takes the first proposal in line.  Without a pool an exception
\* comes out at once.
Take(c, i) ==
    /\ pc[c] = "evaluate" /\ ~stopped[c]
    /\ i = Min(Waiting(c))
    /\ Cardinality(Running(c)) < EvalJobs[c]
    /\ Pooled(c) \/ \A j \in DOMAIN slots[c] : slots[c][j].state # "raised"

\* No source, or code outside the block: recorded, and nothing is run.
Skip(c, i) ==
    /\ Waiting(c) # {}
    /\ Take(c, i)
    /\ slots[c][i].source \in Escaping \cup {NoSource}
    /\ Keep(c, Candidate(c, i, TRUE, 0))
    /\ SlotIs(c, i, "done")
    /\ UNCHANGED <<events, pc, gen, stopped, ending, halter>>

Start(c, i) ==
    /\ Waiting(c) # {}
    /\ Take(c, i)
    /\ slots[c][i].source \notin Escaping \cup {NoSource}
    /\ SlotIs(c, i, "running")
    /\ UNCHANGED <<events, cands, pc, gen, stopped, ending, halter>>

\* Where the process has threads of the pool: after an interrupt that did not wait
\* for them they outlive the close, as the interpreter joins them before it exits.
Threaded(c) == pc[c] \in {"evaluate", "closing", "over"}

\* The evaluation ends, with metrics or an error, or the host could not run it.  A
\* timeout or a crash of the program is charged like any other end.
Finish(c, i) ==
    /\ Threaded(c) /\ i \in Running(c)
    /\ \E cost \in Actual[c], unrun \in (IF c \in Remote THEN BOOLEAN ELSE {FALSE}) :
          Keep(c, Candidate(c, i, unrun, cost))
    /\ SlotIs(c, i, "done")
    /\ UNCHANGED <<events, pc, gen, stopped, ending, halter>>

\* An adapter polls its backend outside its guard, and a file may be missing: the
\* exception leaves the thread, and there is no record of what it ran or cost.
Raise(c, i) ==
    /\ Threaded(c) /\ i \in Running(c)
    /\ SlotIs(c, i, "raised")
    /\ UNCHANGED <<events, cands, pc, gen, stopped, ending, halter>>

\* pool.map hands the results out in order: the exception of a slot comes out when
\* those before it are done, and takes along what no thread has begun.
Notice(c) ==
    /\ pc[c] = "evaluate" /\ ~stopped[c]
    /\ \E i \in DOMAIN slots[c] :
          /\ slots[c][i].state = "raised"
          /\ \A j \in 1..(i - 1) : slots[c][j].state = "done"
    /\ stopped' = [stopped EXCEPT ![c] = TRUE]
    /\ UNCHANGED <<events, cands, pc, gen, slots, ending, halter>>

PoolEmpty(c) == Running(c) = {}

\* The pool is left when its threads are: the generation is recorded, or the
\* exception goes on to cmd_run.
LeavePool(c) ==
    /\ pc[c] = "evaluate"
    /\ PoolEmpty(c)
    /\ \/ /\ \A i \in DOMAIN slots[c] : slots[c][i].state = "done"
          /\ ~stopped[c]
          /\ Log(c, Record("generation", gen[c], "run"))
          /\ gen' = [gen EXCEPT ![c] = @ + 1]
          /\ Goto(c, "head")
          /\ UNCHANGED ending
       \/ /\ stopped[c]
          /\ EndAs(c, "failed")
          /\ UNCHANGED <<events, gen>>
    /\ UNCHANGED <<cands, slots, stopped, halter>>

-----------------------------------------------------------------------------
(* The end, and what comes from outside.                                   *)

CloseCampaign(c) ==
    /\ pc[c] = "closing"
    /\ Log(c, Record("closed", gen[c], ending[c]))
    /\ Goto(c, "over")
    /\ UNCHANGED <<cands, gen, slots, stopped, ending, halter>>

Driving == {"head", "budget", "propose", "evaluate"}

CutShort(c) ==
    [i \in DOMAIN slots[c] |->
        IF i \in Running(c) THEN [slots[c][i] EXCEPT !.state = "raised"] ELSE slots[c][i]]

\* Ctrl-C.  Out of a pool it waits for the threads, like any exception; one that
\* comes while an exception waits there leaves the pool at once, and its threads
\* behind.  Without a pool it takes the evaluation it interrupts along.
Interrupt(c) ==
    /\ c \in Attended
    /\ pc[c] \in Driving
    /\ IF pc[c] = "evaluate" /\ Pooled(c) /\ ~stopped[c]
       THEN stopped' = [stopped EXCEPT ![c] = TRUE] /\ UNCHANGED <<pc, slots, ending>>
       ELSE /\ EndAs(c, "failed")
            /\ slots' = [slots EXCEPT ![c] = IF Pooled(c) THEN @ ELSE CutShort(c)]
            /\ UNCHANGED stopped
    /\ UNCHANGED <<events, cands, gen, halter>>

Kill(c) ==
    /\ c \in Attended
    /\ \/ pc[c] \in Driving \cup {"gated", "closing"}
       \/ pc[c] = "over" /\ Running(c) # {}
    /\ Goto(c, "dead")
    /\ UNCHANGED <<events, cands, gen, slots, stopped, ending, halter>>

\* `evolve halt` looks, and asks if the campaign is open ...
HaltLook(c) ==
    /\ c \in Attended /\ halter[c] = "idle"
    /\ Exists(c)
    /\ halter' = [halter EXCEPT ![c] = IF Open(c) THEN "asking" ELSE "told closed"]
    /\ UNCHANGED <<events, cands, pc, gen, slots, stopped, ending>>

\* Mutant: the append trusts the first look.
RequestsBlindly(c) == TRUE

MayRequest(c) == Open(c)

\* ... and the append looks again under the lock of the ledger.
RequestHalt(c) ==
    /\ halter[c] = "asking"
    /\ \/ /\ MayRequest(c)
          /\ Log(c, Record("halt", gen[c], "requested"))
          /\ halter' = [halter EXCEPT ![c] = "told halting"]
       \/ /\ ~MayRequest(c)
          /\ halter' = [halter EXCEPT ![c] = "told closed"]
          /\ UNCHANGED events
    /\ UNCHANGED <<cands, pc, gen, slots, stopped, ending>>

Step(c) ==
    \/ Gate(c) \/ OpenCampaign(c) \/ Boundary(c) \/ Regate(c)
    \/ Propose(c) \/ ProposeFails(c) \/ Notice(c) \/ LeavePool(c) \/ CloseCampaign(c)

Work(c) == \E i \in DOMAIN slots[c] : Skip(c, i) \/ Start(c, i) \/ Finish(c, i) \/ Raise(c, i)

Next == \E c \in Campaigns :
            Step(c) \/ Work(c) \/ Interrupt(c) \/ Kill(c) \/ HaltLook(c) \/ RequestHalt(c)

Spec == Init /\ [][Next]_vars

\* The process goes on while it lives, and every evaluation is bounded where it
\* runs: by the timeout of its subprocess or by the deadline of its adapter.
Fairness == \A c \in Campaigns : WF_vars(Step(c)) /\ WF_vars(Work(c))

FairSpec == Spec /\ Fairness

-----------------------------------------------------------------------------
(* Properties.                                                             *)

SlotStates == {"waiting", "running", "done", "raised"}
Places == Driving \cup {"idle", "refused", "gated", "closing", "over", "dead"}

TypeOK ==
    /\ pc \in [Campaigns -> Places]
    /\ \A c \in Campaigns :
          /\ gen[c] \in 0..Generations[c]
          /\ stopped[c] \in BOOLEAN
          /\ ending[c] \in {"closed", "halted", "exhausted", "failed"}
          /\ halter[c] \in {"idle", "asking", "told closed", "told halting"}
          /\ \A i \in DOMAIN slots[c] : slots[c][i].state \in SlotStates
          /\ \A k \in cands[c] : k.gen < Generations[c] /\ k.index \in Slots(c)

\* What the project has booked to its campaigns never passes the ceiling by more
\* than the generations in progress: each campaign reads the others' bookings at
\* its own boundary only, and what an evaluation costs is known when it ends
\* (tools/evolve.py:617-635, :881-893).
InProgress == SumFunctionOnSet([c \in Campaigns |-> Population[c] * Max(Actual[c])], Campaigns)
LeastAdmitted == Min({Population[c] * Estimate[c] : c \in Campaigns})

SpendBounded == ProjectSpend > Ceiling => ProjectSpend <= Ceiling + InProgress - LeastAdmitted

\* Nothing is written to a campaign after its end: a halt that loses the race is
\* refused (core/campaign.py:352-394).
NothingAfterClose ==
    \A c \in Campaigns : \A i \in DOMAIN events[c] :
        events[c][i].kind = "closed" => i = Len(events[c])

\* After a halt is on the ledger at most the generation whose boundary was already
\* passed is run (tools/evolve.py:871-879).
HaltHonoured ==
    \A c \in Campaigns : \A h \in DOMAIN events[c] :
        events[c][h].kind = "halt" =>
            Cardinality({i \in DOMAIN events[c] : i > h /\ CountsAsRun(events[c][i])}) <= 1

\* A campaign that is over has on the ledger a candidate for every slot of every
\* generation it counts, and if it did not fail it has no other and nothing in
\* flight: a duplicate and a program that was not run are recorded like any other,
\* and a generation is counted when its pool is done (tools/evolve.py:872-874,
\* :1059-1063).  One that failed may have evaluations running after its close.
Collected(c) == {<<k.gen, k.index>> : k \in cands[c]}
Counted(c)   == (0..(gen[c] - 1)) \X Slots(c)

EveryCandidateCollected ==
    \A c \in Campaigns : pc[c] = "over" =>
        /\ Counted(c) \subseteq Collected(c)
        /\ ending[c] # "failed" => Running(c) = {} /\ Collected(c) = Counted(c)

\* No program is evaluated twice in a campaign (tools/evolve.py:937-948).
NoProgramTwice ==
    \A c \in Campaigns : \A j, k \in cands[c] :
        j # k /\ j.source = k.source => j.source = NoSource

\* What `evolve run` answers and what the fold says of the generations run.
Reported(c) ==
    LET whole == Cardinality(cands[c]) \div Population[c]
    IN IF whole < Generations[c] THEN whole ELSE Generations[c]

\* A campaign that did not fail answers with the number the evolve window shows
\* (tools/evolve.py:985 and core/campaign.py:306-309).
GenerationsAgree ==
    \A c \in Campaigns : pc[c] = "over" /\ ending[c] # "failed" => Reported(c) = GenerationsRun(c)

\* So does one whose mutation engine failed, the only failure cmd_run returns from
\* (tests/test_evolve.py:783).
GenerationsAlwaysAgree ==
    \A c \in Campaigns :
        pc[c] = "over" /\ (ending[c] # "failed" \/ \E i \in DOMAIN events[c] : events[c][i].note = "error")
            => Reported(c) = GenerationsRun(c)

\* An open campaign comes to its end, whichever way it stops, unless its process is
\* killed (tools/evolve.py:548-571); in particular one that was asked to halt.
CampaignsEnd == \A c \in Campaigns : Open(c) ~> (Has(c, "closed") \/ pc[c] = "dead")
=============================================================================
