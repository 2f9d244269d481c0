--------------------------- MODULE CampaignProofs ----------------------------
(***************************************************************************)
(* What holds of every project, whatever its campaigns, the programs that  *)
(* are offered, the widths of the pools and the ceiling.                   *)
(*                                                                         *)
(* CampaignInv is the inductive invariant behind all but the bound on the  *)
(* spend: what is on the two ledgers of a campaign agrees with where its   *)
(* process is.  ExposureBounded is the one behind the bound.               *)
(***************************************************************************)
EXTENDS Campaign, SumTheorems, SequenceTheorems

Kinds == {"campaign", "generation", "halt", "closed"}
Notes == {"open", "run", "halted", "error", "requested", "closed", "exhausted", "failed"}
Endings == {"closed", "halted", "exhausted", "failed"}
Halters == {"idle", "asking", "told closed", "told halting"}

EventRecords == [kind : Kinds, gen : Nat, note : Notes]
CandidateRecords ==
    [gen : Nat, index : Nat, source : Sources \cup {NoSource}, skipped : BOOLEAN, cost : Nat]
SlotRecords == [source : Sources \cup {NoSource}, state : SlotStates]

\* The types of all variables.
Typed ==
    /\ events \in [Campaigns -> Seq(EventRecords)]
    /\ cands \in [Campaigns -> SUBSET CandidateRecords]
    /\ pc \in [Campaigns -> Places]
    /\ gen \in [Campaigns -> Nat]
    /\ stopped \in [Campaigns -> BOOLEAN]
    /\ ending \in [Campaigns -> Endings]
    /\ halter \in [Campaigns -> Halters]
    /\ slots = [c \in Campaigns |-> slots[c]]
    /\ \A c \in Campaigns :
          /\ slots[c] \in [DOMAIN slots[c] -> SlotRecords]
          /\ DOMAIN slots[c] \in {{}, Slots(c)}
          /\ IsFiniteSet(cands[c])

\* Some slot of the generation is still evaluated: by the pool, or by the threads an
\* interrupt left behind it.
AtWork(c) ==
    \/ pc[c] = "evaluate"
    \/ pc[c] \in {"closing", "over"} /\ Running(c) # {}

\* The generations and slots a campaign is at are those it was asked for, and only one
\* that failed leaves threads behind.
InBounds(c) ==
    /\ gen[c] <= Generations[c]
    /\ pc[c] \in {"budget", "propose"} => gen[c] < Generations[c]
    /\ AtWork(c) => gen[c] < Generations[c] /\ DOMAIN slots[c] = Slots(c)
    /\ Running(c) # {} =>
          \/ pc[c] \in {"evaluate", "dead"}
          \/ pc[c] \in {"closing", "over"} /\ ending[c] = "failed"
    /\ \A k \in cands[c] : k.gen < Generations[c] /\ k.index \in Slots(c)

ClosedIsOver(c) ==
    \A i \in DOMAIN events[c] :
        events[c][i].kind = "closed" => pc[c] \in {"over", "dead"} /\ i = Len(events[c])

RunAfter(c, h) == {i \in DOMAIN events[c] : i > h /\ CountsAsRun(events[c][i])}

OneRunAfterHalt(c) ==
    \A h \in DOMAIN events[c] : events[c][h].kind = "halt" =>
        /\ pc[c] \in {"budget", "propose", "evaluate"} => RunAfter(c, h) = {}
        /\ \A i, j \in RunAfter(c, h) : i = j

FreshPrograms(c) ==
    AtWork(c) =>
        /\ \A i, j \in Slots(c) :
              i # j /\ slots[c][i].source = slots[c][j].source => slots[c][i].source = NoSource
        /\ \A i \in Slots(c), k \in cands[c] :
              slots[c][i].state # "done" /\ slots[c][i].source = k.source => k.source = NoSource

Done(c) == {i \in Slots(c) : slots[c][i].state = "done"}

Unharmed(c) ==
    \/ pc[c] \notin {"evaluate", "closing", "over", "dead"}
    \/ pc[c] \in {"closing", "over"} /\ ending[c] # "failed"

SlotsAreCollected(c) ==
    /\ Counted(c) \subseteq Collected(c)
    /\ Unharmed(c) => Collected(c) = Counted(c)
    /\ AtWork(c) => Collected(c) = Counted(c) \cup ({gen[c]} \X Done(c))
    /\ \A j, k \in cands[c] : j.gen = k.gen /\ j.index = k.index => j = k

EvaluatedOnce(c) == \A j, k \in cands[c] : j # k /\ j.source = k.source => j.source = NoSource

RecordedRuns(c) ==
    {events[c][i].gen : i \in {h \in DOMAIN events[c] : CountsAsRun(events[c][h])}}

GenerationsAreRecorded(c) ==
    Unharmed(c) \/ pc[c] = "evaluate" => RecordedRuns(c) = 0..(gen[c] - 1)

Dearest(c) == Max(Actual[c])

\* What the generation in progress may still come to cost.
Committed(c) ==
    IF pc[c] = "propose" THEN Population[c] * Dearest(c)
    ELSE IF AtWork(c) THEN Cardinality(Slots(c) \ Done(c)) * Dearest(c)
    ELSE 0

Loads == [c \in Campaigns |-> Booked(c) + Committed(c)]

Exposure == SumFunctionOnSet(Loads, Campaigns)

ExposureBounded == Exposure = 0 \/ Exposure <= Ceiling + InProgress - LeastAdmitted

CampaignInv ==
    /\ Typed
    /\ \A c \in Campaigns :
          /\ InBounds(c) /\ ClosedIsOver(c) /\ OneRunAfterHalt(c)
          /\ FreshPrograms(c) /\ EvaluatedOnce(c)
          /\ SlotsAreCollected(c) /\ GenerationsAreRecorded(c)

-----------------------------------------------------------------------------
(* Helpers.                                                                *)

\* What one more event does to the ledger of a campaign, and to no other.
LEMMA LogAppends ==
    ASSUME Typed, NEW c \in Campaigns, NEW e \in EventRecords, Log(c, e)
    PROVE  /\ events' \in [Campaigns -> Seq(EventRecords)]
           /\ events'[c] = Append(events[c], e)
           /\ \A d \in Campaigns \ {c} : events'[d] = events[d]
<1>1. events \in [Campaigns -> Seq(EventRecords)] /\ events' = [events EXCEPT ![c] = Append(@, e)]
  BY DEF Typed, Log
<1>2. Append(events[c], e) \in Seq(EventRecords)
  BY <1>1, AppendProperties
<1> QED
  BY <1>1, <1>2

\* The events of a campaign, one longer.
LEMMA Appended ==
    ASSUME NEW s \in Seq(EventRecords), NEW e \in EventRecords
    PROVE  /\ DOMAIN Append(s, e) = DOMAIN s \cup {Len(s) + 1}
           /\ Len(Append(s, e)) = Len(s) + 1
           /\ Append(s, e)[Len(s) + 1] = e
           /\ \A i \in DOMAIN s : i \in 1..Len(s) /\ Append(s, e)[i] = s[i]
           /\ Len(s) \in Nat /\ Len(s) + 1 \notin DOMAIN s
<1>1. Len(s) \in Nat /\ DOMAIN s = 1..Len(s)
  BY LenProperties
<1>2. /\ Len(Append(s, e)) = Len(s) + 1
      /\ \A i \in 1..Len(s) : Append(s, e)[i] = s[i]
      /\ Append(s, e)[Len(s) + 1] = e
      /\ Append(s, e) \in Seq(EventRecords)
  BY AppendProperties
<1>3. DOMAIN Append(s, e) = 1..(Len(s) + 1)
  BY <1>2, LenProperties
<1>4. 1..(Len(s) + 1) = (1..Len(s)) \cup {Len(s) + 1}
  BY <1>1
<1> QED
  BY <1>1, <1>2, <1>3, <1>4

\* What moving one slot on changes.
LEMMA SlotMoves ==
    ASSUME Typed, NEW c \in Campaigns, NEW i \in DOMAIN slots[c], NEW state \in SlotStates,
           SlotIs(c, i, state)
    PROVE  /\ slots' = [d \in Campaigns |-> slots'[d]]
           /\ slots'[c] \in [DOMAIN slots[c] -> SlotRecords]
           /\ \A d \in Campaigns \ {c} : slots'[d] = slots[d]
           /\ \A j \in DOMAIN slots[c] : slots'[c][j].source = slots[c][j].source
           /\ \A j \in DOMAIN slots[c] :
                 slots'[c][j].state = IF j = i THEN state ELSE slots[c][j].state
<1> DEFINE s == slots[c]
           t == [s EXCEPT ![i] = [s[i] EXCEPT !.state = state]]
<1>1. slots = [d \in Campaigns |-> slots[d]] /\ s \in [DOMAIN s -> SlotRecords]
  BY DEF Typed
<1>2. slots' = [slots EXCEPT ![c] = t]
  BY DEF SlotIs
<1>3. /\ [s[i] EXCEPT !.state = state] \in SlotRecords
      /\ [s[i] EXCEPT !.state = state].source = s[i].source
      /\ [s[i] EXCEPT !.state = state].state = state
  BY <1>1 DEF SlotRecords
<1>4. t \in [DOMAIN s -> SlotRecords]
  BY <1>1, <1>3
<1>5. \A j \in DOMAIN s : t[j] = IF j = i THEN [s[i] EXCEPT !.state = state] ELSE s[j]
  BY <1>1
<1>6. slots'[c] = t
  BY <1>1, <1>2
<1>7. \A d \in Campaigns \ {c} : slots'[d] = slots[d]
  BY <1>1, <1>2
<1>8. slots' = [d \in Campaigns |-> slots'[d]]
  BY <1>1, <1>2
<1> QED
  BY <1>3, <1>4, <1>5, <1>6, <1>7, <1>8

\* The constants of one campaign.
LEMMA CampaignConstants ==
    ASSUME NEW c \in Campaigns
    PROVE  /\ Population[c] \in Nat \ {0} /\ Generations[c] \in Nat \ {0}
           /\ EvalJobs[c] \in Nat \ {0} /\ Estimate[c] \in Nat \ {0}
           /\ Actual[c] \in SUBSET Nat /\ Actual[c] # {} /\ IsFiniteSet(Actual[c])
           /\ Slots(c) \subseteq Nat
<1>1. /\ Generations \in [Campaigns -> Nat \ {0}] /\ Population \in [Campaigns -> Nat \ {0}]
      /\ EvalJobs \in [Campaigns -> Nat \ {0}] /\ Estimate \in [Campaigns -> Nat \ {0}]
  BY CampaignAssumption
<1>2. Actual \in [Campaigns -> SUBSET Nat] /\ Actual[c] # {} /\ IsFiniteSet(Actual[c])
  BY CampaignAssumption
<1>3. Slots(c) \subseteq Nat
  BY <1>1 DEF Slots
<1> QED
  BY <1>1, <1>2, <1>3

\* The thread pool takes a slot that waits.
LEMMA TakenIsWaiting ==
    ASSUME Typed, NEW c \in Campaigns, NEW i \in DOMAIN slots[c], Waiting(c) # {}, Take(c, i)
    PROVE  i \in Waiting(c)
<1>1. DOMAIN slots[c] \subseteq Nat
  BY CampaignConstants DEF Typed
<1>2. Waiting(c) \in SUBSET Nat
  BY <1>1 DEF Waiting
<1> QED
  BY <1>2, MinOfNaturals DEF Take

\* What a slot of the generation in progress is recorded as.
LEMMA CandidateIsTyped ==
    ASSUME Typed, NEW c \in Campaigns, NEW i \in DOMAIN slots[c],
           NEW skipped \in BOOLEAN, NEW cost \in Nat
    PROVE  /\ Candidate(c, i, skipped, cost) \in CandidateRecords
           /\ Candidate(c, i, skipped, cost).gen = gen[c]
           /\ Candidate(c, i, skipped, cost).index = i
           /\ Candidate(c, i, skipped, cost).source = slots[c][i].source
           /\ Candidate(c, i, skipped, cost).cost = cost
           /\ i \in Slots(c)
<1>1. gen[c] \in Nat /\ slots[c][i] \in SlotRecords /\ i \in Slots(c)
  BY DEF Typed
<1>2. slots[c][i].source \in Sources \cup {NoSource}
  BY <1>1 DEF SlotRecords
<1>3. i \in Nat
  BY <1>1, CampaignConstants
<1> QED
  BY <1>1, <1>2, <1>3 DEF Candidate, CandidateRecords

\* What recording a candidate changes.
LEMMA KeepAdds ==
    ASSUME Typed, NEW c \in Campaigns, NEW k \in CandidateRecords, Keep(c, k)
    PROVE  /\ cands' \in [Campaigns -> SUBSET CandidateRecords]
           /\ cands'[c] = cands[c] \cup {k}
           /\ \A d \in Campaigns \ {c} : cands'[d] = cands[d]
           /\ \A d \in Campaigns : IsFiniteSet(cands'[d])
<1>1. cands \in [Campaigns -> SUBSET CandidateRecords] /\ \A d \in Campaigns : IsFiniteSet(cands[d])
  BY DEF Typed
<1>2. cands' = [cands EXCEPT ![c] = cands[c] \cup {k}]
  BY DEF Keep
<1>3. IsFiniteSet(cands[c] \cup {k})
  BY <1>1, FS_AddElement
<1> QED
  BY <1>1, <1>2, <1>3

\* What the operator of a campaign proposes becomes the slots of its generation.
LEMMA ProposalIsTyped ==
    ASSUME Typed, NEW c \in Campaigns, gen[c] < Generations[c], NEW offer \in Offers[c][gen[c]]
    PROVE  /\ Prepared(c, offer) \in [Slots(c) -> SlotRecords]
           /\ \A i \in Slots(c) : Prepared(c, offer)[i].state = "waiting"
           /\ \A i \in Slots(c) :
                 Prepared(c, offer)[i].source =
                     IF offer[i] \in Seen(c) \cup {offer[j] : j \in 1..(i - 1)}
                     THEN NoSource ELSE offer[i]
           /\ offer \in [Slots(c) -> Sources \cup {NoSource}]
<1>1. gen[c] \in 0..(Generations[c] - 1)
  BY CampaignConstants DEF Typed
<1>2. offer \in [Slots(c) -> Sources \cup {NoSource}]
  BY <1>1, CampaignAssumption
<1>3. \A i \in Slots(c) : offer[i] \in Sources \cup {NoSource}
  BY <1>2
<1> DEFINE chosen(i) == IF offer[i] \in Seen(c) \cup {offer[j] : j \in 1..(i - 1)}
                        THEN NoSource ELSE offer[i]
<1>4. \A i \in Slots(c) : chosen(i) \in Sources \cup {NoSource}
  BY <1>3
<1>5. Prepared(c, offer) = [i \in Slots(c) |-> [source |-> chosen(i), state |-> "waiting"]]
  BY DEF Prepared
<1> HIDE DEF chosen
<1>6. \A i \in Slots(c) : [source |-> chosen(i), state |-> "waiting"] \in SlotRecords
  BY <1>4 DEF SlotRecords, SlotStates
<1>7. /\ Prepared(c, offer) \in [Slots(c) -> SlotRecords]
      /\ \A i \in Slots(c) : /\ Prepared(c, offer)[i].state = "waiting"
                             /\ Prepared(c, offer)[i].source = chosen(i)
  BY <1>5, <1>6
<1> QED
  BY <1>2, <1>7 DEF chosen

-----------------------------------------------------------------------------
(* What a step does to its own campaign, and that it touches no other.     *)

Acts(c) == Step(c) \/ Work(c) \/ Interrupt(c) \/ Kill(c) \/ HaltLook(c) \/ RequestHalt(c)

Elsewhere(c) ==
    \A d \in Campaigns \ {c} :
        /\ events'[d] = events[d] /\ cands'[d] = cands[d] /\ pc'[d] = pc[d]
        /\ gen'[d] = gen[d] /\ slots'[d] = slots[d] /\ ending'[d] = ending[d]

LedgersStand(c) == events'[c] = events[c] /\ cands'[c] = cands[c]

\* The process moves, and nothing is recorded or evaluated.
Moves(c) ==
    /\ LedgersStand(c) /\ slots'[c] = slots[c] /\ gen'[c] = gen[c]
    /\ \/ pc'[c] = pc[c] /\ ending'[c] = ending[c]
       \/ pc[c] = "idle" /\ pc'[c] \in {"gated", "refused"}
       \/ pc[c] = "head" /\ gen[c] = Generations[c] /\ pc'[c] = "closing" /\ ending'[c] = "closed"
       \/ pc[c] = "head" /\ gen[c] < Generations[c] /\ ~HaltRequested(c) /\ pc'[c] = "budget"
       \/ pc[c] = "budget" /\ Fits(c, gen[c]) /\ pc'[c] = "propose"
       \/ pc[c] \in Driving /\ pc'[c] = "closing" /\ ending'[c] = "failed"
       \/ pc[c] \in Driving \cup {"gated", "closing", "over"} /\ pc'[c] = "dead"

\* An interrupt outside a pool ends the process's work and what it was evaluating.
Breaks(c) ==
    /\ LedgersStand(c) /\ gen'[c] = gen[c] /\ Running(c)' = {}
    /\ pc[c] \in Driving /\ pc'[c] = "closing" /\ ending'[c] = "failed"

\* One event goes to the ledger.
Logs(c) ==
    /\ cands'[c] = cands[c] /\ slots'[c] = slots[c]
    /\ \E e \in EventRecords :
          /\ events'[c] = Append(events[c], e)
          /\ \/ /\ e.kind = "campaign" /\ pc[c] = "gated" /\ pc'[c] = "head"
                /\ gen'[c] = gen[c] /\ ending'[c] = ending[c]
             \/ /\ e.kind = "generation" /\ e.note = "halted" /\ gen'[c] = gen[c]
                /\ pc[c] \in {"head", "budget"} /\ pc'[c] = "closing" /\ ending'[c] # "failed"
             \/ /\ e.kind = "generation" /\ e.note = "error" /\ gen'[c] = gen[c]
                /\ pc[c] = "propose" /\ pc'[c] = "closing" /\ ending'[c] = "failed"
             \/ /\ e.kind = "generation" /\ e.note = "run" /\ e.gen = gen[c]
                /\ pc[c] = "evaluate" /\ pc'[c] = "head" /\ gen'[c] = gen[c] + 1
                /\ Running(c) = {} /\ \A i \in DOMAIN slots[c] : slots[c][i].state = "done"
             \/ /\ e.kind = "closed" /\ gen'[c] = gen[c] /\ ending'[c] = ending[c]
                /\ pc[c] = "closing" /\ pc'[c] = "over"
             \/ /\ e.kind = "halt" /\ gen'[c] = gen[c] /\ ending'[c] = ending[c]
                /\ Open(c) /\ pc'[c] = pc[c]

\* A generation is proposed.
Proposes(c) ==
    /\ LedgersStand(c) /\ gen'[c] = gen[c] /\ ending'[c] = ending[c]
    /\ pc[c] = "propose" /\ pc'[c] = "evaluate"
    /\ \E offer \in Offers[c][gen[c]] : slots'[c] = Prepared(c, offer)

\* A slot of the generation moves on; when it is done its candidate is recorded.
Evaluates(c) ==
    /\ events'[c] = events[c] /\ gen'[c] = gen[c] /\ ending'[c] = ending[c]
    /\ AtWork(c) /\ pc'[c] = pc[c]
    /\ DOMAIN slots'[c] = DOMAIN slots[c]
    /\ \A j \in DOMAIN slots[c] : slots'[c][j].source = slots[c][j].source
    /\ \E i \in DOMAIN slots[c], state \in {"running", "raised", "done"} :
          /\ slots[c][i].state \in {"waiting", "running"}
          /\ \A j \in DOMAIN slots[c] :
                slots'[c][j].state = IF j = i THEN state ELSE slots[c][j].state
          /\ \/ state # "done" /\ cands'[c] = cands[c]
             \/ /\ state = "done"
                /\ \E skipped \in BOOLEAN, cost \in Actual[c] \cup {0} :
                      cands'[c] = cands[c] \cup {Candidate(c, i, skipped, cost)}

Effect(c) == Typed' /\ Elsewhere(c) /\ (Moves(c) \/ Breaks(c) \/ Logs(c) \/ Proposes(c) \/ Evaluates(c))

\* The records of the events are records of the ledger.
LEMMA RecordIsTyped ==
    ASSUME NEW kind \in Kinds, NEW g \in Nat, NEW note \in Notes
    PROVE  /\ Record(kind, g, note) \in EventRecords
           /\ Record(kind, g, note).kind = kind
           /\ Record(kind, g, note).gen = g
           /\ Record(kind, g, note).note = note
  BY DEF EventRecords, Record

\* Where the process of a campaign goes.
LEMMA GoesTo ==
    ASSUME Typed, NEW c \in Campaigns, NEW place \in Places, Goto(c, place)
    PROVE  pc' \in [Campaigns -> Places] /\ pc'[c] = place /\ \A d \in Campaigns \ {c} : pc'[d] = pc[d]
  BY DEF Typed, Goto

LEMMA EndsAs ==
    ASSUME Typed, NEW c \in Campaigns, NEW status \in Endings, EndAs(c, status)
    PROVE  /\ pc' \in [Campaigns -> Places] /\ pc'[c] = "closing"
           /\ \A d \in Campaigns \ {c} : pc'[d] = pc[d]
           /\ ending' \in [Campaigns -> Endings] /\ ending'[c] = status
           /\ \A d \in Campaigns \ {c} : ending'[d] = ending[d]
<1>1. "closing" \in Places
  BY DEF Places
<1> QED
  BY <1>1, GoesTo DEF EndAs, Typed

\* The ledgers and the slots keep their types when nothing touches them.
LEMMA LedgersStandTyped ==
    ASSUME Typed, UNCHANGED <<events, cands, slots>>,
           pc' \in [Campaigns -> Places], gen' \in [Campaigns -> Nat],
           stopped' \in [Campaigns -> BOOLEAN], ending' \in [Campaigns -> Endings],
           halter' \in [Campaigns -> Halters]
    PROVE  Typed'
  BY DEF Typed

\* The ledger of a campaign grows, and its types stay.
LEMMA LogIsTyped ==
    ASSUME Typed, NEW c \in Campaigns, NEW e \in EventRecords, Log(c, e), UNCHANGED <<cands, slots>>,
           pc' \in [Campaigns -> Places], gen' \in [Campaigns -> Nat],
           stopped' \in [Campaigns -> BOOLEAN], ending' \in [Campaigns -> Endings],
           halter' \in [Campaigns -> Halters]
    PROVE  Typed'
<1>1. events' \in [Campaigns -> Seq(EventRecords)]
  BY LogAppends
<1> QED
  BY <1>1 DEF Typed

LEMMA GateEffect ==
    ASSUME Typed, NEW c \in Campaigns, Gate(c) PROVE Effect(c)
<1>1. PICK place \in {"gated", "refused"} : Goto(c, place)
  BY DEF Gate
<1>2. place \in Places
  BY DEF Places
<1>3. Typed'
  BY <1>1, <1>2, GoesTo, LedgersStandTyped DEF Gate, Typed
<1> QED
  BY <1>1, <1>2, <1>3, GoesTo DEF Effect, Elsewhere, Moves, LedgersStand, Gate

LEMMA OpenEffect ==
    ASSUME Typed, NEW c \in Campaigns, OpenCampaign(c) PROVE Effect(c)
<1> DEFINE e == Record("campaign", 0, "open")
<1>1. e \in EventRecords /\ e.kind = "campaign"
  BY RecordIsTyped DEF Kinds, Notes
<1>2. Log(c, e) /\ Goto(c, "head") /\ "head" \in Places
  BY DEF OpenCampaign, Places, Driving
<1> HIDE DEF e
<1>3. Typed'
  BY <1>1, <1>2, GoesTo, LogIsTyped DEF OpenCampaign, Typed
<1> QED
  BY <1>1, <1>2, <1>3, GoesTo, LogAppends DEF Effect, Elsewhere, Logs, OpenCampaign

LEMMA BoundaryEffect ==
    ASSUME Typed, NEW c \in Campaigns, InBounds(c), Boundary(c) PROVE Effect(c)
<1>1. CASE gen[c] = Generations[c] /\ EndAs(c, "closed") /\ UNCHANGED events
  <2>1. "closed" \in Endings
    BY DEF Endings
  <2>2. Typed'
    BY <1>1, <2>1, EndsAs, LedgersStandTyped DEF Boundary, Typed
  <2> QED
    BY <1>1, <2>1, <2>2, EndsAs DEF Effect, Elsewhere, Moves, LedgersStand, Boundary
<1>2. CASE Log(c, Record("generation", gen[c], "halted")) /\ EndAs(c, "halted")
  <2> DEFINE e == Record("generation", gen[c], "halted")
  <2>1. e \in EventRecords /\ e.kind = "generation" /\ e.note = "halted" /\ e.gen = gen[c]
    BY RecordIsTyped DEF Kinds, Notes, Typed
  <2>2. Log(c, e) /\ "halted" \in Endings
    BY <1>2 DEF Endings
  <2> HIDE DEF e
  <2>3. Typed'
    BY <1>2, <2>1, <2>2, EndsAs, LogIsTyped DEF Boundary, Typed
  <2> QED
    BY <1>2, <2>1, <2>2, <2>3, EndsAs, LogAppends DEF Effect, Elsewhere, Logs, Boundary
<1>3. CASE /\ gen[c] < Generations[c] /\ ~MustHalt(c) /\ Goto(c, "budget") /\ UNCHANGED <<events, ending>>
  <2>1. "budget" \in Places
    BY DEF Places, Driving
  <2>2. Typed'
    BY <1>3, <2>1, GoesTo, LedgersStandTyped DEF Boundary, Typed
  <2> QED
    BY <1>3, <2>1, <2>2, GoesTo DEF Effect, Elsewhere, Moves, LedgersStand, Boundary, MustHalt
<1> QED
  BY <1>1, <1>2, <1>3 DEF Boundary

LEMMA RegateEffect ==
    ASSUME Typed, NEW c \in Campaigns, Regate(c) PROVE Effect(c)
<1>1. CASE Fits(c, gen[c]) /\ Goto(c, "propose") /\ UNCHANGED <<events, ending>>
  <2>1. "propose" \in Places
    BY DEF Places, Driving
  <2>2. Typed'
    BY <1>1, <2>1, GoesTo, LedgersStandTyped DEF Regate, Typed
  <2> QED
    BY <1>1, <2>1, <2>2, GoesTo DEF Effect, Elsewhere, Moves, LedgersStand, Regate
<1>2. CASE Log(c, Record("generation", gen[c], "halted")) /\ EndAs(c, "exhausted")
  <2> DEFINE e == Record("generation", gen[c], "halted")
  <2>1. e \in EventRecords /\ e.kind = "generation" /\ e.note = "halted" /\ e.gen = gen[c]
    BY RecordIsTyped DEF Kinds, Notes, Typed
  <2>2. Log(c, e) /\ "exhausted" \in Endings
    BY <1>2 DEF Endings
  <2> HIDE DEF e
  <2>3. Typed'
    BY <1>2, <2>1, <2>2, EndsAs, LogIsTyped DEF Regate, Typed
  <2> QED
    BY <1>2, <2>1, <2>2, <2>3, EndsAs, LogAppends DEF Effect, Elsewhere, Logs, Regate
<1> QED
  BY <1>1, <1>2 DEF Regate

LEMMA ProposeEffect ==
    ASSUME Typed, NEW c \in Campaigns, InBounds(c), Propose(c) PROVE Effect(c)
<1>1. PICK offer \in Offers[c][gen[c]] : slots' = [slots EXCEPT ![c] = Prepared(c, offer)]
  BY DEF Propose
<1>2. gen[c] < Generations[c]
  BY DEF InBounds, Propose
<1>3. Prepared(c, offer) \in [Slots(c) -> SlotRecords]
  BY <1>2, ProposalIsTyped
<1>4. /\ slots' = [d \in Campaigns |-> slots'[d]] /\ slots'[c] = Prepared(c, offer)
      /\ \A d \in Campaigns \ {c} : slots'[d] = slots[d]
  BY <1>1 DEF Typed
<1>5. DOMAIN slots'[c] = Slots(c) /\ slots'[c] \in [DOMAIN slots'[c] -> SlotRecords]
  BY <1>3, <1>4
<1>6. Goto(c, "evaluate") /\ "evaluate" \in Places
  BY DEF Propose, Places, Driving
<1>7. Typed'
  BY <1>4, <1>5, <1>6, GoesTo DEF Propose, Typed
<1>8. Proposes(c)
  BY <1>4, <1>6, GoesTo DEF Proposes, LedgersStand, Propose
<1> QED
  BY <1>4, <1>6, <1>7, <1>8, GoesTo DEF Effect, Elsewhere, Propose

LEMMA ProposeFailsEffect ==
    ASSUME Typed, NEW c \in Campaigns, ProposeFails(c) PROVE Effect(c)
<1>1. "failed" \in Endings /\ "propose" \in Driving
  BY DEF Endings, Driving
<1>2. CASE UNCHANGED events
  <2>1. Typed'
    BY <1>1, <1>2, EndsAs, LedgersStandTyped DEF ProposeFails, Typed
  <2> QED
    BY <1>1, <1>2, <2>1, EndsAs DEF Effect, Elsewhere, Moves, LedgersStand, ProposeFails
<1>3. CASE Log(c, Record("generation", gen[c], "error"))
  <2> DEFINE e == Record("generation", gen[c], "error")
  <2>1. e \in EventRecords /\ e.kind = "generation" /\ e.note = "error" /\ e.gen = gen[c]
    BY RecordIsTyped DEF Kinds, Notes, Typed
  <2>2. Log(c, e)
    BY <1>3
  <2> HIDE DEF e
  <2>3. Typed'
    BY <1>1, <2>1, <2>2, EndsAs, LogIsTyped DEF ProposeFails, Typed
  <2> QED
    BY <1>1, <2>1, <2>2, <2>3, EndsAs, LogAppends DEF Effect, Elsewhere, Logs, ProposeFails
<1> QED
  BY <1>2, <1>3 DEF ProposeFails

LEMMA NoticeEffect ==
    ASSUME Typed, NEW c \in Campaigns, Notice(c) PROVE Effect(c)
<1>1. stopped' \in [Campaigns -> BOOLEAN]
  BY DEF Notice, Typed
<1>2. Typed'
  BY <1>1, LedgersStandTyped DEF Notice, Typed
<1> QED
  BY <1>2 DEF Effect, Elsewhere, Moves, LedgersStand, Notice

LEMMA LeavePoolEffect ==
    ASSUME Typed, NEW c \in Campaigns, LeavePool(c) PROVE Effect(c)
<1>1. /\ pc[c] = "evaluate" /\ Running(c) = {} /\ UNCHANGED <<cands, slots, stopped, halter>>
  BY DEF LeavePool, PoolEmpty
<1>2. CASE /\ \A i \in DOMAIN slots[c] : slots[c][i].state = "done"
           /\ Log(c, Record("generation", gen[c], "run"))
           /\ gen' = [gen EXCEPT ![c] = @ + 1] /\ Goto(c, "head") /\ UNCHANGED ending
  <2> DEFINE e == Record("generation", gen[c], "run")
  <2>1. e \in EventRecords /\ e.kind = "generation" /\ e.note = "run" /\ e.gen = gen[c]
    BY RecordIsTyped DEF Kinds, Notes, Typed
  <2>2. Log(c, e) /\ "head" \in Places
    BY <1>2 DEF Places, Driving
  <2>3. /\ gen' \in [Campaigns -> Nat] /\ gen'[c] = gen[c] + 1
        /\ \A d \in Campaigns \ {c} : gen'[d] = gen[d]
    BY <1>2 DEF Typed
  <2> HIDE DEF e
  <2>4. Typed'
    BY <1>1, <1>2, <2>1, <2>2, <2>3, GoesTo, LogIsTyped DEF Typed
  <2> QED
    BY <1>1, <1>2, <2>1, <2>2, <2>3, <2>4, GoesTo, LogAppends DEF Effect, Elsewhere, Logs
<1>3. CASE EndAs(c, "failed") /\ UNCHANGED <<events, gen>>
  <2>1. "failed" \in Endings /\ "evaluate" \in Driving
    BY DEF Endings, Driving
  <2>2. Typed'
    BY <1>1, <1>3, <2>1, EndsAs, LedgersStandTyped DEF Typed
  <2> QED
    BY <1>1, <1>3, <2>1, <2>2, EndsAs DEF Effect, Elsewhere, Moves, LedgersStand
<1> QED
  BY <1>2, <1>3 DEF LeavePool

LEMMA CloseEffect ==
    ASSUME Typed, NEW c \in Campaigns, CloseCampaign(c) PROVE Effect(c)
<1> DEFINE e == Record("closed", gen[c], ending[c])
<1>1. ending[c] \in Notes /\ gen[c] \in Nat
  BY DEF Typed, Endings, Notes
<1>2. e \in EventRecords /\ e.kind = "closed"
  BY <1>1, RecordIsTyped DEF Kinds
<1>3. Log(c, e) /\ Goto(c, "over") /\ "over" \in Places
  BY DEF CloseCampaign, Places
<1> HIDE DEF e
<1>4. Typed'
  BY <1>2, <1>3, GoesTo, LogIsTyped DEF CloseCampaign, Typed
<1> QED
  BY <1>2, <1>3, <1>4, GoesTo, LogAppends DEF Effect, Elsewhere, Logs, CloseCampaign

\* What an interrupt leaves of the slots outside a pool.
LEMMA CutShortIsTyped ==
    ASSUME Typed, NEW c \in Campaigns
    PROVE  /\ CutShort(c) \in [DOMAIN slots[c] -> SlotRecords]
           /\ \A i \in DOMAIN slots[c] : CutShort(c)[i].state # "running"
<1>1. slots[c] \in [DOMAIN slots[c] -> SlotRecords]
  BY DEF Typed
<1> DEFINE left(i) == IF i \in Running(c) THEN [slots[c][i] EXCEPT !.state = "raised"] ELSE slots[c][i]
<1>2. ASSUME NEW i \in DOMAIN slots[c]
      PROVE  left(i) \in SlotRecords /\ left(i).state # "running"
  <2>1. slots[c][i] \in SlotRecords
    BY <1>1
  <2>2. CASE i \in Running(c)
    BY <2>1, <2>2 DEF SlotRecords, SlotStates
  <2>3. CASE i \notin Running(c)
    BY <2>1, <2>3 DEF Running
  <2> QED
    BY <2>2, <2>3
<1>3. CutShort(c) = [i \in DOMAIN slots[c] |-> left(i)]
  BY DEF CutShort
<1> HIDE DEF left
<1> QED
  BY <1>2, <1>3

LEMMA InterruptEffect ==
    ASSUME Typed, NEW c \in Campaigns, Interrupt(c) PROVE Effect(c)
<1>1. CASE stopped' = [stopped EXCEPT ![c] = TRUE] /\ UNCHANGED <<pc, slots, ending>>
  <2>1. stopped' \in [Campaigns -> BOOLEAN] /\ UNCHANGED <<events, cands, pc, gen, slots, ending, halter>>
    BY <1>1 DEF Interrupt, Typed
  <2>2. Typed'
    BY <2>1, LedgersStandTyped DEF Typed
  <2> QED
    BY <2>1, <2>2 DEF Effect, Elsewhere, Moves, LedgersStand
<1>2. CASE /\ EndAs(c, "failed") /\ UNCHANGED stopped
           /\ slots' = [slots EXCEPT ![c] = IF Pooled(c) THEN @ ELSE CutShort(c)]
  <2>1. "failed" \in Endings
    BY DEF Endings
  <2>2. UNCHANGED <<events, cands, gen, halter>> /\ pc[c] \in Driving
    BY DEF Interrupt
  <2>3. CASE Pooled(c)
    <3>1. UNCHANGED slots
      BY <1>2, <2>3 DEF Typed
    <3>2. Typed'
      BY <1>2, <2>1, <2>2, <3>1, EndsAs, LedgersStandTyped DEF Typed
    <3> QED
      BY <1>2, <2>1, <2>2, <3>1, <3>2, EndsAs DEF Effect, Elsewhere, Moves, LedgersStand
  <2>4. CASE ~Pooled(c)
    <3>1. /\ slots' = [d \in Campaigns |-> slots'[d]] /\ slots'[c] = CutShort(c)
          /\ \A d \in Campaigns \ {c} : slots'[d] = slots[d]
      BY <1>2, <2>4 DEF Typed
    <3>2. /\ slots'[c] \in [DOMAIN slots[c] -> SlotRecords]
          /\ \A i \in DOMAIN slots[c] : slots'[c][i].state # "running"
      BY <3>1, CutShortIsTyped
    <3>3. DOMAIN slots'[c] = DOMAIN slots[c]
      BY <3>2
    <3>4. Typed'
      BY <1>2, <2>1, <2>2, <3>1, <3>2, <3>3, EndsAs DEF Typed
    <3>5. Running(c)' = {}
      BY <3>2, <3>3 DEF Running
    <3> QED
      BY <1>2, <2>1, <2>2, <3>1, <3>4, <3>5, EndsAs DEF Effect, Elsewhere, Breaks, LedgersStand
  <2> QED
    BY <2>3, <2>4
<1> QED
  BY <1>1, <1>2 DEF Interrupt

LEMMA KillEffect ==
    ASSUME Typed, NEW c \in Campaigns, Kill(c) PROVE Effect(c)
<1>1. Goto(c, "dead") /\ "dead" \in Places
  BY DEF Kill, Places
<1>2. Typed'
  BY <1>1, GoesTo, LedgersStandTyped DEF Kill, Typed
<1> QED
  BY <1>1, <1>2, GoesTo DEF Effect, Elsewhere, Moves, LedgersStand, Kill

LEMMA HaltLookEffect ==
    ASSUME Typed, NEW c \in Campaigns, HaltLook(c) PROVE Effect(c)
<1>1. halter' \in [Campaigns -> Halters]
  BY DEF HaltLook, Typed, Halters
<1>2. Typed'
  BY <1>1, LedgersStandTyped DEF HaltLook, Typed
<1> QED
  BY <1>2 DEF Effect, Elsewhere, Moves, LedgersStand, HaltLook

LEMMA RequestHaltEffect ==
    ASSUME Typed, NEW c \in Campaigns, RequestHalt(c) PROVE Effect(c)
<1>1. halter' \in [Campaigns -> Halters]
  BY DEF RequestHalt, Typed, Halters
<1>2. CASE MayRequest(c) /\ Log(c, Record("halt", gen[c], "requested"))
  <2> DEFINE e == Record("halt", gen[c], "requested")
  <2>1. e \in EventRecords /\ e.kind = "halt"
    BY RecordIsTyped DEF Kinds, Notes, Typed
  <2>2. Log(c, e) /\ Open(c)
    BY <1>2 DEF MayRequest
  <2> HIDE DEF e
  <2>3. Typed'
    BY <1>1, <2>1, <2>2, LogIsTyped DEF RequestHalt, Typed
  <2> QED
    BY <2>1, <2>2, <2>3, LogAppends DEF Effect, Elsewhere, Logs, RequestHalt
<1>3. CASE UNCHANGED events
  <2>1. Typed'
    BY <1>1, <1>3, LedgersStandTyped DEF RequestHalt, Typed
  <2> QED
    BY <1>3, <2>1 DEF Effect, Elsewhere, Moves, LedgersStand, RequestHalt
<1> QED
  BY <1>2, <1>3 DEF RequestHalt

\* The types when a slot moves on, and perhaps a candidate is recorded.
LEMMA EvaluationIsTyped ==
    ASSUME Typed, NEW c \in Campaigns, NEW i \in DOMAIN slots[c], NEW state \in SlotStates,
           SlotIs(c, i, state), UNCHANGED <<events, pc, gen, stopped, ending, halter>>,
           cands' \in [Campaigns -> SUBSET CandidateRecords],
           \A d \in Campaigns : IsFiniteSet(cands'[d])
    PROVE  Typed'
<1>1. /\ slots' = [d \in Campaigns |-> slots'[d]]
      /\ slots'[c] \in [DOMAIN slots[c] -> SlotRecords]
      /\ \A d \in Campaigns \ {c} : slots'[d] = slots[d]
  BY SlotMoves
<1>2. DOMAIN slots'[c] = DOMAIN slots[c]
  BY <1>1
<1> QED
  BY <1>1, <1>2 DEF Typed

LEMMA StartEffect ==
    ASSUME Typed, NEW c \in Campaigns, NEW i \in DOMAIN slots[c], Start(c, i) \/ Raise(c, i)
    PROVE  Effect(c)
<1>1. PICK state \in {"running", "raised"} : SlotIs(c, i, state)
  BY DEF Start, Raise
<1>2. state \in SlotStates /\ state # "done"
  BY DEF SlotStates
<1>3. AtWork(c) /\ UNCHANGED <<events, cands, pc, gen, stopped, ending, halter>>
  BY DEF Start, Raise, Take, Threaded, AtWork
<1>4. slots[c][i].state \in {"waiting", "running"}
  BY TakenIsWaiting DEF Start, Raise, Waiting, Running
<1>5. Typed'
  BY <1>1, <1>2, <1>3, EvaluationIsTyped DEF Typed
<1>6. /\ slots'[c] \in [DOMAIN slots[c] -> SlotRecords]
      /\ \A d \in Campaigns \ {c} : slots'[d] = slots[d]
      /\ \A j \in DOMAIN slots[c] : slots'[c][j].source = slots[c][j].source
      /\ \A j \in DOMAIN slots[c] :
            slots'[c][j].state = IF j = i THEN state ELSE slots[c][j].state
  BY <1>1, <1>2, SlotMoves
<1>7. DOMAIN slots'[c] = DOMAIN slots[c]
  BY <1>6
<1>8. Evaluates(c)
  BY <1>2, <1>3, <1>4, <1>6, <1>7 DEF Evaluates
<1> QED
  BY <1>3, <1>5, <1>6, <1>8 DEF Effect, Elsewhere

LEMMA DoneEffect ==
    ASSUME Typed, NEW c \in Campaigns, NEW i \in DOMAIN slots[c], Skip(c, i) \/ Finish(c, i)
    PROVE  Effect(c)
<1>1. PICK skipped \in BOOLEAN, cost \in Actual[c] \cup {0} : Keep(c, Candidate(c, i, skipped, cost))
  BY DEF Skip, Finish
<1> DEFINE k == Candidate(c, i, skipped, cost)
<1>2. cost \in Nat
  BY CampaignConstants
<1>3. k \in CandidateRecords
  BY <1>2, CandidateIsTyped
<1>4. /\ cands' \in [Campaigns -> SUBSET CandidateRecords]
      /\ cands'[c] = cands[c] \cup {k}
      /\ \A d \in Campaigns \ {c} : cands'[d] = cands[d]
      /\ \A d \in Campaigns : IsFiniteSet(cands'[d])
  BY <1>1, <1>3, KeepAdds
<1>5. /\ SlotIs(c, i, "done") /\ "done" \in SlotStates /\ AtWork(c)
      /\ UNCHANGED <<events, pc, gen, stopped, ending, halter>>
  BY DEF Skip, Finish, Take, SlotStates, Threaded, AtWork
<1>6. slots[c][i].state \in {"waiting", "running"}
  BY TakenIsWaiting DEF Skip, Finish, Waiting, Running
<1>7. Typed'
  BY <1>4, <1>5, EvaluationIsTyped
<1>8. /\ slots'[c] \in [DOMAIN slots[c] -> SlotRecords]
      /\ \A d \in Campaigns \ {c} : slots'[d] = slots[d]
      /\ \A j \in DOMAIN slots[c] : slots'[c][j].source = slots[c][j].source
      /\ \A j \in DOMAIN slots[c] :
            slots'[c][j].state = IF j = i THEN "done" ELSE slots[c][j].state
  BY <1>5, SlotMoves
<1>9. DOMAIN slots'[c] = DOMAIN slots[c]
  BY <1>8
<1>10. Evaluates(c)
  BY <1>4, <1>5, <1>6, <1>8, <1>9 DEF Evaluates
<1> QED
  BY <1>4, <1>5, <1>7, <1>8, <1>10 DEF Effect, Elsewhere

\* Every step of a campaign has one of the effects.
LEMMA StepEffect ==
    ASSUME Typed, NEW c \in Campaigns, InBounds(c), Acts(c) PROVE Effect(c)
<1>1. CASE Step(c)
  BY <1>1, GateEffect, OpenEffect, BoundaryEffect, RegateEffect, ProposeEffect, ProposeFailsEffect,
     NoticeEffect, LeavePoolEffect, CloseEffect DEF Step
<1>2. CASE Work(c)
  BY <1>2, StartEffect, DoneEffect DEF Work
<1>3. CASE Interrupt(c) \/ Kill(c) \/ HaltLook(c) \/ RequestHalt(c)
  BY <1>3, InterruptEffect, KillEffect, HaltLookEffect, RequestHaltEffect
<1> QED
  BY <1>1, <1>2, <1>3 DEF Acts

-----------------------------------------------------------------------------
(* The parts of CampaignInv, each kept by every effect.                    *)

\* No step but a proposal sets anything to work.
LEMMA WorkGoesOn ==
    ASSUME NEW c \in Campaigns, InBounds(c), Moves(c) \/ Breaks(c) \/ Logs(c)
    PROVE  AtWork(c)' => AtWork(c) /\ slots'[c] = slots[c]
<1>1. CASE Breaks(c)
  BY <1>1 DEF Breaks, AtWork
<1>2. CASE Moves(c) \/ Logs(c)
  <2>1. slots'[c] = slots[c] /\ Running(c)' = Running(c)
    BY <1>2 DEF Moves, Logs, Running
  <2>2. pc'[c] = "evaluate" => pc[c] = "evaluate"
    BY <1>2 DEF Moves, Logs
  <2>3. pc'[c] \in {"closing", "over"} => pc[c] # "dead"
    BY <1>2 DEF Moves, Logs, Driving
  <2> QED
    BY <2>1, <2>2, <2>3 DEF AtWork, InBounds
<1> QED
  BY <1>1, <1>2

LEMMA InBoundsStep ==
    ASSUME Typed, NEW c \in Campaigns, InBounds(c), Effect(c) PROVE InBounds(c)'
<1>1. gen[c] \in Nat /\ Generations[c] \in Nat /\ Typed'
  BY CampaignConstants DEF Typed, Effect
<1>2. CASE Moves(c) \/ Breaks(c) \/ Logs(c)
  <2>1. AtWork(c)' => gen'[c] < Generations[c] /\ DOMAIN slots'[c] = Slots(c)
    <3>1. AtWork(c)' => AtWork(c) /\ slots'[c] = slots[c]
      BY <1>2, WorkGoesOn
    <3>2. AtWork(c)' => gen'[c] = gen[c]
      BY <1>2 DEF Moves, Breaks, Logs, AtWork
    <3> QED
      BY <3>1, <3>2 DEF InBounds
  <2>2. Running(c)' # {} => \/ pc'[c] \in {"evaluate", "dead"}
                            \/ pc'[c] \in {"closing", "over"} /\ ending'[c] = "failed"
    <3>1. CASE Breaks(c)
      BY <3>1 DEF Breaks
    <3>2. CASE Moves(c) \/ Logs(c)
      <4>1. Running(c)' = Running(c)
        BY <3>2 DEF Moves, Logs, Running
      <4> QED
        BY <3>2, <4>1 DEF InBounds, Moves, Logs, Driving
    <3> QED
      BY <1>2, <3>1, <3>2
  <2>3. /\ gen'[c] <= Generations[c]
        /\ pc'[c] \in {"budget", "propose"} => gen'[c] < Generations[c]
    BY <1>1, <1>2 DEF InBounds, Moves, Breaks, Logs, AtWork
  <2>4. cands'[c] = cands[c]
    BY <1>2 DEF Moves, Breaks, Logs, LedgersStand
  <2> QED
    BY <2>1, <2>2, <2>3, <2>4 DEF InBounds
<1>4. CASE Proposes(c)
  <2>1. PICK offer \in Offers[c][gen[c]] : slots'[c] = Prepared(c, offer)
    BY <1>4 DEF Proposes
  <2>2. DOMAIN slots'[c] = Slots(c)
    BY <2>1 DEF Prepared
  <2> QED
    BY <1>4, <2>2 DEF Proposes, InBounds, LedgersStand
<1>5. CASE Evaluates(c)
  <2>1. PICK i \in DOMAIN slots[c], state \in {"running", "raised", "done"} :
           \/ cands'[c] = cands[c]
           \/ \E skipped \in BOOLEAN, cost \in Actual[c] \cup {0} :
                 cands'[c] = cands[c] \cup {Candidate(c, i, skipped, cost)}
    BY <1>5 DEF Evaluates
  <2>2. ASSUME NEW skipped \in BOOLEAN, NEW cost \in Actual[c] \cup {0}
        PROVE  /\ Candidate(c, i, skipped, cost).gen = gen[c]
               /\ Candidate(c, i, skipped, cost).index \in Slots(c)
    <3>1. cost \in Nat
      BY CampaignConstants
    <3> QED
      BY <3>1, CandidateIsTyped
  <2>3. gen[c] < Generations[c] /\ DOMAIN slots[c] = Slots(c)
    BY <1>5 DEF InBounds, Evaluates
  <2>4. \A k \in cands'[c] : k.gen < Generations[c] /\ k.index \in Slots(c)
    BY <2>1, <2>2, <2>3 DEF InBounds
  <2>5. /\ pc'[c] = pc[c] /\ gen'[c] = gen[c] /\ ending'[c] = ending[c]
        /\ DOMAIN slots'[c] = DOMAIN slots[c]
        /\ \/ pc[c] = "evaluate"
           \/ pc[c] \in {"closing", "over"} /\ ending[c] = "failed"
    BY <1>5 DEF Evaluates, AtWork, InBounds
  <2> QED
    BY <2>3, <2>4, <2>5 DEF InBounds
<1> QED
  BY <1>2, <1>4, <1>5 DEF Effect

LEMMA ClosedIsOverStep ==
    ASSUME Typed, NEW c \in Campaigns, ClosedIsOver(c), Effect(c) PROVE ClosedIsOver(c)'
<1>1. CASE events'[c] = events[c]
  <2>1. pc[c] \in {"over", "dead"} => pc'[c] \in {"over", "dead"}
    BY <1>1, AppendProperties DEF Effect, Moves, Breaks, Logs, Proposes, Evaluates, Driving, Typed
  <2> QED
    BY <1>1, <2>1 DEF ClosedIsOver
<1>2. CASE Logs(c)
  <2>1. PICK e \in EventRecords :
          /\ events'[c] = Append(events[c], e)
          /\ e.kind = "closed" => pc'[c] = "over"
          /\ \A i \in DOMAIN events[c] : events[c][i].kind # "closed"
    BY <1>2 DEF Logs, ClosedIsOver, Open, Has
  <2>2. events[c] \in Seq(EventRecords)
    BY DEF Typed
  <2> QED
    BY <2>1, <2>2, Appended DEF ClosedIsOver
<1> QED
  BY <1>1, <1>2 DEF Effect, Moves, Breaks, Proposes, Evaluates, LedgersStand

\* What one more event adds to the runs after a halt.
LEMMA RunAfterGrows ==
    ASSUME Typed, NEW c \in Campaigns, NEW e \in EventRecords, events'[c] = Append(events[c], e),
           NEW h \in DOMAIN events[c]
    PROVE  RunAfter(c, h)' = RunAfter(c, h) \cup (IF CountsAsRun(e) THEN {Len(events[c]) + 1} ELSE {})
<1>1. events[c] \in Seq(EventRecords)
  BY DEF Typed
<1>2. h < Len(events[c]) + 1
  BY <1>1, Appended
<1> QED
  BY <1>1, <1>2, Appended DEF RunAfter, CountsAsRun

LEMMA OneRunAfterHaltStep ==
    ASSUME Typed, NEW c \in Campaigns, OneRunAfterHalt(c), Effect(c) PROVE OneRunAfterHalt(c)'
<1>1. CASE /\ events'[c] = events[c]
           /\ pc'[c] \in {"budget", "propose", "evaluate"} =>
                 pc[c] \in {"budget", "propose", "evaluate"} \/ ~HaltRequested(c)
  BY <1>1 DEF OneRunAfterHalt, RunAfter, HaltRequested, Has
<1>2. CASE Logs(c)
  <2>1. PICK e \in EventRecords :
          /\ events'[c] = Append(events[c], e)
          /\ e.kind = "halt" => ~CountsAsRun(e)
          /\ CountsAsRun(e) => /\ pc[c] \in {"budget", "propose", "evaluate"}
                               /\ pc'[c] \notin {"budget", "propose", "evaluate"}
          /\ pc'[c] \in {"budget", "propose", "evaluate"} => pc'[c] = pc[c]
    BY <1>2 DEF Logs, CountsAsRun
  <2>2. events[c] \in Seq(EventRecords)
    BY DEF Typed
  <2>3. ASSUME NEW h \in DOMAIN events[c], events[c][h].kind = "halt"
        PROVE  /\ pc'[c] \in {"budget", "propose", "evaluate"} => RunAfter(c, h)' = {}
               /\ \A i, j \in RunAfter(c, h)' : i = j
    BY <2>1, <2>3, RunAfterGrows DEF OneRunAfterHalt
  <2>4. \A i \in DOMAIN events'[c] : i <= Len(events[c]) + 1
    BY <2>1, <2>2, Appended
  <2>5. ASSUME NEW h \in DOMAIN events'[c], events'[c][h].kind = "halt"
        PROVE  /\ pc'[c] \in {"budget", "propose", "evaluate"} => RunAfter(c, h)' = {}
               /\ \A i, j \in RunAfter(c, h)' : i = j
    <3>1. CASE h \in DOMAIN events[c]
      BY <2>1, <2>2, <2>3, <2>5, <3>1, Appended
    <3>2. CASE h = Len(events[c]) + 1
      <4>1. DOMAIN events'[c] \subseteq Nat
        BY <2>1, <2>2, AppendProperties, LenProperties
      <4>2. RunAfter(c, h)' = {}
        BY <2>4, <3>2, <4>1 DEF RunAfter
      <4> QED
        BY <4>2
    <3> QED
      BY <2>1, <2>2, <3>1, <3>2, Appended
  <2> QED
    BY <2>5 DEF OneRunAfterHalt
<1> QED
  BY <1>1, <1>2 DEF Effect, Moves, Breaks, Proposes, Evaluates, LedgersStand

LEMMA FreshProgramsStep ==
    ASSUME Typed, NEW c \in Campaigns, InBounds(c), FreshPrograms(c), Effect(c)
    PROVE  FreshPrograms(c)'
<1>1. CASE Moves(c) \/ Breaks(c) \/ Logs(c)
  <2>1. cands'[c] = cands[c]
    BY <1>1 DEF Moves, Breaks, Logs, LedgersStand
  <2>2. AtWork(c)' => AtWork(c) /\ slots'[c] = slots[c]
    BY <1>1, WorkGoesOn
  <2> QED
    BY <2>1, <2>2 DEF FreshPrograms
<1>2. CASE Proposes(c)
  <2>1. PICK offer \in Offers[c][gen[c]] : slots'[c] = Prepared(c, offer) /\ cands'[c] = cands[c]
    BY <1>2 DEF Proposes, LedgersStand
  <2>2. gen[c] < Generations[c]
    BY <1>2 DEF Proposes, InBounds
  <2>3. \A i \in Slots(c) :
           slots'[c][i].source = IF offer[i] \in Seen(c) \cup {offer[j] : j \in 1..(i - 1)}
                                 THEN NoSource ELSE offer[i]
    BY <2>1, <2>2, ProposalIsTyped
  <2>4. ASSUME NEW i \in Slots(c), NEW j \in Slots(c), i # j, slots'[c][i].source = slots'[c][j].source
        PROVE  slots'[c][i].source = NoSource
    <3>1. i \in Nat /\ j \in Nat /\ 1 <= i /\ 1 <= j
      BY DEF Slots
    <3>2. CASE i < j
      <4>1. i \in 1..(j - 1)
        BY <3>1, <3>2
      <4> QED
        BY <2>3, <2>4, <4>1
    <3>3. CASE j < i
      <4>1. j \in 1..(i - 1)
        BY <3>1, <3>3
      <4> QED
        BY <2>3, <2>4, <4>1
    <3> QED
      BY <2>4, <3>1, <3>2, <3>3
  <2>5. ASSUME NEW i \in Slots(c), NEW k \in cands'[c], slots'[c][i].source = k.source
        PROVE  k.source = NoSource
    BY <2>1, <2>3, <2>5 DEF Seen
  <2> QED
    BY <2>4, <2>5 DEF FreshPrograms
<1>3. CASE Evaluates(c)
  <2>1. /\ DOMAIN slots[c] = Slots(c) /\ AtWork(c)
        /\ \A j \in Slots(c) : slots'[c][j].source = slots[c][j].source
    BY <1>3 DEF Evaluates, InBounds
  <2>2. PICK i \in Slots(c), state \in {"running", "raised", "done"} :
          /\ slots[c][i].state \in {"waiting", "running"}
          /\ \A j \in Slots(c) : slots'[c][j].state = IF j = i THEN state ELSE slots[c][j].state
          /\ \/ state # "done" /\ cands'[c] = cands[c]
             \/ /\ state = "done"
                /\ \E skipped \in BOOLEAN, cost \in Actual[c] \cup {0} :
                      cands'[c] = cands[c] \cup {Candidate(c, i, skipped, cost)}
    BY <1>3, <2>1 DEF Evaluates
  <2>3. \A a, b \in Slots(c) :
           a # b /\ slots[c][a].source = slots[c][b].source => slots[c][a].source = NoSource
    BY <2>1 DEF FreshPrograms
  <2>4. ASSUME NEW j \in Slots(c), slots'[c][j].state # "done", NEW k \in cands[c],
               slots'[c][j].source = k.source
        PROVE  k.source = NoSource
    BY <2>1, <2>2, <2>4 DEF FreshPrograms
  <2>5. ASSUME NEW j \in Slots(c), slots'[c][j].state # "done",
               NEW skipped \in BOOLEAN, NEW cost \in Actual[c] \cup {0}, state = "done",
               slots'[c][j].source = Candidate(c, i, skipped, cost).source
        PROVE  Candidate(c, i, skipped, cost).source = NoSource
    <3>1. j # i
      BY <2>2, <2>5
    <3>2. Candidate(c, i, skipped, cost).source = slots[c][i].source
      BY DEF Candidate
    <3> QED
      BY <2>1, <2>3, <2>5, <3>1, <3>2
  <2> QED
    BY <2>1, <2>2, <2>3, <2>4, <2>5 DEF FreshPrograms
<1> QED
  BY <1>1, <1>2, <1>3 DEF Effect

\* Going on to the next generation.
LEMMA PastGrows ==
    ASSUME NEW g \in Nat, NEW S
    PROVE  (0..g) \X S = ((0..(g - 1)) \X S) \cup ({g} \X S)
<1>1. 0..g = (0..(g - 1)) \cup {g}
  OBVIOUS
<1> QED
  BY <1>1

\* Recording one more candidate.
LEMMA CollectedGrows ==
    ASSUME NEW c \in Campaigns, NEW k, cands'[c] = cands[c] \cup {k}
    PROVE  Collected(c)' = Collected(c) \cup {<<k.gen, k.index>>}
  BY DEF Collected

LEMMA SlotsAreCollectedStep ==
    ASSUME Typed, NEW c \in Campaigns, InBounds(c), SlotsAreCollected(c), Effect(c)
    PROVE  SlotsAreCollected(c)'
<1>0. gen[c] \in Nat
  BY DEF Typed
<1>1. CASE Moves(c) \/ Breaks(c)
  <2>1. Collected(c)' = Collected(c) /\ Counted(c)' = Counted(c)
        /\ cands'[c] = cands[c] /\ gen'[c] = gen[c]
    BY <1>1 DEF Moves, Breaks, LedgersStand, Collected, Counted
  <2>2. AtWork(c)' => AtWork(c) /\ Done(c)' = Done(c)
    BY <1>1, WorkGoesOn DEF Done
  <2>3. Unharmed(c)' => Unharmed(c)
    BY <1>1 DEF Moves, Breaks, Unharmed, Driving
  <2> QED
    BY <2>1, <2>2, <2>3 DEF SlotsAreCollected
<1>2. CASE Logs(c)
  <2>1. /\ Collected(c)' = Collected(c) /\ cands'[c] = cands[c]
        /\ AtWork(c)' => AtWork(c) /\ Done(c)' = Done(c)
    BY <1>2, WorkGoesOn DEF Logs, Collected, Done
  <2>2. CASE gen'[c] = gen[c]
    <3>1. Counted(c)' = Counted(c)
      BY <2>2 DEF Counted
    <3>2. Unharmed(c)' => Unharmed(c)
      BY <1>0, <1>2, <2>2 DEF Logs, Unharmed
    <3> QED
      BY <2>1, <2>2, <3>1, <3>2 DEF SlotsAreCollected
  <2>3. CASE /\ pc[c] = "evaluate" /\ pc'[c] = "head" /\ gen'[c] = gen[c] + 1
             /\ \A i \in DOMAIN slots[c] : slots[c][i].state = "done"
    <3>1. Done(c) = Slots(c)
      BY <2>3 DEF Done, InBounds, AtWork
    <3>2. Counted(c)' = (0..gen[c]) \X Slots(c)
      <4>1. gen'[c] - 1 = gen[c]
        BY <1>0, <2>3
      <4> QED
        BY <4>1 DEF Counted
    <3>3. Counted(c)' = Counted(c) \cup ({gen[c]} \X Slots(c))
      BY <1>0, <3>2, PastGrows DEF Counted
    <3> QED
      BY <2>1, <2>3, <3>1, <3>3 DEF SlotsAreCollected, AtWork
  <2> QED
    BY <1>2, <2>2, <2>3 DEF Logs
<1>3. CASE Proposes(c)
  <2>1. /\ Collected(c)' = Collected(c) /\ Counted(c)' = Counted(c) /\ cands'[c] = cands[c]
        /\ gen'[c] = gen[c] /\ pc[c] = "propose" /\ pc'[c] = "evaluate"
    BY <1>3 DEF Proposes, LedgersStand, Collected, Counted
  <2>2. Done(c)' = {}
    BY <1>3, ProposalIsTyped DEF Proposes, InBounds, Done
  <2> QED
    BY <2>1, <2>2 DEF SlotsAreCollected, Unharmed, AtWork
<1>4. CASE Evaluates(c)
  <2>1. DOMAIN slots[c] = Slots(c) /\ AtWork(c) /\ pc'[c] = pc[c] /\ gen'[c] = gen[c]
    BY <1>4 DEF Evaluates, InBounds
  <2>2. PICK i \in Slots(c), state \in {"running", "raised", "done"} :
          /\ slots[c][i].state \in {"waiting", "running"}
          /\ \A j \in Slots(c) : slots'[c][j].state = IF j = i THEN state ELSE slots[c][j].state
          /\ \/ state # "done" /\ cands'[c] = cands[c]
             \/ /\ state = "done"
                /\ \E skipped \in BOOLEAN, cost \in Actual[c] \cup {0} :
                      cands'[c] = cands[c] \cup {Candidate(c, i, skipped, cost)}
    BY <1>4, <2>1 DEF Evaluates
  <2>3. ~Unharmed(c)' /\ Counted(c)' = Counted(c)
    BY <1>4, <2>1 DEF Evaluates, InBounds, AtWork, Unharmed, Counted
  <2>4. CASE state # "done"
    <3>1. Done(c)' = Done(c) /\ Collected(c)' = Collected(c) /\ cands'[c] = cands[c]
      BY <2>2, <2>4 DEF Done, Collected
    <3> QED
      BY <2>1, <2>3, <3>1 DEF SlotsAreCollected
  <2>5. CASE state = "done"
    <3>1. PICK skipped \in BOOLEAN, cost \in Actual[c] \cup {0} :
             cands'[c] = cands[c] \cup {Candidate(c, i, skipped, cost)}
      BY <2>2, <2>5
    <3> DEFINE k == Candidate(c, i, skipped, cost)
    <3>2. k.gen = gen[c] /\ k.index = i
      BY DEF Candidate
    <3> HIDE DEF k
    <3>3. Collected(c)' = Collected(c) \cup {<<gen[c], i>>}
      BY <3>1, <3>2, CollectedGrows DEF k
    <3>4. Done(c)' = Done(c) \cup {i}
      BY <2>2, <2>5 DEF Done
    <3>5. <<gen[c], i>> \notin Collected(c)
      <4>1. i \notin Done(c) /\ gen[c] \notin 0..(gen[c] - 1)
        BY <1>0, <2>2 DEF Done
      <4> QED
        BY <2>1, <4>1 DEF SlotsAreCollected, Counted
    <3>6. \A j \in cands[c] : ~ (j.gen = k.gen /\ j.index = k.index)
      BY <3>2, <3>5 DEF Collected
    <3>7. \A a, b \in cands'[c] : a.gen = b.gen /\ a.index = b.index => a = b
      BY <3>1, <3>6 DEF SlotsAreCollected, k
    <3>8. Collected(c)' = Counted(c)' \cup ({gen'[c]} \X Done(c)')
      BY <2>1, <2>3, <3>3, <3>4 DEF SlotsAreCollected
    <3> QED
      BY <2>3, <3>7, <3>8 DEF SlotsAreCollected
  <2> QED
    BY <2>4, <2>5
<1> QED
  BY <1>1, <1>2, <1>3, <1>4 DEF Effect

LEMMA EvaluatedOnceStep ==
    ASSUME Typed, NEW c \in Campaigns, InBounds(c), FreshPrograms(c), EvaluatedOnce(c), Effect(c)
    PROVE  EvaluatedOnce(c)'
<1>1. CASE cands'[c] = cands[c]
  BY <1>1 DEF EvaluatedOnce
<1>2. CASE Evaluates(c)
  <2>1. PICK i \in DOMAIN slots[c], skipped \in BOOLEAN, cost \in Actual[c] \cup {0} :
          /\ slots[c][i].state \in {"waiting", "running"}
          /\ cands'[c] = cands[c] \/ cands'[c] = cands[c] \cup {Candidate(c, i, skipped, cost)}
    BY <1>2 DEF Evaluates
  <2> DEFINE k == Candidate(c, i, skipped, cost)
  <2>2. k.source = slots[c][i].source
    BY DEF Candidate
  <2>3. \A j \in cands[c] : j.source = k.source => k.source = NoSource
    BY <1>2, <2>1, <2>2 DEF FreshPrograms, Evaluates, InBounds
  <2> HIDE DEF k
  <2> QED
    BY <2>1, <2>3 DEF EvaluatedOnce, k
<1> QED
  BY <1>1, <1>2 DEF Effect, Moves, Breaks, Logs, Proposes, LedgersStand

\* What one more event adds to the generations that were run.
LEMMA RecordedRunsGrow ==
    ASSUME Typed, NEW c \in Campaigns, NEW e \in EventRecords, events'[c] = Append(events[c], e)
    PROVE  RecordedRuns(c)' = RecordedRuns(c) \cup (IF CountsAsRun(e) THEN {e.gen} ELSE {})
<1>1. events[c] \in Seq(EventRecords)
  BY DEF Typed
<1> DEFINE old == {h \in DOMAIN events[c] : CountsAsRun(events[c][h])}
           new == {h \in DOMAIN Append(events[c], e) : CountsAsRun(Append(events[c], e)[h])}
<1>2. new = old \cup (IF CountsAsRun(e) THEN {Len(events[c]) + 1} ELSE {})
  BY <1>1, Appended DEF CountsAsRun
<1>3. RecordedRuns(c)' = {Append(events[c], e)[i].gen : i \in new}
  BY DEF RecordedRuns, CountsAsRun
<1>4. \A i \in old : Append(events[c], e)[i].gen = events[c][i].gen
  BY <1>1, Appended
<1>5. Append(events[c], e)[Len(events[c]) + 1] = e
  BY <1>1, Appended
<1>6. RecordedRuns(c) = {events[c][i].gen : i \in old}
  BY DEF RecordedRuns
<1> HIDE DEF old, new
<1> QED
  BY <1>2, <1>3, <1>4, <1>5, <1>6

LEMMA GenerationsAreRecordedStep ==
    ASSUME Typed, NEW c \in Campaigns, GenerationsAreRecorded(c), Effect(c)
    PROVE  GenerationsAreRecorded(c)'
<1>0. gen[c] \in Nat
  BY DEF Typed
<1>1. CASE Moves(c) \/ Breaks(c) \/ Proposes(c) \/ Evaluates(c)
  <2>1. RecordedRuns(c)' = RecordedRuns(c) /\ gen'[c] = gen[c]
    BY <1>1 DEF Moves, Breaks, Proposes, Evaluates, LedgersStand, RecordedRuns
  <2>2. (Unharmed(c) \/ pc[c] = "evaluate")' => Unharmed(c) \/ pc[c] = "evaluate"
    BY <1>1 DEF Moves, Breaks, Proposes, Evaluates, Unharmed, Driving
  <2> QED
    BY <2>1, <2>2 DEF GenerationsAreRecorded
<1>2. CASE Logs(c)
  <2>1. PICK e \in EventRecords :
          /\ events'[c] = Append(events[c], e)
          /\ \/ ~Unharmed(c)' /\ pc'[c] # "evaluate"
             \/ /\ ~CountsAsRun(e) /\ gen'[c] = gen[c]
                /\ (Unharmed(c) \/ pc[c] = "evaluate")' => Unharmed(c) \/ pc[c] = "evaluate"
             \/ CountsAsRun(e) /\ e.gen = gen[c] /\ gen'[c] = gen[c] + 1 /\ pc[c] = "evaluate"
    BY <1>2 DEF Logs, CountsAsRun, Unharmed
  <2>2. RecordedRuns(c)' = RecordedRuns(c) \cup (IF CountsAsRun(e) THEN {e.gen} ELSE {})
    BY <2>1, RecordedRunsGrow
  <2>3. CASE CountsAsRun(e) /\ e.gen = gen[c] /\ gen'[c] = gen[c] + 1 /\ pc[c] = "evaluate"
    <3>1. RecordedRuns(c)' = 0..gen[c] /\ gen'[c] - 1 = gen[c]
      BY <1>0, <2>2, <2>3 DEF GenerationsAreRecorded
    <3> QED
      BY <3>1 DEF GenerationsAreRecorded
  <2>4. CASE ~Unharmed(c)' /\ pc'[c] # "evaluate"
    BY <2>4 DEF GenerationsAreRecorded
  <2>5. CASE /\ ~CountsAsRun(e) /\ gen'[c] = gen[c]
             /\ (Unharmed(c) \/ pc[c] = "evaluate")' => Unharmed(c) \/ pc[c] = "evaluate"
    BY <2>2, <2>5 DEF GenerationsAreRecorded
  <2> QED
    BY <2>1, <2>3, <2>4, <2>5
<1> QED
  BY <1>1, <1>2 DEF Effect

-----------------------------------------------------------------------------
(* The invariant, and what follows from it.                                *)

LEMMA InitInv == Init => CampaignInv
<1> SUFFICES ASSUME Init PROVE CampaignInv
  OBVIOUS
<1>1. Typed
  <2>1. \A c \in Campaigns : events[c] = <<>> /\ <<>> \in Seq(EventRecords)
    BY DEF Init
  <2>2. \A c \in Campaigns : slots[c] = <<>> /\ DOMAIN slots[c] = {} /\ slots[c] \in [{} -> SlotRecords]
    BY DEF Init
  <2>3. IsFiniteSet({})
    BY FS_EmptySet
  <2> QED
    BY <2>1, <2>2, <2>3 DEF Init, Typed, Places, Endings, Halters
<1>2. ASSUME NEW c \in Campaigns
      PROVE  /\ InBounds(c) /\ ClosedIsOver(c) /\ OneRunAfterHalt(c)
             /\ FreshPrograms(c) /\ EvaluatedOnce(c)
             /\ SlotsAreCollected(c) /\ GenerationsAreRecorded(c)
  <2>1. /\ events[c] = <<>> /\ cands[c] = {} /\ pc[c] = "idle" /\ gen[c] = 0 /\ slots[c] = <<>>
        /\ DOMAIN events[c] = {} /\ DOMAIN slots[c] = {} /\ Generations[c] \in Nat
    BY CampaignConstants DEF Init
  <2>2. InBounds(c) /\ ClosedIsOver(c) /\ OneRunAfterHalt(c)
    BY <2>1 DEF InBounds, ClosedIsOver, OneRunAfterHalt, Running, AtWork
  <2>3. FreshPrograms(c) /\ EvaluatedOnce(c)
    BY <2>1 DEF FreshPrograms, EvaluatedOnce, AtWork
  <2>4. Collected(c) = {} /\ RecordedRuns(c) = {} /\ 0..(gen[c] - 1) = {}
    BY <2>1 DEF Collected, RecordedRuns
  <2> QED
    BY <2>1, <2>2, <2>3, <2>4 DEF SlotsAreCollected, GenerationsAreRecorded, Counted, AtWork
<1> QED
  BY <1>1, <1>2 DEF CampaignInv

LEMMA NextIsAct == Next => \E c \in Campaigns : Acts(c)
  BY DEF Next, Acts

LEMMA StepInv == CampaignInv /\ [Next]_vars => CampaignInv'
<1> SUFFICES ASSUME CampaignInv, [Next]_vars PROVE CampaignInv'
  OBVIOUS
<1>1. CASE Next
  <2>1. PICK c \in Campaigns : Acts(c)
    BY <1>1, NextIsAct
  <2>2. Typed /\ Effect(c)
    BY <2>1, StepEffect DEF CampaignInv
  <2>3. ASSUME NEW d \in Campaigns \ {c}
        PROVE  (/\ InBounds(d) /\ ClosedIsOver(d) /\ OneRunAfterHalt(d)
                /\ FreshPrograms(d) /\ EvaluatedOnce(d)
                /\ SlotsAreCollected(d) /\ GenerationsAreRecorded(d))'
    <3>1. /\ events'[d] = events[d] /\ cands'[d] = cands[d] /\ pc'[d] = pc[d]
          /\ gen'[d] = gen[d] /\ slots'[d] = slots[d] /\ ending'[d] = ending[d]
      BY <2>2 DEF Effect, Elsewhere
    <3>2. /\ InBounds(d) /\ ClosedIsOver(d) /\ OneRunAfterHalt(d) /\ FreshPrograms(d)
          /\ EvaluatedOnce(d) /\ SlotsAreCollected(d) /\ GenerationsAreRecorded(d)
      BY DEF CampaignInv
    <3>3. InBounds(d)' /\ ClosedIsOver(d)' /\ OneRunAfterHalt(d)'
      BY <3>1, <3>2 DEF InBounds, ClosedIsOver, OneRunAfterHalt, RunAfter, Running, AtWork
    <3>4. FreshPrograms(d)' /\ EvaluatedOnce(d)'
      BY <3>1, <3>2 DEF FreshPrograms, EvaluatedOnce, AtWork, Running
    <3>5. SlotsAreCollected(d)' /\ GenerationsAreRecorded(d)'
      BY <3>1, <3>2 DEF SlotsAreCollected, GenerationsAreRecorded, Unharmed, Collected, Counted, Done,
                        RecordedRuns, AtWork, Running
    <3> QED
      BY <3>3, <3>4, <3>5
  <2>4. (/\ InBounds(c) /\ ClosedIsOver(c) /\ OneRunAfterHalt(c)
         /\ FreshPrograms(c) /\ EvaluatedOnce(c)
         /\ SlotsAreCollected(c) /\ GenerationsAreRecorded(c))'
    BY <2>2, InBoundsStep, ClosedIsOverStep, OneRunAfterHaltStep, FreshProgramsStep, EvaluatedOnceStep,
       SlotsAreCollectedStep, GenerationsAreRecordedStep DEF CampaignInv
  <2> QED
    BY <2>2, <2>3, <2>4 DEF CampaignInv, Effect
<1>2. CASE UNCHANGED vars
  <2>1. Typed'
    BY <1>2 DEF vars, CampaignInv, Typed
  <2>2. ASSUME NEW d \in Campaigns
        PROVE  (/\ InBounds(d) /\ ClosedIsOver(d) /\ OneRunAfterHalt(d)
                /\ FreshPrograms(d) /\ EvaluatedOnce(d)
                /\ SlotsAreCollected(d) /\ GenerationsAreRecorded(d))'
    <3>1. /\ InBounds(d) /\ ClosedIsOver(d) /\ OneRunAfterHalt(d) /\ FreshPrograms(d)
          /\ EvaluatedOnce(d) /\ SlotsAreCollected(d) /\ GenerationsAreRecorded(d)
      BY DEF CampaignInv
    <3>2. InBounds(d)' /\ ClosedIsOver(d)' /\ OneRunAfterHalt(d)'
      BY <1>2, <3>1 DEF vars, InBounds, ClosedIsOver, OneRunAfterHalt, RunAfter, Running, AtWork
    <3>3. FreshPrograms(d)' /\ EvaluatedOnce(d)'
      BY <1>2, <3>1 DEF vars, FreshPrograms, EvaluatedOnce, AtWork, Running
    <3>4. SlotsAreCollected(d)' /\ GenerationsAreRecorded(d)'
      BY <1>2, <3>1 DEF vars, SlotsAreCollected, GenerationsAreRecorded, Unharmed, Collected, Counted,
                        Done, RecordedRuns, AtWork, Running
    <3> QED
      BY <3>2, <3>3, <3>4
  <2> QED
    BY <2>1, <2>2 DEF CampaignInv
<1> QED
  BY <1>1, <1>2

LEMMA InvHolds == Spec => []CampaignInv
  BY InitInv, StepInv, PTL DEF Spec

\* The variables of a campaign have their types, and no candidate is of a
\* generation or a slot that was not asked for.
THEOREM TypeCorrect == Spec => []TypeOK
<1>1. CampaignInv => TypeOK
  <2> SUFFICES ASSUME CampaignInv, NEW c \in Campaigns
               PROVE  /\ pc \in [Campaigns -> Places]
                      /\ gen[c] \in 0..Generations[c] /\ stopped[c] \in BOOLEAN
                      /\ ending[c] \in {"closed", "halted", "exhausted", "failed"}
                      /\ halter[c] \in {"idle", "asking", "told closed", "told halting"}
                      /\ \A i \in DOMAIN slots[c] : slots[c][i].state \in SlotStates
                      /\ \A k \in cands[c] : k.gen < Generations[c] /\ k.index \in Slots(c)
    BY DEF TypeOK, CampaignInv, Typed
  <2>1. Typed /\ InBounds(c)
    BY DEF CampaignInv
  <2>2. \A i \in DOMAIN slots[c] : slots[c][i].state \in SlotStates
    BY <2>1 DEF Typed, SlotRecords
  <2>3. \A k \in cands[c] : k.gen < Generations[c] /\ k.index \in Slots(c)
    BY <2>1 DEF InBounds
  <2>4. gen[c] \in 0..Generations[c]
    BY <2>1, CampaignConstants DEF Typed, InBounds
  <2>5. ending[c] \in Endings /\ halter[c] \in Halters /\ stopped[c] \in BOOLEAN
    BY <2>1 DEF Typed
  <2> QED
    BY <2>1, <2>2, <2>3, <2>4, <2>5 DEF Typed, Endings, Halters
<1> QED
  BY <1>1, InvHolds, PTL

\* Nothing is written to a campaign after its end: a halt that loses the race with the
\* close is refused under the lock of the ledger.
THEOREM ClosesAreFinal == Spec => []NothingAfterClose
<1>1. CampaignInv => NothingAfterClose
  BY DEF CampaignInv, ClosedIsOver, NothingAfterClose
<1> QED
  BY <1>1, InvHolds, PTL

\* After a halt is on the ledger at most the generation whose boundary was already passed
\* is run, whenever it was asked for and by however many processes.
THEOREM HaltsAreHonoured == Spec => []HaltHonoured
<1>1. CampaignInv => HaltHonoured
  <2> SUFFICES ASSUME CampaignInv, NEW c \in Campaigns, NEW h \in DOMAIN events[c],
                      events[c][h].kind = "halt"
               PROVE  Cardinality(RunAfter(c, h)) <= 1
    BY DEF HaltHonoured, RunAfter
  <2>1. \A i, j \in RunAfter(c, h) : i = j
    BY DEF CampaignInv, OneRunAfterHalt
  <2>2. CASE RunAfter(c, h) = {}
    BY <2>2, FS_EmptySet
  <2>3. CASE RunAfter(c, h) # {}
    <3>1. PICK i \in RunAfter(c, h) : TRUE
      BY <2>3
    <3>2. RunAfter(c, h) = {i}
      BY <2>1, <3>1
    <3>3. Cardinality({i}) = 1
      BY FS_Singleton
    <3> QED
      BY <3>2, <3>3
  <2> QED
    BY <2>2, <2>3
<1> QED
  BY <1>1, InvHolds, PTL

\* A campaign that is over has on the ledger a candidate for every slot of every
\* generation it counts; one that did not fail has no other and nothing in flight.
THEOREM CandidatesAreCollected == Spec => []EveryCandidateCollected
<1>1. CampaignInv => EveryCandidateCollected
  BY DEF CampaignInv, InBounds, SlotsAreCollected, Unharmed, EveryCandidateCollected
<1> QED
  BY <1>1, InvHolds, PTL

\* No program is evaluated twice in a campaign, whatever its operators propose.
THEOREM ProgramsAreEvaluatedOnce == Spec => []NoProgramTwice
<1>1. CampaignInv => NoProgramTwice
  BY DEF CampaignInv, EvaluatedOnce, NoProgramTwice
<1> QED
  BY <1>1, InvHolds, PTL

\* How many there are from zero or from one.
LEMMA IntervalCounted ==
    ASSUME NEW n \in Nat
    PROVE  /\ IsFiniteSet(0..n)
           /\ IsFiniteSet(0..(n - 1)) /\ Cardinality(0..(n - 1)) = n
           /\ IsFiniteSet(1..n) /\ Cardinality(1..n) = n
<1>1. n \in Int /\ n - 1 \in Int /\ 0 \in Int /\ 1 \in Int
  OBVIOUS
<1>2. \A a, b \in Int : IsFiniteSet(a..b) /\ Cardinality(a..b) = IF a > b THEN 0 ELSE b - a + 1
  BY FS_Interval
<1>3. IsFiniteSet(0..n) /\ IsFiniteSet(0..(n - 1)) /\ IsFiniteSet(1..n)
  BY <1>1, <1>2
<1>4. Cardinality(0..(n - 1)) = n
  BY <1>1, <1>2
<1>5. Cardinality(1..n) = n
  BY <1>1, <1>2
<1> QED
  BY <1>3, <1>4, <1>5

\* The candidates of the generations that were run, counted.
LEMMA CandidatesCounted ==
    ASSUME CampaignInv, NEW c \in Campaigns, Unharmed(c)
    PROVE  Cardinality(cands[c]) = gen[c] * Population[c]
<1>1. /\ gen[c] \in Nat /\ Population[c] \in Nat /\ IsFiniteSet(cands[c])
      /\ Collected(c) = Counted(c)
      /\ \A j, k \in cands[c] : j.gen = k.gen /\ j.index = k.index => j = k
  BY CampaignConstants DEF CampaignInv, Typed, SlotsAreCollected
<1>2. IsFiniteSet(0..(gen[c] - 1)) /\ Cardinality(0..(gen[c] - 1)) = gen[c]
  BY <1>1, IntervalCounted
<1>3. IsFiniteSet(Slots(c)) /\ Cardinality(Slots(c)) = Population[c]
  BY <1>1, IntervalCounted DEF Slots
<1>4. IsFiniteSet(Counted(c)) /\ Cardinality(Counted(c)) = gen[c] * Population[c]
  BY <1>2, <1>3, FS_Product DEF Counted
<1> DEFINE f == [k \in cands[c] |-> <<k.gen, k.index>>]
<1>5. f \in Bijection(cands[c], Collected(c))
  BY <1>1 DEF Bijection, Injection, Surjection, IsInjective, Collected
<1>6. Cardinality(cands[c]) = Cardinality(Collected(c))
  BY <1>1, <1>5, FS_Bijection DEF ExistsBijection
<1> QED
  BY <1>1, <1>4, <1>6

\* What `evolve run` answers for a campaign that did not fail is what the fold of its
\* ledger shows.
THEOREM AnswersAgree == Spec => []GenerationsAgree
<1>1. CampaignInv => GenerationsAgree
  <2> SUFFICES ASSUME CampaignInv, NEW c \in Campaigns, pc[c] = "over", ending[c] # "failed"
               PROVE  Reported(c) = GenerationsRun(c)
    BY DEF GenerationsAgree
  <2>1. /\ gen[c] \in Nat /\ Population[c] \in Nat \ {0} /\ Generations[c] \in Nat
        /\ gen[c] <= Generations[c] /\ Unharmed(c)
    BY CampaignConstants DEF CampaignInv, Typed, InBounds, Unharmed
  <2>2. Cardinality(cands[c]) \div Population[c] = gen[c]
    <3>1. Cardinality(cands[c]) = gen[c] * Population[c]
      BY <2>1, CandidatesCounted
    <3>2. \A g \in Nat, p \in Nat \ {0} : (g * p) \div p = g
      OBVIOUS
    <3> QED
      BY <2>1, <3>1, <3>2
  <2>3. Reported(c) = gen[c]
    BY <2>1, <2>2 DEF Reported
  <2> DEFINE runs == {i \in DOMAIN events[c] : CountsAsRun(events[c][i])}
             ends == {0} \cup {events[c][i].gen + 1 : i \in runs}
  <2>4. ends = 0..gen[c]
    <3>1. {events[c][i].gen : i \in runs} = 0..(gen[c] - 1)
      BY <2>1 DEF CampaignInv, GenerationsAreRecorded, RecordedRuns
    <3>2. {events[c][i].gen + 1 : i \in runs} = {g + 1 : g \in {events[c][i].gen : i \in runs}}
      OBVIOUS
    <3>3. {g + 1 : g \in 0..(gen[c] - 1)} = 1..gen[c]
      BY <2>1
    <3>4. {0} \cup (1..gen[c]) = 0..gen[c]
      BY <2>1
    <3> QED
      BY <3>1, <3>2, <3>3, <3>4
  <2>5. Max(0..gen[c]) = gen[c]
    <3>1. IsFiniteSet(0..gen[c])
      BY <2>1, IntervalCounted
    <3>2. Max(0..gen[c]) \in 0..gen[c] /\ gen[c] <= Max(0..gen[c])
      BY <2>1, <3>1, MaxOfNaturals
    <3> QED
      BY <2>1, <3>2
  <2>6. GenerationsRun(c) = Max(ends)
    BY DEF GenerationsRun
  <2> HIDE DEF ends
  <2> QED
    BY <2>3, <2>4, <2>5, <2>6
<1> QED
  BY <1>1, InvHolds, PTL

-----------------------------------------------------------------------------
(* The bound on the spend.                                                 *)

\* The larger of two factors makes the larger product.
LEMMA ProductGrows ==
    ASSUME NEW a \in Nat, NEW b \in Nat, a <= b, NEW d \in Nat
    PROVE  a * d \in Nat /\ b * d \in Nat /\ a * d <= b * d
<1>1. PICK n \in Nat : b = a + n
  OBVIOUS
<1>2. b * d = a * d + n * d
  BY <1>1
<1>3. a * d \in Nat /\ n * d \in Nat
  OBVIOUS
<1> QED
  BY <1>2, <1>3

\* No evaluation of a campaign costs more than the dearest.
LEMMA DearestIs ==
    ASSUME NEW c \in Campaigns
    PROVE  Dearest(c) \in Nat /\ \A cost \in Actual[c] \cup {0} : cost \in Nat /\ cost <= Dearest(c)
<1>1. Actual[c] \subseteq Nat /\ Actual[c] # {} /\ IsFiniteSet(Actual[c])
  BY CampaignConstants
<1>2. Max(Actual[c]) \in Actual[c] /\ \A x \in Actual[c] : x <= Max(Actual[c])
  BY <1>1, MaxOfNaturals
<1> QED
  BY <1>1, <1>2 DEF Dearest

LEMMA BookedIsNatural ==
    ASSUME Typed, NEW c \in Campaigns
    PROVE  Booked(c) \in Nat
<1> DEFINE cost == [k \in cands[c] |-> k.cost]
<1>1. cands[c] \subseteq CandidateRecords /\ IsFiniteSet(cands[c])
  BY DEF Typed
<1>2. \A k \in cands[c] : cost[k] \in Nat
  BY <1>1 DEF CandidateRecords
<1>3. cands[c] \in SUBSET cands[c]
  OBVIOUS
<1> HIDE DEF cost
<1>4. SumFunctionOnSet(cost, cands[c]) \in Nat
  BY <1>1, <1>2, <1>3, SumPart
<1> QED
  BY <1>4 DEF Booked, cost

\* What one more candidate adds to the bookings of its campaign.
LEMMA BookedGrows ==
    ASSUME Typed, Typed', NEW c \in Campaigns, NEW k \in CandidateRecords, cands'[c] = cands[c] \cup {k}
    PROVE  Booked(c)' <= Booked(c) + k.cost
<1> DEFINE old == [x \in cands[c] |-> x.cost]
           new == [x \in cands[c] \cup {k} |-> x.cost]
<1>1. cands[c] \subseteq CandidateRecords /\ IsFiniteSet(cands[c]) /\ k.cost \in Nat
  BY DEF Typed, CandidateRecords
<1>2. \A x \in cands[c] \cup {k} : x.cost \in Nat
  BY <1>1 DEF CandidateRecords
<1>3. Booked(c)' = SumFunctionOnSet(new, cands[c] \cup {k}) /\ Booked(c) = SumFunctionOnSet(old, cands[c])
  BY DEF Booked
<1>4. SumFunctionOnSet(old, cands[c]) \in Nat
  BY <1>3, BookedIsNatural
<1>5. CASE k \in cands[c]
  <2>1. cands[c] \cup {k} = cands[c]
    BY <1>5
  <2> QED
    BY <1>1, <1>3, <1>4, <2>1
<1>6. CASE k \notin cands[c]
  <2>1. \A x \in cands[c] \cup {k} : new[x] \in Int
    BY <1>2
  <2>2. \A x \in cands[c] : old[x] \in Int /\ new[x] = old[x]
    BY <1>2
  <2>3. new[k] = k.cost
    OBVIOUS
  <2> HIDE DEF old, new
  <2>4. SumFunctionOnSet(new, cands[c] \cup {k}) = new[k] + SumFunctionOnSet(new, cands[c])
    BY <1>1, <1>6, <2>1, SumAdd
  <2>5. SumFunctionOnSet(old, cands[c]) = SumFunctionOnSet(new, cands[c])
    BY <1>1, <2>2, SumSame
  <2> QED
    BY <1>1, <1>3, <1>4, <2>3, <2>4, <2>5
<1> QED
  BY <1>5, <1>6

\* A generation can cost what all of its slots can.
LEMMA CommittedIsBounded ==
    ASSUME NEW c \in Campaigns
    PROVE  /\ Committed(c) \in Nat /\ Population[c] * Dearest(c) \in Nat
           /\ Committed(c) <= Population[c] * Dearest(c)
<1>1. Population[c] \in Nat /\ Dearest(c) \in Nat
  BY CampaignConstants, DearestIs
<1>2. IsFiniteSet(Slots(c)) /\ Cardinality(Slots(c)) = Population[c]
  BY <1>1, IntervalCounted DEF Slots
<1>3. /\ Cardinality(Slots(c) \ Done(c)) \in Nat
      /\ Cardinality(Slots(c) \ Done(c)) <= Population[c]
  BY <1>2, FS_Subset, FS_CardinalityType
<1>4. /\ Cardinality(Slots(c) \ Done(c)) * Dearest(c) \in Nat
      /\ Cardinality(Slots(c) \ Done(c)) * Dearest(c) <= Population[c] * Dearest(c)
      /\ Population[c] * Dearest(c) \in Nat
  BY <1>1, <1>3, ProductGrows
<1> QED
  BY <1>4 DEF Committed

\* The same of all campaigns, in this state and in the next.
LEMMA AllBooked == Typed => \A d \in Campaigns : Booked(d) \in Nat
  BY BookedIsNatural

LEMMA AllCommitted ==
    /\ \A d \in Campaigns : Committed(d) \in Nat
    /\ \A d \in Campaigns : Committed(d) <= Population[d] * Dearest(d)
  BY CommittedIsBounded

\* One slot less is one evaluation less.
LEMMA OneSlotLess ==
    ASSUME NEW T, IsFiniteSet(T), NEW i \in T, NEW d \in Nat
    PROVE  /\ Cardinality(T) * d \in Nat /\ Cardinality(T \ {i}) * d \in Nat
           /\ Cardinality(T \ {i}) * d + d = Cardinality(T) * d
<1>1. Cardinality(T) \in Nat /\ Cardinality(T \ {i}) \in Nat /\ Cardinality(T \ {i}) = Cardinality(T) - 1
  BY FS_CardinalityType, FS_RemoveElement
<1>2. \A n, m \in Nat : m = n - 1 => m * d + d = n * d
  OBVIOUS
<1>3. \A n \in Nat : n * d \in Nat
  OBVIOUS
<1> QED
  BY <1>1, <1>2, <1>3

\* What a campaign has booked and may still come to is no more after a step than before,
\* unless the step passes the gate of a generation.
LEMMA LoadShrinks ==
    ASSUME Typed, NEW c \in Campaigns, InBounds(c), Effect(c), ~ (pc[c] = "budget" /\ pc'[c] = "propose")
    PROVE  Booked(c)' + Committed(c)' <= Booked(c) + Committed(c)
<1>1. /\ Booked(c) \in Nat /\ Booked(c)' \in Nat /\ Committed(c) \in Nat /\ Committed(c)' \in Nat
      /\ Typed'
  <2>1. Typed'
    BY DEF Effect
  <2>2. (\A d \in Campaigns : Booked(d) \in Nat)'
    BY <2>1, AllBooked, PTL
  <2>3. (\A d \in Campaigns : Committed(d) \in Nat)'
    BY AllCommitted, PTL
  <2> QED
    BY <2>1, <2>2, <2>3, BookedIsNatural, CommittedIsBounded
<1>2. CASE Moves(c) \/ Breaks(c) \/ Logs(c)
  <2>1. Booked(c)' = Booked(c)
    BY <1>2 DEF Moves, Breaks, Logs, LedgersStand, Booked
  <2>2. AtWork(c)' => AtWork(c) /\ slots'[c] = slots[c]
    BY <1>2, WorkGoesOn
  <2>3. pc'[c] = "propose" => pc[c] = "propose"
    BY <1>2 DEF Moves, Breaks, Logs
  <2>4. AtWork(c) => pc[c] # "propose"
    BY DEF AtWork
  <2>5. Committed(c)' = 0 \/ Committed(c)' = Committed(c)
    BY <2>2, <2>3, <2>4 DEF Committed, Done
  <2> QED
    BY <1>1, <2>1, <2>5
<1>3. CASE Proposes(c)
  <2>1. Booked(c)' = Booked(c) /\ pc[c] = "propose" /\ pc'[c] = "evaluate"
    BY <1>3 DEF Proposes, LedgersStand, Booked
  <2>2. Committed(c) = Population[c] * Dearest(c)
    BY <2>1 DEF Committed
  <2>3. (\A d \in Campaigns : Committed(d) <= Population[d] * Dearest(d))'
    BY AllCommitted, PTL
  <2> QED
    BY <1>1, <2>1, <2>2, <2>3
<1>4. CASE Evaluates(c)
  <2>1. DOMAIN slots[c] = Slots(c) /\ AtWork(c) /\ pc[c] # "propose" /\ pc'[c] = pc[c]
    BY <1>4 DEF Evaluates, InBounds, AtWork
  <2>2. PICK i \in Slots(c), state \in {"running", "raised", "done"} :
          /\ slots[c][i].state \in {"waiting", "running"}
          /\ \A j \in Slots(c) : slots'[c][j].state = IF j = i THEN state ELSE slots[c][j].state
          /\ \/ state # "done" /\ cands'[c] = cands[c]
             \/ /\ state = "done"
                /\ \E skipped \in BOOLEAN, cost \in Actual[c] \cup {0} :
                      cands'[c] = cands[c] \cup {Candidate(c, i, skipped, cost)}
    BY <1>4, <2>1 DEF Evaluates
  <2>3. /\ Committed(c) = Cardinality(Slots(c) \ Done(c)) * Dearest(c)
        /\ Committed(c)' \in {0, Cardinality(Slots(c) \ Done(c)') * Dearest(c)}
    BY <2>1 DEF Committed
  <2>4. CASE state # "done"
    <3>1. Done(c)' = Done(c) /\ Booked(c)' = Booked(c)
      BY <2>2, <2>4 DEF Done, Booked
    <3> QED
      BY <1>1, <2>3, <3>1
  <2>5. CASE state = "done"
    <3>1. PICK skipped \in BOOLEAN, cost \in Actual[c] \cup {0} :
             cands'[c] = cands[c] \cup {Candidate(c, i, skipped, cost)}
      BY <2>2, <2>5
    <3> DEFINE k == Candidate(c, i, skipped, cost)
    <3>2. cost \in Nat /\ cost <= Dearest(c) /\ Dearest(c) \in Nat
      BY DearestIs
    <3>3. k \in CandidateRecords /\ k.cost = cost
      BY <2>1, <3>2, CandidateIsTyped
    <3> HIDE DEF k
    <3>4. Booked(c)' <= Booked(c) + cost
      BY <1>1, <3>1, <3>3, BookedGrows DEF k
    <3>5. Slots(c) \ Done(c)' = (Slots(c) \ Done(c)) \ {i} /\ i \in Slots(c) \ Done(c)
      BY <2>2, <2>5 DEF Done
    <3>6. IsFiniteSet(Slots(c) \ Done(c))
      BY CampaignConstants, IntervalCounted, FS_Subset DEF Slots
    <3>7. Committed(c)' + Dearest(c) <= Committed(c)
      <4> DEFINE T == Slots(c) \ Done(c)
      <4>1. /\ Cardinality(T \ {i}) * Dearest(c) + Dearest(c) = Cardinality(T) * Dearest(c)
            /\ Cardinality(T \ {i}) * Dearest(c) \in Nat
        BY <3>2, <3>5, <3>6, OneSlotLess
      <4>2. Committed(c)' \in {0, Cardinality(T \ {i}) * Dearest(c)}
        BY <2>3, <3>5
      <4>3. Committed(c) = Cardinality(T) * Dearest(c)
        BY <2>3
      <4> QED
        BY <1>1, <3>2, <4>1, <4>2, <4>3
    <3> QED
      BY <1>1, <3>2, <3>4, <3>7
  <2> QED
    BY <2>4, <2>5
<1> QED
  BY <1>2, <1>3, <1>4 DEF Effect

\* The total of what is booked and what the generations in progress may still cost.
LEMMA AllLoads ==
    Typed => \A d \in Campaigns : Loads[d] \in Nat /\ Loads[d] = Booked(d) + Committed(d)
  BY BookedIsNatural, CommittedIsBounded DEF Loads

LEMMA ExposureIsNatural == Typed => Exposure \in Nat
<1>1. IsFiniteSet(Campaigns) /\ Campaigns \in SUBSET Campaigns
  BY CampaignAssumption
<1> QED
  BY <1>1, AllLoads, SumPart DEF Exposure

\* The least a generation is estimated at, where there is a campaign at all.
LEMMA LeastIsLeast ==
    ASSUME NEW c \in Campaigns
    PROVE  LeastAdmitted \in Nat /\ LeastAdmitted <= Population[c] * Estimate[c]
<1> DEFINE P == {Population[d] * Estimate[d] : d \in Campaigns}
<1>1. P \in SUBSET Nat /\ P # {} /\ Population[c] * Estimate[c] \in P
  BY CampaignConstants
<1> HIDE DEF P
<1>2. Min(P) \in P /\ \A x \in P : Min(P) <= x
  BY <1>1, MinOfNaturals
<1>3. LeastAdmitted = Min(P)
  BY DEF LeastAdmitted, P
<1> QED
  BY <1>1, <1>2, <1>3

\* What passes the gate of a generation leaves room for the least a generation is
\* estimated at.
LEMMA GateLeavesRoom ==
    ASSUME Typed, NEW c \in Campaigns, gen[c] < Generations[c], Fits(c, gen[c]), ProjectSpend \in Nat
    PROVE  LeastAdmitted \in Nat /\ ProjectSpend + LeastAdmitted <= Ceiling
<1>1. /\ Population[c] \in Nat /\ Estimate[c] \in Nat /\ Generations[c] \in Nat /\ gen[c] \in Nat
      /\ Ceiling \in Nat
  BY CampaignConstants, CampaignAssumption DEF Typed
<1>3. LeastAdmitted \in Nat /\ LeastAdmitted <= Population[c] * Estimate[c]
  BY LeastIsLeast
<1>4. Left(c, gen[c]) \in Nat /\ Population[c] <= Left(c, gen[c])
  <2>1. Generations[c] - gen[c] \in Nat /\ 1 <= Generations[c] - gen[c]
    BY <1>1
  <2>2. 1 * Population[c] <= (Generations[c] - gen[c]) * Population[c]
    BY <1>1, <2>1, ProductGrows
  <2> QED
    BY <1>1, <2>1, <2>2, ProductGrows DEF Left
<1>5. /\ Population[c] * Estimate[c] \in Nat /\ Left(c, gen[c]) * Estimate[c] \in Nat
      /\ Population[c] * Estimate[c] <= Left(c, gen[c]) * Estimate[c]
  BY <1>1, <1>4, ProductGrows
<1>6. ProjectSpend + Left(c, gen[c]) * Estimate[c] <= Ceiling
  BY DEF Fits
<1> QED
  BY <1>1, <1>3, <1>5, <1>6

\* The bookings of the project and all that its campaigns can have in progress.
LEMMA SpendAndProgress ==
    Typed => /\ ProjectSpend \in Nat /\ InProgress \in Nat
             /\ ProjectSpend <= Exposure /\ Exposure <= ProjectSpend + InProgress
<1> SUFFICES ASSUME Typed
             PROVE  /\ ProjectSpend \in Nat /\ InProgress \in Nat
                    /\ ProjectSpend <= Exposure /\ Exposure <= ProjectSpend + InProgress
  OBVIOUS
<1> DEFINE b == [d \in Campaigns |-> Booked(d)]
           w == [d \in Campaigns |-> Population[d] * Max(Actual[d])]
           both == [d \in Campaigns |-> Booked(d) + Population[d] * Max(Actual[d])]
           Sum(f) == SumFunctionOnSet(f, Campaigns)
<1>1. ProjectSpend = Sum(b) /\ InProgress = Sum(w) /\ Exposure = Sum(Loads)
  BY DEF ProjectSpend, InProgress, Exposure
<1>2. \A d \in Campaigns : /\ Booked(d) \in Nat /\ Committed(d) \in Nat
                            /\ Population[d] * Dearest(d) \in Nat
                            /\ Committed(d) <= Population[d] * Dearest(d)
  BY BookedIsNatural, CommittedIsBounded
<1>3. \A d \in Campaigns : /\ b[d] \in Nat /\ w[d] \in Nat /\ both[d] = b[d] + w[d]
                            /\ Loads[d] \in Nat /\ b[d] <= Loads[d] /\ Loads[d] <= both[d]
  BY <1>2 DEF Loads, Dearest
<1>4. IsFiniteSet(Campaigns) /\ Campaigns \in SUBSET Campaigns
  BY CampaignAssumption
<1> HIDE DEF b, w, both
<1>5. Sum(b) \in Nat /\ Sum(w) \in Nat
  BY <1>3, <1>4, SumPart
<1>6. Sum(b) <= Sum(Loads)
  BY <1>3, <1>4, SumMonotone
<1>7. Sum(Loads) <= Sum(both)
  <2>1. \A d \in Campaigns : Loads[d] \in Int /\ both[d] \in Int /\ Loads[d] <= both[d]
    BY <1>3
  <2> QED
    BY <1>4, <2>1, SumMonotone
<1>8. Sum(both) = Sum(b) + Sum(w)
  <2>1. \A d \in Campaigns : b[d] \in Int /\ w[d] \in Int /\ both[d] = b[d] + w[d]
    BY <1>3
  <2> QED
    BY <1>4, <2>1, SumPlus
<1> QED
  BY <1>1, <1>5, <1>6, <1>7, <1>8

LEMMA ExposureStep ==
    ASSUME CampaignInv, ExposureBounded, [Next]_vars
    PROVE  ExposureBounded'
<1>1. Typed /\ Typed'
  BY StepInv DEF CampaignInv
<1>2. Exposure \in Nat /\ Exposure' \in Nat
  <2>1. (Exposure \in Nat)'
    BY <1>1, ExposureIsNatural, PTL
  <2> QED
    BY <1>1, <2>1, ExposureIsNatural
<1>3. CASE UNCHANGED vars
  BY <1>3 DEF vars, ExposureBounded, Exposure, Loads, Booked, Committed, Done, AtWork, Running
<1>4. ASSUME NEW c \in Campaigns, Acts(c) PROVE ExposureBounded'
  <2>1. Effect(c) /\ InBounds(c)
    BY <1>1, <1>4, StepEffect DEF CampaignInv
  <2>2. ASSUME NEW d \in Campaigns \ {c} PROVE Booked(d)' = Booked(d) /\ Committed(d)' = Committed(d)
    BY <2>1 DEF Effect, Elsewhere, Booked, Committed, Done, AtWork, Running
  <2>3. CASE ~ (pc[c] = "budget" /\ pc'[c] = "propose")
    <3>1. Booked(c)' + Committed(c)' <= Booked(c) + Committed(c)
      BY <1>1, <2>1, <2>3, LoadShrinks
    <3>2. Exposure' <= Exposure
      <4>1. \A d \in Campaigns : Loads[d] \in Nat /\ Loads[d] = Booked(d) + Committed(d)
        BY <1>1, AllLoads
      <4>2. (\A d \in Campaigns : Loads[d] \in Nat /\ Loads[d] = Booked(d) + Committed(d))'
        BY <1>1, AllLoads, PTL
      <4>3. \A d \in Campaigns : Loads[d] \in Int /\ Loads'[d] \in Int /\ Loads'[d] <= Loads[d]
        BY <2>2, <3>1, <4>1, <4>2
      <4>4. IsFiniteSet(Campaigns)
        BY CampaignAssumption
      <4> QED
        BY <4>3, <4>4, SumMonotone DEF Exposure
    <3>3. ExposureBounded' <=> Exposure' = 0 \/ Exposure' <= Ceiling + InProgress - LeastAdmitted
      BY DEF ExposureBounded, InProgress, LeastAdmitted
    <3>4. Ceiling \in Nat /\ InProgress \in Nat /\ LeastAdmitted \in Nat
      BY <1>1, CampaignAssumption, SpendAndProgress, LeastIsLeast
    <3> QED
      BY <1>2, <3>2, <3>3, <3>4 DEF ExposureBounded
  <2>4. CASE pc[c] = "budget" /\ pc'[c] = "propose"
    <3>1. Fits(c, gen[c]) /\ gen[c] < Generations[c] /\ cands'[c] = cands[c]
      BY <2>1, <2>4 DEF Effect, Moves, Breaks, Logs, Proposes, Evaluates, LedgersStand, InBounds
    <3>2. \A d \in Campaigns : Booked(d)' = Booked(d)
      BY <2>2, <3>1 DEF Booked
    <3>3. ProjectSpend' = ProjectSpend
      BY <3>2 DEF ProjectSpend
    <3>4. ProjectSpend \in Nat /\ InProgress \in Nat
      BY <1>1, SpendAndProgress
    <3>5. LeastAdmitted \in Nat /\ ProjectSpend + LeastAdmitted <= Ceiling
      BY <1>1, <3>1, <3>4, GateLeavesRoom
    <3>6. (Exposure <= ProjectSpend + InProgress)'
      BY <1>1, SpendAndProgress, PTL
    <3>7. InProgress' = InProgress /\ LeastAdmitted' = LeastAdmitted /\ Ceiling \in Nat
      BY CampaignAssumption DEF InProgress, LeastAdmitted
    <3> QED
      BY <1>2, <3>3, <3>4, <3>5, <3>6, <3>7 DEF ExposureBounded
  <2> QED
    BY <2>3, <2>4
<1> QED
  BY <1>3, <1>4, NextIsAct

\* What the project has booked to its campaigns never passes its ceiling by more than the
\* generations in progress, less the least a generation is estimated at: however many
\* campaigns run, however their steps fall, whatever their evaluations come to cost.
THEOREM SpendIsBounded == Spec => []SpendBounded
<1>1. Init => ExposureBounded
  <2> SUFFICES ASSUME Init PROVE Exposure = 0
    BY DEF ExposureBounded
  <2>1. \A d \in Campaigns : Booked(d) = 0 /\ Committed(d) = 0
    BY SumEmpty DEF Init, Booked, Committed, AtWork
  <2>2. \A d \in Campaigns : Loads[d] = 0
    BY <2>1 DEF Loads
  <2> DEFINE none == [d \in Campaigns |-> 0]
  <2>3. \A d \in Campaigns : none[d] \in Int /\ Loads[d] = IF d \in {} THEN none[d] ELSE 0
    BY <2>2
  <2>4. IsFiniteSet(Campaigns) /\ {} \in SUBSET Campaigns
    BY CampaignAssumption
  <2> HIDE DEF none
  <2>5. SumFunctionOnSet(Loads, Campaigns) = SumFunctionOnSet(none, {})
    BY <2>3, <2>4, SumZeros
  <2> QED
    BY <2>5, SumEmpty DEF Exposure
<1>2. CampaignInv /\ ExposureBounded /\ [Next]_vars => ExposureBounded'
  BY ExposureStep
<1>3. CampaignInv /\ ExposureBounded => SpendBounded
  <2> SUFFICES ASSUME CampaignInv, ExposureBounded, ProjectSpend > Ceiling
               PROVE  ProjectSpend <= Ceiling + InProgress - LeastAdmitted
    BY DEF SpendBounded
  <2>1. Typed /\ Ceiling \in Nat
    BY CampaignAssumption DEF CampaignInv
  <2>2. ProjectSpend \in Nat /\ InProgress \in Nat /\ ProjectSpend <= Exposure /\ Exposure \in Nat
    BY <2>1, SpendAndProgress, ExposureIsNatural
  <2>3. Exposure # 0
    BY <2>1, <2>2
  <2>4. Exposure <= Ceiling + InProgress - LeastAdmitted
    BY <2>3 DEF ExposureBounded
  <2>5. Campaigns # {}
    BY <2>3, SumEmpty DEF Exposure
  <2>6. LeastAdmitted \in Nat
    BY <2>5, LeastIsLeast
  <2> QED
    BY <2>1, <2>2, <2>4, <2>6
<1> QED
  BY <1>1, <1>2, <1>3, InvHolds, PTL DEF Spec

=============================================================================
