------------------------------ MODULE JsonlLog -------------------------------
(***************************************************************************)
(* One append-only ledger file as core/jsonl.py writes and reads it.       *)
(*                                                                         *)
(* A thread of some process appends one record: it takes the in-process    *)
(* mutex of the path, opens the file, takes the operating system's lock,   *)
(* evaluates the caller's precondition against what `read` returns, writes *)
(* the line, flushes it and lets go.  The line reaches the file in pieces: *)
(* a process that dies, or a disk that fills, leaves a torn one.           *)
(*                                                                         *)
(* The file is a sequence of pieces.  A record's line is its opening half, *)
(* its closing half and the newline; what is inside the halves is left     *)
(* out, except that the halves of a record in Wide meet inside a character *)
(* of several bytes: lines are written with ensure_ascii=False.  A line    *)
(* parses when it is the two halves of one record, and a final line that   *)
(* has lost only its newline still parses, as json.loads of it does.       *)
(***************************************************************************)
EXTENDS Integers, Sequences, SequencesExt

CONSTANTS
    Threads,        \* the threads that append, each one record
    ProcessOf,      \* the process a thread belongs to
    ClaimOf,        \* the claim the record of a thread makes
    NoClaim,        \* that of a record appended without a precondition
    Wide,           \* the threads whose record is cut inside a character, if cut
    Nobody,         \* the holder of a free lock
    MayTear,        \* whether a write may be cut short
    CloseRetries    \* whether the flush that closing a file repeats may succeed

ASSUME LogAssumption ==
    /\ IsFiniteSet(Threads)
    /\ MayTear \in BOOLEAN /\ CloseRetries \in BOOLEAN
    /\ Wide \subseteq Threads
    /\ Nobody \notin Threads \cup {ProcessOf[t] : t \in Threads}

Processes == {ProcessOf[t] : t \in Threads}
Pieces    == {"open", "close", "newline"}

VARIABLES
    file,           \* the pieces on disk
    mutex,          \* per process, the thread inside `_thread_lock(path)`
    osLock,         \* the process that holds the lock on the file
    at              \* where each thread is in `append`

vars == <<file, mutex, osLock, at>>

Cuts  == {"cut at open", "cut at close", "cut at newline", "cut at sync"}
Steps == {"out", "waiting", "locked", "checked", "half", "whole", "flushed",
          "unlocked", "returned", "refused", "failed"} \cup Cuts

-----------------------------------------------------------------------------
(* Reading: iter_records.                                                  *)

\* Where a well-formed line ends: in the closing half of a record whose other half
\* starts the line, with nothing but a newline after it.
Parsed ==
    {i \in 2 .. Len(file) :
        /\ file[i].part = "close"
        /\ file[i - 1] = [by |-> file[i].by, part |-> "open"]
        /\ i = 2 \/ file[i - 2].part = "newline"
        /\ i = Len(file) \/ file[i + 1].part = "newline"}

\* Where a line starts that is not a well-formed one.
Broken == {i \in 1 .. Len(file) : file[i].part = "open" /\ i + 1 \notin Parsed}

\* Mutant: the reader gives up on the rest of the file at a line that does not parse.
WellFormedUntilBroken ==
    LET upTo[n \in 0 .. Len(file)] ==
            IF n = 0 THEN <<>>
            ELSE IF n \in Parsed /\ Broken \cap (1 .. n) = {} THEN Append(upTo[n - 1], file[n].by)
            ELSE upTo[n - 1]
    IN  upTo[Len(file)]

\* The records of the lines that parse, oldest first.
WellFormed ==
    LET upTo[n \in 0 .. Len(file)] ==
            IF n = 0 THEN <<>>
            ELSE IF n \in Parsed THEN Append(upTo[n - 1], file[n].by)
            ELSE upTo[n - 1]
    IN  upTo[Len(file)]

\* The file is UTF-8: no line stops in the middle of a character.
Decodes ==
    \A i \in 1 .. Len(file) :
        file[i].part = "open" /\ file[i].by \in Wide =>
            i < Len(file) /\ file[i + 1] = [by |-> file[i].by, part |-> "close"]

\* What comes of `read`.  A line that does not parse is skipped; one that does not
\* decode raises UnicodeDecodeError, which the handler of JSONDecodeError lets pass.
Read == [raises |-> ~Decodes, records |-> IF Decodes THEN WellFormed ELSE <<>>]

\* Mutant: only the end of the file is looked at.
DamagedTail ==
    [raises |-> ~Decodes,
     lines  |-> IF Decodes /\ file # <<>> /\ Last(file).part # "newline" THEN {Len(file)} ELSE {}]

\* What comes of `damaged_lines`, which decodes in the same way: the lines that do not
\* parse, or the exception.
Damaged == [raises |-> ~Decodes, lines |-> IF Decodes THEN Broken ELSE {}]

-----------------------------------------------------------------------------
(* Appending.                                                              *)

Put(t, p) == file' = Append(file, [by |-> t, part |-> p])

Go(t, from, to) == at[t] = from /\ at' = [at EXCEPT ![t] = to]

Init ==
    /\ file = <<>>
    /\ mutex = [p \in Processes |-> Nobody]
    /\ osLock = Nobody
    /\ at = [t \in Threads |-> "out"]

\* Mutant: no mutex, as if the lock of the file kept threads apart too.
EnterFreely(t) ==
    /\ Go(t, "out", "waiting")
    /\ mutex' = [mutex EXCEPT ![ProcessOf[t]] = t]
    /\ UNCHANGED <<file, osLock>>

\* `with _thread_lock(path)`: one thread of a process at a time.
EnterMutex(t) ==
    /\ Go(t, "out", "waiting")
    /\ mutex[ProcessOf[t]] = Nobody
    /\ mutex' = [mutex EXCEPT ![ProcessOf[t]] = t]
    /\ UNCHANGED <<file, osLock>>

\* Mutants: the lock keeps nobody out, or belongs to the thread.
LockNothing(t) ==
    /\ Go(t, "waiting", "locked")
    /\ osLock' = ProcessOf[t]
    /\ UNCHANGED <<file, mutex>>

LockForThread(t) ==
    /\ Go(t, "waiting", "locked")
    /\ osLock = Nobody
    /\ osLock' = t
    /\ UNCHANGED <<file, mutex>>

\* `_lock(fh)`.  The byte lock of msvcrt belongs to the process, so it does not
\* keep a second thread of the holder out.
Lock(t) ==
    /\ Go(t, "waiting", "locked")
    /\ osLock \in {Nobody, ProcessOf[t]}
    /\ osLock' = ProcessOf[t]
    /\ UNCHANGED <<file, mutex>>

\* The ten seconds are up and the lock is still somebody's: `_lock` raises
\* before anything is written, and the mutex is let go.
LockTimeout(t) ==
    /\ Go(t, "waiting", "failed")
    /\ osLock \notin {Nobody, ProcessOf[t]}
    /\ mutex' = [mutex EXCEPT ![ProcessOf[t]] = Nobody]
    /\ UNCHANGED <<file, osLock>>

\* Mutant: the precondition is not evaluated.
PassesUnchecked(t) == t \in Threads

\* `precondition()`, which reads the file it guards: no record there makes the claim.
\* An append without one does not read the file.
Passes(t) ==
    \/ ClaimOf[t] = NoClaim
    \/ ~Read.raises /\ \A s \in ToSet(Read.records) : ClaimOf[s] # ClaimOf[t]

\* The precondition passes, evaluated while the lock is held.
Check(t) ==
    /\ Go(t, "locked", "checked")
    /\ Passes(t)
    /\ UNCHANGED <<file, mutex, osLock>>

\* Mutant: an exception leaves the mutex taken.
LetGoOfFile(t) ==
    /\ osLock' = IF osLock = ProcessOf[t] THEN Nobody ELSE osLock
    /\ UNCHANGED mutex

LetGo(t) ==
    /\ osLock' = IF osLock = ProcessOf[t] THEN Nobody ELSE osLock
    /\ mutex' = [mutex EXCEPT ![ProcessOf[t]] = Nobody]

\* It raises, on a claim that is taken or because the file does not decode: nothing
\* is written, and the `finally` lets the lock go.
Refuse(t) ==
    /\ Go(t, "locked", "refused")
    /\ ~Passes(t)
    /\ LetGo(t)
    /\ UNCHANGED file

\* Mutant: the line is written without its newline.
WriteNoNewline(t) == Go(t, "whole", "flushed") /\ UNCHANGED <<file, mutex, osLock>>

\* `fh.write(line + "\n")` and `fh.flush()`, in the pieces the system writes.
WriteOpen(t)    == Go(t, "checked", "half") /\ Put(t, "open") /\ UNCHANGED <<mutex, osLock>>
WriteClose(t)   == Go(t, "half", "whole") /\ Put(t, "close") /\ UNCHANGED <<mutex, osLock>>
WriteNewline(t) == Go(t, "whole", "flushed") /\ Put(t, "newline") /\ UNCHANGED <<mutex, osLock>>

\* `_unlock(fh)`, then the end of the two `with` blocks: the mutex is let go
\* after the lock, and `append` returns.
Unlock(t) ==
    /\ Go(t, "flushed", "unlocked")
    /\ osLock' = Nobody
    /\ UNCHANGED <<file, mutex>>

Return(t) ==
    /\ Go(t, "unlocked", "returned")
    /\ mutex' = [mutex EXCEPT ![ProcessOf[t]] = Nobody]
    /\ UNCHANGED <<file, osLock>>

\* The write or the sync raises part way through (no space left): `finally` lets
\* the lock go, and what was written stays.
TornWrite(t) ==
    /\ MayTear
    /\ \/ Go(t, "checked", "cut at open") \/ Go(t, "half", "cut at close")
       \/ Go(t, "whole", "cut at newline") \/ Go(t, "flushed", "cut at sync")
    /\ osLock' = Nobody
    /\ UNCHANGED <<file, mutex>>

\* The end of `with open(...)`: closing the file flushes again what is still in
\* its buffer, after the lock is gone.  Then the mutex is let go and the exception
\* leaves `append`.
Unwritten(t) ==
    CASE at[t] = "cut at open"    -> <<"open", "close", "newline">>
      [] at[t] = "cut at close"   -> <<"close", "newline">>
      [] at[t] = "cut at newline" -> <<"newline">>
      [] OTHER                    -> <<>>

CloseAfterCut(t) ==
    /\ at[t] \in Cuts
    /\ at' = [at EXCEPT ![t] = "failed"]
    /\ \E k \in 0 .. Len(Unwritten(t)) :
          /\ k > 0 => CloseRetries
          /\ file' = file \o [i \in 1 .. k |-> [by |-> t, part |-> Unwritten(t)[i]]]
    /\ mutex' = [mutex EXCEPT ![ProcessOf[t]] = Nobody]
    /\ UNCHANGED osLock

Inside(t) == at[t] \notin {"out", "returned", "refused", "failed"}

\* A process dies: the system closes its files, which frees its lock, and its
\* threads are gone wherever they were.
Die(p) ==
    /\ \E t \in Threads : ProcessOf[t] = p /\ Inside(t)
    /\ MayTear \/ \A t \in Threads : ProcessOf[t] = p => at[t] \notin {"half", "whole"}
    /\ at' = [t \in Threads |->
                IF ProcessOf[t] = p /\ at[t] \notin {"returned", "refused"}
                THEN "failed" ELSE at[t]]
    /\ osLock' = IF osLock = p THEN Nobody ELSE osLock
    /\ mutex' = [mutex EXCEPT ![p] = Nobody]
    /\ UNCHANGED file

AppendStep(t) ==
    \/ EnterMutex(t) \/ Lock(t) \/ LockTimeout(t) \/ Check(t) \/ Refuse(t)
    \/ WriteOpen(t) \/ WriteClose(t) \/ WriteNewline(t) \/ Unlock(t) \/ Return(t)
    \/ CloseAfterCut(t)

Settled == \A t \in Threads : at[t] \in {"returned", "refused", "failed"}

Next ==
    \/ \E t \in Threads : AppendStep(t) \/ TornWrite(t)
    \/ \E p \in Processes : Die(p)
    \/ Settled /\ UNCHANGED vars

Spec == Init /\ [][Next]_vars

\* A thread that is scheduled goes on; nothing makes a disk fill or a process
\* die.
FairSpec == Spec /\ \A t \in Threads : WF_vars(AppendStep(t))

-----------------------------------------------------------------------------
TypeOK ==
    /\ file \in Seq([by : Threads, part : Pieces])
    /\ mutex \in [Processes -> Threads \cup {Nobody}]
    /\ osLock \in Processes \cup {Nobody}
    /\ at \in [Threads -> Steps]

\* The threads between the two ends of the critical section.
Writing == {t \in Threads : at[t] \in {"locked", "checked", "half", "whole", "flushed"}}

\* No two threads write under the lock at once, of one process or of two: that lines
\* never interleave rests on it, and neither of the two locks gives it alone.  What
\* closing the file still puts there after a failed write is outside it.
OneWriter == \A s, t \in Writing : s = t

\* The appends that raised or died part way through.
Failed == {t \in Threads : at[t] \in Cuts \cup {"failed"}}

\* The records whose `append` returned and that no line that parses holds.
Lost == {t \in Threads : at[t] = "returned"} \ ToSet(WellFormed)

\* A record whose `append` returned is a record every reader gets that gets an
\* answer, whatever the other writers are doing to the file at that moment.
ReturnedIsRead ==
    \A t \in Threads : at[t] = "returned" /\ ~Read.raises => t \in ToSet(Read.records)

\* Where the file can be read at all, an append that failed costs at most one record
\* besides its own, the one written on the end of the torn line; and one more, whose
\* line it lands in or before, if what was left in its buffer is flushed late.
TearCostsAtMostTwo ==
    ~Read.raises =>
        Cardinality(Lost) <= (IF CloseRetries THEN 2 ELSE 1) * Cardinality(Failed)

\* No loss is silent: while a record whose `append` returned is missing from what
\* readers get, `ledger verify` reports a damaged line or stops on the exception.
LossIsReported ==
    (\E t \in Threads : at[t] = "returned" /\ t \notin ToSet(Read.records)) =>
        Damaged.raises \/ Damaged.lines # {}

\* No claim is made by two appends of which neither failed, although the precondition
\* runs in one step and the line lands in others.
ClaimsAreUnique ==
    \A s, t \in ToSet(WellFormed) \ Failed :
        ClaimOf[s] = ClaimOf[t] /\ ClaimOf[s] # NoClaim => s = t

\* A torn final line costs itself and not the file: while no other line is damaged
\* and nobody is writing, readers get every record whose `append` returned.
TornTailIsTolerated ==
    Writing = {} /\ Broken \subseteq {Len(file)} =>
        \A t \in Threads : at[t] = "returned" => t \in ToSet(Read.records)

\* Every append ends, in a record, a refusal or an error, for all that may go
\* wrong in the others: no thread waits for ever on a mutex or a lock that is
\* never let go.
AppendsEnd == \A t \in Threads : <>(at[t] \in {"returned", "refused", "failed"})

\* The lines that parse are an append-only sequence into which records go atomically
\* with their precondition.
Abstract == INSTANCE AppendLog WITH
    Records <- Threads, Claim <- ClaimOf, log <- WellFormed

ImplementsAppendLog == Abstract!Spec
=============================================================================
