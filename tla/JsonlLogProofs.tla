--------------------------- MODULE JsonlLogProofs ----------------------------
(***************************************************************************)
(* What a ledger file keeps, for any number of threads in any number of    *)
(* processes that may die: who may write it, what its pieces are and why,  *)
(* what readers make of them, and that this is the log of AppendLog.       *)
(***************************************************************************)
EXTENDS JsonlLog, SumTheorems, SequenceTheorems

\* The mutex and the lock of the file have the owners the code believes.
LocksHeld ==
    /\ mutex \in [Processes -> Threads \cup {Nobody}]
    /\ at \in [Threads -> Steps]
    /\ \A t \in Threads :
          /\ Inside(t) => mutex[ProcessOf[t]] = t
          /\ t \in Writing => osLock = ProcessOf[t]

LEMMA InitLocks == Init => LocksHeld
  BY DEF Init, LocksHeld, Inside, Writing, Steps

LEMMA StepLocks ==
    ASSUME LocksHeld, NEW t \in Threads, AppendStep(t) \/ TornWrite(t)
    PROVE  LocksHeld'
<1> USE LogAssumption DEF LocksHeld, Go, Inside, Writing, Steps, Processes
<1>1. CASE EnterMutex(t)
  BY <1>1 DEF EnterMutex
<1>2. CASE Lock(t)
  BY <1>2 DEF Lock
<1>3. CASE LockTimeout(t)
  BY <1>3 DEF LockTimeout
<1>4. CASE Check(t)
  BY <1>4 DEF Check
<1>5. CASE Refuse(t)
  BY <1>5 DEF Refuse, LetGo
<1>6. CASE WriteOpen(t)
  BY <1>6 DEF WriteOpen
<1>7. CASE WriteClose(t)
  BY <1>7 DEF WriteClose
<1>8. CASE WriteNewline(t)
  BY <1>8 DEF WriteNewline
<1>9. CASE Unlock(t)
  BY <1>9 DEF Unlock
<1>10. CASE Return(t)
  BY <1>10 DEF Return
<1>11. CASE TornWrite(t)
  <2>1. at[t] \in {"checked", "half", "whole", "flushed"}
        /\ \E c \in Cuts : at' = [at EXCEPT ![t] = c]
    BY <1>11 DEF TornWrite, Cuts
  <2>2. mutex[ProcessOf[t]] = t /\ osLock = ProcessOf[t]
    BY <2>1
  <2>3. \A s \in Threads \ {t} : s \notin Writing
    BY <2>2
  <2>4. at' \in [Threads -> Steps] /\ mutex' = mutex
    BY <1>11, <2>1 DEF TornWrite, Cuts
  <2>5. \A s \in Threads \ {t} : at'[s] = at[s]
    BY <2>1
  <2>6. at'[t] \in Cuts
    BY <2>1
  <2> QED
    BY <2>2, <2>3, <2>4, <2>5, <2>6 DEF Cuts
<1>12. CASE CloseAfterCut(t)
  BY <1>12 DEF CloseAfterCut, Cuts
<1> QED
  BY <1>1, <1>2, <1>3, <1>4, <1>5, <1>6, <1>7, <1>8, <1>9, <1>10, <1>11, <1>12 DEF AppendStep

\* A death takes every thread of the process out of the critical section before
\* its locks are free.
LEMMA DieLocks ==
    ASSUME LocksHeld, NEW p \in Processes, Die(p)
    PROVE  LocksHeld'
<1> USE LogAssumption DEF LocksHeld, Inside, Writing, Steps, Processes
<1>1. at' \in [Threads -> Steps] /\ mutex' \in [Processes -> Threads \cup {Nobody}]
  BY DEF Die
<1>2. \A t \in Threads : ProcessOf[t] = p => ~Inside(t)' /\ t \notin Writing'
  BY DEF Die
<1>3. \A t \in Threads : ProcessOf[t] # p =>
          at'[t] = at[t] /\ mutex'[ProcessOf[t]] = mutex[ProcessOf[t]]
          /\ (osLock = ProcessOf[t] => osLock' = osLock)
  BY DEF Die
<1> QED
  BY <1>1, <1>2, <1>3

LEMMA NextLocks == LocksHeld /\ [Next]_vars => LocksHeld'
<1> SUFFICES ASSUME LocksHeld, [Next]_vars PROVE LocksHeld'
  OBVIOUS
<1>1. CASE UNCHANGED vars
  BY <1>1 DEF vars, LocksHeld, Inside, Writing
<1>2. CASE Next
  BY <1>1, <1>2, StepLocks, DieLocks DEF Next
<1> QED
  BY <1>1, <1>2

-----------------------------------------------------------------------------
(* What reading the file comes to.  `WellFormed` goes over the pieces one  *)
(* by one; that the function it does so with exists, and what it yields,   *)
(* is shown by looking at the first piece where it would be otherwise.     *)

\* f is what has been read of the sequence s after each of its first n pieces, when the
\* lines to be read end at the places K.
Scans(f, s, K, n) ==
    f = [m \in 0 .. n |-> IF m = 0 THEN <<>>
                         ELSE IF m \in K THEN Append(f[m - 1], s[m].by)
                         ELSE f[m - 1]]

Scanned(s, K) == (CHOOSE f : Scans(f, s, K, Len(s)))[Len(s)]

LEMMA ReadScans == WellFormed = Scanned(file, Parsed)
  BY DEF WellFormed, Scanned, Scans

\* Among numbers that have some property one is least.
LEMMA LeastNumber ==
    ASSUME NEW Bad \in SUBSET Nat, Bad # {}
    PROVE  \E n \in Bad : \A m \in Bad : n <= m
  BY MinOfNaturals

\* What one piece adds to what was read.
LEMMA ScanAt ==
    ASSUME NEW f, NEW s, NEW K, NEW n \in Nat, Scans(f, s, K, n), NEW i \in 0 .. n
    PROVE  /\ i = 0 => f[i] = <<>>
           /\ i # 0 /\ i \in K => f[i] = Append(f[i - 1], s[i].by)
           /\ i # 0 /\ i \notin K => f[i] = f[i - 1]
  BY DEF Scans

LEMMA ScanExists ==
    ASSUME NEW s, NEW K, NEW n \in Nat
    PROVE  \E f : Scans(f, s, K, n)
<1> DEFINE Bad == {m \in Nat : ~ \E f : Scans(f, s, K, m)}
<1>1. SUFFICES ASSUME Bad # {} PROVE FALSE
  OBVIOUS
<1>2. PICK m \in Bad : \A k \in Bad : m <= k
  <2>1. Bad \in SUBSET Nat
    OBVIOUS
  <2> HIDE DEF Bad
  <2> QED
    BY <1>1, <2>1, LeastNumber
<1>3. CASE m = 0
  <2> DEFINE f == [k \in 0 .. 0 |-> <<>>]
  <2>1. Scans(f, s, K, 0)
    BY DEF Scans
  <2> QED
    BY <1>2, <1>3, <2>1
<1>4. CASE m > 0
  <2>1. m - 1 \in Nat /\ m - 1 \notin Bad
    BY <1>2, <1>4
  <2>2. PICK f : Scans(f, s, K, m - 1)
    BY <2>1
  <2> DEFINE g == [k \in 0 .. m |-> IF k = m THEN IF m \in K THEN Append(f[m - 1], s[m].by) ELSE f[m - 1]
                                   ELSE f[k]]
             step(k) == IF k = 0 THEN <<>> ELSE IF k \in K THEN Append(g[k - 1], s[k].by) ELSE g[k - 1]
  <2>3. \A k \in 0 .. m : g[k] = step(k)
    <3>1. \A k \in 0 .. (m - 1) : f[k] = IF k = 0 THEN <<>> ELSE IF k \in K THEN Append(f[k - 1], s[k].by)
                                        ELSE f[k - 1]
      BY <2>2 DEF Scans
    <3>2. ASSUME NEW k \in 0 .. (m - 1) PROVE g[k] = step(k)
      BY <1>2, <3>1
    <3>3. g[m] = step(m)
      BY <1>2, <1>4
    <3>4. \A k \in 0 .. m : k = m \/ k \in 0 .. (m - 1)
      BY <1>2
    <3> HIDE DEF g, step
    <3> QED
      BY <3>2, <3>3, <3>4
  <2>4. g = [k \in 0 .. m |-> step(k)]
    <3>1. DOMAIN g = 0 .. m /\ g = [k \in 0 .. m |-> g[k]]
      OBVIOUS
    <3> HIDE DEF g, step
    <3> QED
      BY <2>3, <3>1
  <2>5. Scans(g, s, K, m)
    BY <2>4 DEF Scans
  <2> HIDE DEF g
  <2> QED
    BY <1>2, <2>5
<1> QED
  BY <1>2, <1>3, <1>4

\* The first n pieces read the same in two files.
SameUpTo(K, L, n) == \A i \in 1 .. n : i \in K <=> i \in L

Alike(s, K, t, L, n) == SameUpTo(K, L, n) /\ \A i \in 1 .. n : s[i].by = t[i].by

\* Two readings agree as far as what they read does.
LEMMA ScansAgree ==
    ASSUME NEW s, NEW K, NEW t, NEW L, NEW n \in Nat, NEW m \in Nat, n <= m,
           NEW f, Scans(f, s, K, n), NEW g, Scans(g, t, L, m), Alike(s, K, t, L, n)
    PROVE  \A i \in 0 .. n : f[i] = g[i]
<1> DEFINE Bad == {i \in 0 .. n : f[i] # g[i]}
<1>1. SUFFICES ASSUME Bad # {} PROVE FALSE
  OBVIOUS
<1>2. PICK i \in Bad : \A j \in Bad : i <= j
  <2>1. Bad \in SUBSET Nat
    OBVIOUS
  <2> HIDE DEF Bad
  <2> QED
    BY <1>1, <2>1, LeastNumber
<1>3. i \in 0 .. n /\ i \in 0 .. m /\ f[i] # g[i]
  BY <1>2
<1>4. i # 0
  BY <1>3, ScanAt
<1>5. i - 1 \in 0 .. n /\ i \in 1 .. n
  BY <1>3, <1>4
<1>6. f[i - 1] = g[i - 1]
  <2>1. i - 1 \notin Bad
    BY <1>2, <1>5
  <2> QED
    BY <1>5, <2>1
<1>7. (i \in K <=> i \in L) /\ s[i].by = t[i].by
  BY <1>5 DEF Alike, SameUpTo
<1>8. /\ i \in K => f[i] = Append(f[i - 1], s[i].by)
      /\ i \notin K => f[i] = f[i - 1]
  BY <1>3, <1>4, ScanAt
<1>9. /\ i \in L => g[i] = Append(g[i - 1], t[i].by)
      /\ i \notin L => g[i] = g[i - 1]
  BY <1>3, <1>4, ScanAt
<1> QED
  BY <1>3, <1>6, <1>7, <1>8, <1>9

\* Reading one piece more.
LEMMA ScansOneMore ==
    ASSUME NEW s, NEW K, NEW t, NEW L, NEW n \in Nat, NEW m \in Nat, m = n + 1,
           NEW f, Scans(f, s, K, n), NEW g, Scans(g, t, L, m), Alike(s, K, t, L, n)
    PROVE  g[m] = IF m \in L THEN Append(f[n], t[m].by) ELSE f[n]
<1>1. \A i \in 0 .. n : f[i] = g[i]
  BY ScansAgree
<1>2. f[n] = g[n] /\ m \in 0 .. m /\ m # 0 /\ m - 1 = n
  BY <1>1
<1>3. /\ m \in L => g[m] = Append(g[m - 1], t[m].by)
      /\ m \notin L => g[m] = g[m - 1]
  BY <1>2, ScanAt
<1> QED
  BY <1>2, <1>3

LEMMA ScanAppend ==
    ASSUME NEW s, NEW K, NEW t, NEW L, NEW n \in Nat, NEW m \in Nat, m = n + 1,
           n = Len(s), m = Len(t), Alike(s, K, t, L, n)
    PROVE  Scanned(t, L) = IF m \in L THEN Append(Scanned(s, K), t[m].by) ELSE Scanned(s, K)
<1>1. PICK f : f = CHOOSE h : Scans(h, s, K, n)
  OBVIOUS
<1>2. PICK g : g = CHOOSE h : Scans(h, t, L, m)
  OBVIOUS
<1>3. Scans(f, s, K, n) /\ Scans(g, t, L, m)
  BY <1>1, <1>2, ScanExists
<1>4. Scanned(s, K) = f[n] /\ Scanned(t, L) = g[m]
  BY <1>1, <1>2 DEF Scanned
<1>5. g[m] = IF m \in L THEN Append(f[n], t[m].by) ELSE f[n]
  BY <1>3, ScansOneMore
<1> QED
  BY <1>4, <1>5

LEMMA AppendedSet ==
    ASSUME NEW S, NEW s \in Seq(S), NEW e \in S
    PROVE  Append(s, e) \in Seq(S) /\ ToSet(Append(s, e)) = ToSet(s) \cup {e}
<1>1. Len(s) \in Nat /\ DOMAIN s = 1 .. Len(s)
  BY LenProperties
<1>2. /\ Append(s, e) \in Seq(S) /\ Len(Append(s, e)) = Len(s) + 1
      /\ \A i \in 1 .. Len(s) : Append(s, e)[i] = s[i]
      /\ Append(s, e)[Len(s) + 1] = e
  BY AppendProperties
<1>3. DOMAIN Append(s, e) = (1 .. Len(s)) \cup {Len(s) + 1}
  BY <1>1, <1>2, LenProperties
<1> QED
  BY <1>1, <1>2, <1>3 DEF ToSet

\* The first n pieces are of records of the set S.
WrittenIn(s, S, n) == \A i \in 1 .. n : s[i].by \in S

ReadBefore(s, K, n) == {s[j].by : j \in K \cap (1 .. n)}

\* What is read is the records whose lines end at the places given.
LEMMA ScanSet ==
    ASSUME NEW s, NEW K, NEW S, NEW n \in Nat, NEW f, Scans(f, s, K, n), WrittenIn(s, S, n)
    PROVE  \A i \in 0 .. n : f[i] \in Seq(S) /\ ToSet(f[i]) = ReadBefore(s, K, i)
<1> USE DEF ReadBefore
<1> DEFINE Right(i) == f[i] \in Seq(S) /\ ToSet(f[i]) = ReadBefore(s, K, i)
           Bad == {i \in 0 .. n : ~Right(i)}
<1>1. SUFFICES ASSUME Bad # {} PROVE FALSE
  OBVIOUS
<1>2. PICK i \in Bad : \A j \in Bad : i <= j
  <2>1. Bad \in SUBSET Nat
    OBVIOUS
  <2> HIDE DEF Bad
  <2> QED
    BY <1>1, <2>1, LeastNumber
<1>3. /\ i \in 0 .. n /\ ~Right(i)
      /\ i = 0 => f[i] = <<>>
      /\ i # 0 /\ i \in K => f[i] = Append(f[i - 1], s[i].by)
      /\ i # 0 /\ i \notin K => f[i] = f[i - 1]
  BY <1>2, ScanAt
<1>4. CASE i = 0
  <2>1. f[0] = <<>> /\ 1 .. 0 = {}
    BY <1>3, <1>4
  <2>2. Right(0)
    BY <2>1 DEF ToSet
  <2> QED
    BY <1>3, <1>4, <2>2
<1>5. CASE i # 0
  <2>1. i - 1 \in 0 .. n /\ i \in 1 .. n
    BY <1>3, <1>5
  <2>2. Right(i - 1)
    <3> HIDE DEF Bad
    <3>1. i - 1 \notin Bad
      BY <1>2, <1>3, <2>1
    <3> QED
      BY <2>1, <3>1 DEF Bad
  <2>3. 1 .. i = (1 .. (i - 1)) \cup {i}
    BY <2>1
  <2>4. CASE i \in K
    <3>1. f[i] = Append(f[i - 1], s[i].by) /\ s[i].by \in S
      BY <1>3, <1>5, <2>1, <2>4 DEF WrittenIn
    <3>2. f[i] \in Seq(S) /\ ToSet(f[i]) = ToSet(f[i - 1]) \cup {s[i].by}
      BY <2>2, <3>1, AppendedSet
    <3>3. {s[j].by : j \in K \cap (1 .. i)} = {s[j].by : j \in K \cap (1 .. (i - 1))} \cup {s[i].by}
      BY <2>3, <2>4
    <3> QED
      BY <1>3, <2>2, <3>2, <3>3
  <2>5. CASE i \notin K
    <3>1. K \cap (1 .. i) = K \cap (1 .. (i - 1))
      BY <2>3, <2>5
    <3> QED
      BY <1>3, <1>5, <2>2, <2>5, <3>1
  <2> QED
    BY <2>4, <2>5
<1> QED
  BY <1>4, <1>5


-----------------------------------------------------------------------------
(* Types.                                                                  *)

LEMMA UnwrittenType == \A t \in Threads : Unwritten(t) \in Seq(Pieces) /\ Len(Unwritten(t)) \in Nat
<1>1. ASSUME NEW t \in Threads PROVE Unwritten(t) \in Seq(Pieces)
  <2>1. /\ <<"open", "close", "newline">> \in Seq(Pieces)
        /\ <<"close", "newline">> \in Seq(Pieces)
        /\ <<"newline">> \in Seq(Pieces)
        /\ <<>> \in Seq(Pieces)
    BY DEF Pieces
  <2>2. \/ Unwritten(t) = <<"open", "close", "newline">>
        \/ Unwritten(t) = <<"close", "newline">>
        \/ Unwritten(t) = <<"newline">>
        \/ Unwritten(t) = <<>>
    BY DEF Unwritten
  <2> QED
    BY <2>1, <2>2
<1> QED
  BY <1>1, LenProperties

\* What closing a file may still write.
LEMMA LateFlush ==
    ASSUME NEW t \in Threads, CloseAfterCut(t)
    PROVE  \E s \in Seq([by : Threads, part : Pieces]) :
               file' = file \o s /\ \A i \in 1 .. Len(s) : s[i].by = t
<1>1. PICK k \in 0 .. Len(Unwritten(t)) :
          file' = file \o [i \in 1 .. k |-> [by |-> t, part |-> Unwritten(t)[i]]]
  BY DEF CloseAfterCut
<1>2. Unwritten(t) \in Seq(Pieces) /\ Len(Unwritten(t)) \in Nat
  BY UnwrittenType
<1>3. k \in Nat /\ k <= Len(Unwritten(t))
  BY <1>1, <1>2
<1>4. \A i \in 1 .. k : Unwritten(t)[i] \in Pieces
  BY <1>2, <1>3, ElementOfSeq
<1> DEFINE s == [i \in 1 .. k |-> [by |-> t, part |-> Unwritten(t)[i]]]
<1>5. s \in Seq([by : Threads, part : Pieces]) /\ Len(s) = k
  BY <1>3, <1>4, IsASeq
<1>6. \A i \in 1 .. Len(s) : s[i].by = t
  BY <1>5
<1> QED
  BY <1>1, <1>5, <1>6

LEMMA InitType == Init => TypeOK
  BY DEF Init, TypeOK, Processes, Steps

LEMMA StepType ==
    ASSUME TypeOK, LocksHeld, [Next]_vars
    PROVE  TypeOK'
<1>1. LocksHeld'
  BY NextLocks
<1>2. file' \in Seq([by : Threads, part : Pieces])
  <2>1. CASE UNCHANGED file
    BY <2>1 DEF TypeOK
  <2>2. ASSUME NEW t \in Threads, NEW p \in Pieces, Put(t, p)
        PROVE  file' \in Seq([by : Threads, part : Pieces])
    BY <2>2, AppendProperties DEF Put, TypeOK
  <2>3. "open" \in Pieces /\ "close" \in Pieces /\ "newline" \in Pieces
    BY DEF Pieces
  <2>4. ASSUME NEW t \in Threads, AppendStep(t)
        PROVE  file' \in Seq([by : Threads, part : Pieces])
    <3>1. CASE WriteOpen(t) \/ WriteClose(t) \/ WriteNewline(t)
      BY <2>2, <2>3, <3>1 DEF WriteOpen, WriteClose, WriteNewline
    <3>2. CASE CloseAfterCut(t)
      <4>1. PICK s \in Seq([by : Threads, part : Pieces]) : file' = file \o s
        BY <3>2, LateFlush
      <4> QED
        BY <4>1, ConcatProperties DEF TypeOK
    <3> QED
      BY <2>1, <2>4, <3>1, <3>2
      DEF AppendStep, EnterMutex, Lock, LockTimeout, Check, Refuse, Unlock, Return
  <2> QED
    BY <2>1, <2>4 DEF Next, TornWrite, Die, vars
<1>3. osLock' \in Processes \cup {Nobody}
  <2> USE DEF TypeOK
  <2>1. ASSUME NEW t \in Threads, AppendStep(t) \/ TornWrite(t)
        PROVE  osLock' \in Processes \cup {Nobody}
    BY <2>1 DEF AppendStep, TornWrite, EnterMutex, Lock, LockTimeout, Check, Refuse, LetGo,
                WriteOpen, WriteClose, WriteNewline, Unlock, Return, CloseAfterCut, Processes
  <2>2. ASSUME NEW p \in Processes, Die(p) PROVE osLock' \in Processes \cup {Nobody}
    BY <2>2 DEF Die
  <2> QED
    BY <2>1, <2>2 DEF Next, vars
<1> QED
  BY <1>1, <1>2, <1>3 DEF TypeOK, LocksHeld

\* The variables have their types, whatever is torn and whatever is written late.
THEOREM TypeCorrect == Spec => []TypeOK
<1>1. TypeOK /\ LocksHeld /\ [Next]_vars => TypeOK' /\ LocksHeld'
  BY StepType, NextLocks
<1> QED
  BY <1>1, InitType, InitLocks, PTL DEF Spec

-----------------------------------------------------------------------------
(* What is in the file, and why.                                           *)

Piece(t, p) == [by |-> t, part |-> p]

\* Where the thread of a piece may be.
HasPut(p) ==
    {"flushed", "unlocked", "returned", "failed", "cut at sync"}
    \cup (IF p = "newline" THEN {} ELSE {"whole", "cut at newline"})
    \cup (IF p = "open" THEN {"half", "cut at close"} ELSE {})

Written == {"flushed", "unlocked", "returned"}

\* No piece is there twice, and a line goes on with what was begun right before it.
Once == \A i, j \in 1 .. Len(file) : file[i] = file[j] => i = j

Joined ==
    \A i \in 1 .. Len(file) :
        /\ file[i].part = "close" => i > 1 /\ file[i - 1] = Piece(file[i].by, "open")
        /\ file[i].part = "newline" => i > 1 /\ file[i - 1] = Piece(file[i].by, "close")

\* The pieces tell where the threads are, and the threads which pieces there are.
Accounted ==
    /\ \A i \in 1 .. Len(file) : at[file[i].by] \in HasPut(file[i].part)
    /\ \A t \in Threads :
          /\ at[t] = "half" => Len(file) > 0 /\ file[Len(file)] = Piece(t, "open")
          /\ at[t] = "whole" => Len(file) > 0 /\ file[Len(file)] = Piece(t, "close")
          /\ at[t] \in Written => \E i \in 1 .. Len(file) : file[i] = Piece(t, "newline")

\* A line that stops short of its newline is being written, or it was torn.
Explained(where, last) ==
    \/ last /\ where \in {"half", "whole"}
    \/ MayTear /\ where \in Cuts \cup {"failed"}

TearsExplained ==
    \A i \in 1 .. Len(file) :
        file[i].part # "newline" /\ (i = Len(file) \/ file[i + 1].part = "open") =>
            Explained(at[file[i].by], i = Len(file))

\* Where no write is cut short, no thread is on the way out of one that was.
NoCuts == MayTear \/ \A t \in Threads : at[t] \notin Cuts

FileInv ==
    /\ TypeOK
    /\ LocksHeld
    /\ Once
    /\ Joined
    /\ Accounted
    /\ TearsExplained
    /\ NoCuts

\* What a step that puts nothing in the file may do to where a thread is.
Quiet(t) ==
    /\ \A p \in Pieces : at[t] \in HasPut(p) => at'[t] \in HasPut(p)
    /\ at'[t] \in {"half", "whole"} => at'[t] = at[t]
    /\ at'[t] \in Written => at[t] \in Written
    /\ at[t] \in {"half", "whole"} =>
          at'[t] = at[t] \/ (MayTear /\ at'[t] \in Cuts \cup {"failed"})
    /\ at[t] \in Cuts \cup {"failed"} => at'[t] \in Cuts \cup {"failed"}
    /\ at'[t] \in Cuts => MayTear \/ at[t] \in Cuts

LEMMA PieceType ==
    ASSUME TypeOK, NEW i \in 1 .. Len(file)
    PROVE  /\ file[i] \in [by : Threads, part : Pieces]
           /\ file[i].by \in Threads /\ file[i].part \in Pieces
           /\ file[i] = Piece(file[i].by, file[i].part)
<1>1. file[i] \in [by : Threads, part : Pieces]
  BY ElementOfSeq DEF TypeOK
<1> QED
  BY <1>1 DEF Piece

LEMMA QuietKeeps ==
    ASSUME FileInv, TypeOK', LocksHeld', UNCHANGED file, \A t \in Threads : Quiet(t)
    PROVE  FileInv'
<1>1. Once' /\ Joined'
  BY DEF FileInv, Once, Joined
<1>2. \A i \in 1 .. Len(file) : file[i].by \in Threads /\ file[i].part \in Pieces
  BY PieceType DEF FileInv
<1>3. Accounted'
  <2>1. \A i \in 1 .. Len(file) : at'[file[i].by] \in HasPut(file[i].part)
    BY <1>2 DEF FileInv, Accounted, Quiet
  <2>2. \A t \in Threads :
          /\ at'[t] = "half" => Len(file) > 0 /\ file[Len(file)] = Piece(t, "open")
          /\ at'[t] = "whole" => Len(file) > 0 /\ file[Len(file)] = Piece(t, "close")
          /\ at'[t] \in Written => \E i \in 1 .. Len(file) : file[i] = Piece(t, "newline")
    BY DEF FileInv, Accounted, Quiet
  <2> QED
    BY <2>1, <2>2 DEF Accounted
<1>4. TearsExplained'
  <2>1. ASSUME NEW i \in 1 .. Len(file), file[i].part # "newline",
               i = Len(file) \/ file[i + 1].part = "open"
        PROVE  Explained(at'[file[i].by], i = Len(file))
    <3>1. Explained(at[file[i].by], i = Len(file))
      BY <2>1 DEF FileInv, TearsExplained
    <3>2. Quiet(file[i].by)
      BY <1>2
    <3> QED
      BY <3>1, <3>2 DEF Explained, Quiet
  <2> QED
    BY <2>1 DEF TearsExplained
<1>5. NoCuts'
  BY DEF FileInv, Quiet, NoCuts
<1> QED
  BY <1>1, <1>3, <1>4, <1>5 DEF FileInv

\* The steps that put nothing in the file.
Silent(t) ==
    \/ EnterMutex(t) \/ Lock(t) \/ LockTimeout(t) \/ Check(t) \/ Refuse(t)
    \/ Unlock(t) \/ Return(t) \/ TornWrite(t)

LEMMA SilentIsQuiet ==
    ASSUME TypeOK, NEW t \in Threads, Silent(t), NEW s \in Threads
    PROVE  Quiet(s) /\ UNCHANGED file
<1> USE DEF Quiet, Go, HasPut, Written, Cuts, Pieces
<1>1. CASE s # t
  <2>1. at'[s] = at[s] /\ UNCHANGED file
    BY <1>1 DEF TypeOK, Silent, EnterMutex, Lock, LockTimeout, Check, Refuse, Unlock, Return, TornWrite
  <2> QED
    BY <2>1
<1>2. CASE s = t
  <2> USE <1>2 DEF TypeOK
  <2>1. CASE EnterMutex(t)
    BY <2>1 DEF EnterMutex
  <2>2. CASE Lock(t)
    BY <2>2 DEF Lock
  <2>3. CASE LockTimeout(t)
    BY <2>3 DEF LockTimeout
  <2>4. CASE Check(t)
    BY <2>4 DEF Check
  <2>5. CASE Refuse(t)
    BY <2>5 DEF Refuse
  <2>6. CASE Unlock(t)
    BY <2>6 DEF Unlock
  <2>7. CASE Return(t)
    BY <2>7 DEF Return
  <2>8. CASE TornWrite(t)
    <3>1. MayTear /\ UNCHANGED file
      BY <2>8 DEF TornWrite
    <3>2. \/ at[t] = "checked" /\ at'[t] = "cut at open"
          \/ at[t] = "half" /\ at'[t] = "cut at close"
          \/ at[t] = "whole" /\ at'[t] = "cut at newline"
          \/ at[t] = "flushed" /\ at'[t] = "cut at sync"
      BY <2>8 DEF TornWrite
    <3>3. CASE at[t] = "checked" /\ at'[t] = "cut at open"
      BY <3>1, <3>3
    <3>4. CASE at[t] = "half" /\ at'[t] = "cut at close"
      BY <3>1, <3>4
    <3>5. CASE at[t] = "whole" /\ at'[t] = "cut at newline"
      BY <3>1, <3>5
    <3>6. CASE at[t] = "flushed" /\ at'[t] = "cut at sync"
      BY <3>1, <3>6
    <3> QED
      BY <3>2, <3>3, <3>4, <3>5, <3>6
  <2> QED
    BY <2>1, <2>2, <2>3, <2>4, <2>5, <2>6, <2>7, <2>8 DEF Silent
<1> QED
  BY <1>1, <1>2

\* A file that is not flushed again when it is closed stays as it is.
LEMMA CloseIsQuiet ==
    ASSUME ~(MayTear /\ CloseRetries), FileInv,
           NEW t \in Threads, CloseAfterCut(t), NEW s \in Threads
    PROVE  Quiet(s) /\ UNCHANGED file
<1> USE DEF FileInv
<1>0. ~CloseRetries
  BY DEF CloseAfterCut, NoCuts
<1>1. UNCHANGED file
  <2>1. PICK k \in 0 .. Len(Unwritten(t)) :
            /\ k > 0 => CloseRetries
            /\ file' = file \o [i \in 1 .. k |-> [by |-> t, part |-> Unwritten(t)[i]]]
    BY DEF CloseAfterCut
  <2>2. k = 0
    BY <1>0, <2>1, UnwrittenType
  <2>3. [i \in 1 .. 0 |-> [by |-> t, part |-> Unwritten(t)[i]]] = <<>>
    OBVIOUS
  <2> QED
    BY <2>1, <2>2, <2>3, ConcatEmptySeq DEF TypeOK
<1>2. Quiet(s)
  <2>1. (s # t /\ at'[s] = at[s]) \/ (at[s] \in Cuts /\ at'[s] = "failed")
    BY DEF CloseAfterCut, TypeOK
  <2>2. CASE s # t /\ at'[s] = at[s]
    BY <2>2 DEF Quiet
  <2>3. CASE at[s] \in Cuts /\ at'[s] = "failed"
    BY <2>3 DEF Quiet, HasPut, Written, Cuts, Pieces
  <2> QED
    BY <2>1, <2>2, <2>3
<1> QED
  BY <1>1, <1>2

LEMMA DieIsQuiet ==
    ASSUME TypeOK, NEW p \in Processes, Die(p), NEW s \in Threads
    PROVE  Quiet(s) /\ UNCHANGED file
<1>1. at'[s] = at[s] \/ (at'[s] = "failed" /\ at[s] \notin {"returned", "refused"})
  BY DEF Die
<1>2. at[s] \in {"half", "whole"} => at'[s] = at[s] \/ (MayTear /\ at'[s] = "failed")
  BY DEF Die
<1>3. UNCHANGED file
  BY DEF Die
<1>4. CASE at'[s] = at[s]
  BY <1>3, <1>4 DEF Quiet
<1>5. CASE at'[s] = "failed" /\ at[s] \notin {"returned", "refused"}
  <2>1. \A part \in Pieces : at'[s] \in HasPut(part)
    BY <1>5 DEF HasPut, Pieces
  <2> QED
    BY <1>2, <1>3, <1>5, <2>1 DEF Quiet, Written, Cuts
<1> QED
  BY <1>1, <1>3, <1>4, <1>5
LEMMA AloneWriting ==
    ASSUME LocksHeld, NEW s \in Threads, NEW t \in Threads, s \in Writing, t \in Writing
    PROVE  s = t
  BY DEF LocksHeld, Writing, Inside

\* What puts a piece in the file: the three steps of a write.
Puts(t, p) ==
    /\ Put(t, p)
    /\ \/ p = "open" /\ Go(t, "checked", "half")
       \/ p = "close" /\ Go(t, "half", "whole")
       \/ p = "newline" /\ Go(t, "whole", "flushed")

LEMMA PutPieces ==
    ASSUME TypeOK, NEW t \in Threads, NEW p \in Pieces, Put(t, p)
    PROVE  /\ Len(file) \in Nat /\ Len(file') = Len(file) + 1
           /\ \A i \in 1 .. Len(file) : file'[i] = file[i]
           /\ file'[Len(file) + 1] = Piece(t, p)
           /\ Piece(t, p).by = t /\ Piece(t, p).part = p
<1>1. [by |-> t, part |-> p] \in [by : Threads, part : Pieces]
  OBVIOUS
<1> QED
  BY <1>1, AppendProperties, LenProperties DEF Put, Piece, TypeOK

LEMMA PutKeeps ==
    ASSUME FileInv, TypeOK', LocksHeld', NEW t \in Threads, NEW p \in Pieces, Puts(t, p)
    PROVE  FileInv'
<1> DEFINE n == Len(file)
<1>1. /\ n \in Nat /\ Len(file') = n + 1
      /\ \A i \in 1 .. n : file'[i] = file[i]
      /\ file'[n + 1] = Piece(t, p)
      /\ Piece(t, p).by = t /\ Piece(t, p).part = p
  BY PutPieces DEF FileInv, Puts
<1>2. /\ at' = [at EXCEPT ![t] = CASE p = "open" -> "half" [] p = "close" -> "whole" [] OTHER -> "flushed"]
      /\ at[t] = CASE p = "open" -> "checked" [] p = "close" -> "half" [] OTHER -> "whole"
  BY DEF Puts, Go, Pieces
<1>3. /\ at \in [Threads -> Steps]
      /\ at[t] \in {"checked", "half", "whole"} /\ t \in Writing
      /\ at[t] \notin HasPut(p)
      /\ at'[t] \in HasPut(p) /\ \A q \in Pieces : at[t] \in HasPut(q) => at'[t] \in HasPut(q)
      /\ \A s \in Threads \ {t} : at'[s] = at[s]
  BY <1>2 DEF FileInv, TypeOK, HasPut, Pieces, Writing
<1>4. \A i \in 1 .. n : /\ file[i].by \in Threads /\ file[i].part \in Pieces
                        /\ file[i] = Piece(file[i].by, file[i].part)
  BY PieceType DEF FileInv
<1>5. \A s \in Threads \ {t} : at[s] \notin {"half", "whole"}
  BY <1>3, AloneWriting DEF FileInv, Writing
<1>6. \A i \in 1 .. n + 1 : i \in 1 .. n \/ i = n + 1
  BY <1>1
<1>7. n + 1 \in 1 .. n + 1
  BY <1>1
<1>8. Once'
  <2>1. \A i \in 1 .. n : file[i] # Piece(t, p)
    BY <1>1, <1>3 DEF FileInv, Accounted
  <2> QED
    BY <1>1, <1>6, <2>1 DEF FileInv, Once
<1>9. Joined'
  <2>1. ASSUME NEW i \in 1 .. n
        PROVE  /\ file'[i].part = "close" => i > 1 /\ file'[i - 1] = Piece(file'[i].by, "open")
               /\ file'[i].part = "newline" => i > 1 /\ file'[i - 1] = Piece(file'[i].by, "close")
    <3>1. file'[i] = file[i] /\ (i > 1 => file'[i - 1] = file[i - 1])
      BY <1>1
    <3> QED
      BY <3>1 DEF FileInv, Joined
  <2>2. /\ p = "close" => n > 0 /\ file[n] = Piece(t, "open")
        /\ p = "newline" => n > 0 /\ file[n] = Piece(t, "close")
    BY <1>2 DEF FileInv, Accounted
  <2>3. /\ p = "close" => n + 1 > 1 /\ file'[(n + 1) - 1] = Piece(t, "open")
        /\ p = "newline" => n + 1 > 1 /\ file'[(n + 1) - 1] = Piece(t, "close")
    BY <1>1, <2>2
  <2> QED
    BY <1>1, <1>6, <2>1, <2>3 DEF Joined
<1>10. Accounted'
  <2>1. ASSUME NEW i \in 1 .. n PROVE at'[file'[i].by] \in HasPut(file'[i].part)
    BY <1>1, <1>3, <1>4 DEF FileInv, Accounted
  <2>2. at'[file'[n + 1].by] \in HasPut(file'[n + 1].part)
    BY <1>1, <1>3
  <2>3. ASSUME NEW s \in Threads \ {t}
        PROVE  /\ at'[s] \notin {"half", "whole"}
               /\ at'[s] \in Written => \E i \in 1 .. n + 1 : file'[i] = Piece(s, "newline")
    <3>1. at'[s] \in Written => \E i \in 1 .. n : file[i] = Piece(s, "newline")
      BY <1>3 DEF FileInv, Accounted
    <3> QED
      BY <1>1, <1>3, <1>5, <3>1
  <2>4. /\ at'[t] = "half" => file'[n + 1] = Piece(t, "open")
        /\ at'[t] = "whole" => file'[n + 1] = Piece(t, "close")
        /\ at'[t] \in Written => file'[n + 1] = Piece(t, "newline")
    BY <1>1, <1>2, <1>3 DEF Written, Pieces
  <2> QED
    BY <1>1, <1>6, <1>7, <2>1, <2>2, <2>3, <2>4 DEF Accounted
<1>11. TearsExplained'
  <2>1. ASSUME NEW i \in 1 .. n, file'[i].part # "newline", file'[i + 1].part = "open"
        PROVE  Explained(at'[file'[i].by], FALSE)
    <3>1. Explained(at[file[i].by], i = n)
      <4>1. i = n \/ file[i + 1].part = "open"
        BY <1>1, <2>1
      <4> QED
        BY <1>1, <2>1, <4>1 DEF FileInv, TearsExplained
    <3>2. file[i].by \in Threads /\ file'[i].by = file[i].by
      BY <1>1, <1>4
    <3>3. i = n => at[file[i].by] \notin {"half", "whole"}
      <4>1. i = n => p = "open"
        BY <1>1, <2>1
      <4> QED
        BY <1>2, <1>3, <1>5, <3>2, <4>1
    <3>4. MayTear /\ at[file[i].by] \in Cuts \cup {"failed"}
      BY <3>1, <3>3 DEF Explained
    <3>5. file[i].by # t
      BY <1>3, <3>4 DEF Cuts
    <3> QED
      BY <1>3, <3>2, <3>4, <3>5 DEF Explained
  <2>2. ASSUME file'[n + 1].part # "newline" PROVE Explained(at'[file'[n + 1].by], TRUE)
    BY <1>1, <1>2, <1>3, <2>2 DEF Explained, Pieces
  <2>3. ASSUME NEW i \in 1 .. n + 1, file'[i].part # "newline",
               i = n + 1 \/ file'[i + 1].part = "open"
        PROVE  Explained(at'[file'[i].by], i = n + 1)
    BY <1>1, <1>6, <2>1, <2>2, <2>3
  <2> QED
    BY <1>1, <2>3 DEF TearsExplained
<1>12. NoCuts'
  BY <1>2, <1>3 DEF FileInv, NoCuts, Cuts
<1> QED
  BY <1>8, <1>9, <1>10, <1>11, <1>12 DEF FileInv

LEMMA InitFile == Init => FileInv
<1> SUFFICES ASSUME Init PROVE FileInv
  OBVIOUS
<1>1. TypeOK /\ LocksHeld /\ Len(file) = 0 /\ 1 .. Len(file) = {}
  BY InitType, InitLocks DEF Init
<1>2. \A t \in Threads : at[t] = "out"
  BY DEF Init
<1> QED
  BY <1>1, <1>2 DEF FileInv, Once, Joined, Accounted, TearsExplained, Written, NoCuts, Cuts

\* A step puts one piece in the file, or none and nothing changes that the pieces
\* depend on.
LEMMA StepCases ==
    ASSUME ~(MayTear /\ CloseRetries), FileInv, [Next]_vars
    PROVE  \/ \E t \in Threads, p \in Pieces : Puts(t, p)
           \/ UNCHANGED file /\ \A s \in Threads : Quiet(s)
<1>1. CASE UNCHANGED vars
  BY <1>1 DEF vars, Quiet
<1>2. ASSUME NEW t \in Threads, AppendStep(t) \/ TornWrite(t)
      PROVE  \/ \E u \in Threads, p \in Pieces : Puts(u, p)
             \/ UNCHANGED file /\ \A s \in Threads : Quiet(s)
  <2>1. CASE WriteOpen(t)
    BY <2>1 DEF WriteOpen, Puts, Pieces
  <2>2. CASE WriteClose(t)
    BY <2>2 DEF WriteClose, Puts, Pieces
  <2>3. CASE WriteNewline(t)
    BY <2>3 DEF WriteNewline, Puts, Pieces
  <2>4. CASE CloseAfterCut(t)
    BY <2>4, CloseIsQuiet
  <2>5. CASE Silent(t)
    BY <2>5, SilentIsQuiet DEF FileInv
  <2> QED
    BY <1>2, <2>1, <2>2, <2>3, <2>4, <2>5 DEF AppendStep, Silent
<1>3. ASSUME NEW p \in Processes, Die(p)
      PROVE  UNCHANGED file /\ \A s \in Threads : Quiet(s)
  BY <1>3, DieIsQuiet DEF FileInv, Die
<1> QED
  BY <1>1, <1>2, <1>3 DEF Next

LEMMA NextFile ==
    ASSUME ~(MayTear /\ CloseRetries)
    PROVE  FileInv /\ [Next]_vars => FileInv'
<1> SUFFICES ASSUME FileInv, [Next]_vars PROVE FileInv'
  OBVIOUS
<1>1. TypeOK' /\ LocksHeld'
  BY StepType, NextLocks DEF FileInv
<1> QED
  BY <1>1, StepCases, QuietKeeps, PutKeeps

LEMMA FileIsSound ==
    ASSUME ~(MayTear /\ CloseRetries)
    PROVE  Spec => []FileInv
  BY InitFile, NextFile, PTL DEF Spec

\* Two threads are never in the critical section of a write at once, of one process or
\* of two, wherever writes are cut short and processes die.
THEOREM WritersAreExclusive == Spec => []OneWriter
<1>1. LocksHeld => OneWriter
  BY AloneWriting DEF OneWriter, Writing
<1> QED
  BY <1>1, InitLocks, NextLocks, PTL DEF Spec
-----------------------------------------------------------------------------
(* What readers get of it.                                                 *)

LEMMA ReadSet == TypeOK => WellFormed \in Seq(Threads) /\ ToSet(WellFormed) = {file[i].by : i \in Parsed}
<1> SUFFICES ASSUME TypeOK PROVE WellFormed \in Seq(Threads) /\ ToSet(WellFormed) = {file[i].by : i \in Parsed}
  OBVIOUS
<1>1. PICK n : n = Len(file)
  OBVIOUS
<1>2. n \in Nat /\ n \in 0 .. n /\ \A i \in 1 .. n : file[i].by \in Threads
  <2>1. n \in Nat
    BY <1>1, LenProperties DEF TypeOK
  <2> QED
    BY <1>1, <2>1, PieceType
<1>3. PICK f : f = CHOOSE h : Scans(h, file, Parsed, n)
  OBVIOUS
<1>4. Scans(f, file, Parsed, n)
  BY <1>2, <1>3, ScanExists
<1>5. WellFormed = f[n]
  BY <1>1, <1>3, ReadScans DEF Scanned
<1>6. f[n] \in Seq(Threads) /\ ToSet(f[n]) = {file[j].by : j \in Parsed \cap (1 .. n)}
  <2>1. WrittenIn(file, Threads, n)
    BY <1>2 DEF WrittenIn
  <2>2. f[n] \in Seq(Threads) /\ ToSet(f[n]) = ReadBefore(file, Parsed, n)
    BY <1>2, <1>4, <2>1, ScanSet
  <2> QED
    BY <2>2 DEF ReadBefore
<1>7. Parsed \cap (1 .. n) = Parsed
  BY <1>1, <1>2 DEF Parsed
<1> QED
  BY <1>5, <1>6, <1>7

\* Where the line of a written record is: its three pieces follow one another.
LEMMA LineOf ==
    ASSUME FileInv, NEW t \in Threads, at[t] \in Written
    PROVE  \E i \in 1 .. Len(file) :
               /\ i > 1 /\ i + 1 \in 1 .. Len(file) /\ i - 1 \in 1 .. Len(file)
               /\ file[i - 1] = Piece(t, "open")
               /\ file[i] = Piece(t, "close")
               /\ file[i + 1] = Piece(t, "newline")
<1>1. PICK k \in 1 .. Len(file) : file[k] = Piece(t, "newline")
  BY DEF FileInv, Accounted
<1>2. Len(file) \in Nat
  BY LenProperties DEF FileInv, TypeOK
<1>3. k > 1 /\ file[k - 1] = Piece(t, "close")
  <2>1. file[k].part = "newline" /\ file[k].by = t
    BY <1>1 DEF Piece
  <2> QED
    BY <2>1 DEF FileInv, Joined
<1>4. k - 1 \in 1 .. Len(file)
  BY <1>2, <1>3
<1>5. k - 1 > 1 /\ file[(k - 1) - 1] = Piece(t, "open")
  <2>1. file[k - 1].part = "close" /\ file[k - 1].by = t
    BY <1>3 DEF Piece
  <2> QED
    BY <1>4, <2>1 DEF FileInv, Joined
<1>6. (k - 1) + 1 = k /\ (k - 1) - 1 \in 1 .. Len(file)
  BY <1>2, <1>4, <1>5
<1> QED
  BY <1>1, <1>3, <1>4, <1>5, <1>6

\* A written record that no reader gets stands on the end of a line that was cut short.
LEMMA LostStandsOnTear ==
    ASSUME FileInv, NEW t \in Threads, at[t] \in Written, t \notin ToSet(WellFormed)
    PROVE  \E i \in 1 .. Len(file) :
               /\ i + 1 \in 1 .. Len(file) /\ file[i + 1] = Piece(t, "open")
               /\ file[i].part # "newline"
               /\ MayTear /\ at[file[i].by] \in Cuts \cup {"failed"}
<1>1. Len(file) \in Nat /\ ToSet(WellFormed) = {file[i].by : i \in Parsed}
  BY ReadSet, LenProperties DEF FileInv, TypeOK
<1>2. PICK i \in 1 .. Len(file) :
               /\ i > 1 /\ i + 1 \in 1 .. Len(file) /\ i - 1 \in 1 .. Len(file)
               /\ file[i - 1] = Piece(t, "open")
               /\ file[i] = Piece(t, "close")
               /\ file[i + 1] = Piece(t, "newline")
  BY LineOf
<1>3. i \notin Parsed
  BY <1>1, <1>2 DEF Piece
<1>4. i # 2 /\ file[i - 2].part # "newline"
  BY <1>1, <1>2, <1>3 DEF Parsed, Piece
<1>5. i - 2 \in 1 .. Len(file) /\ (i - 2) + 1 = i - 1 /\ i - 2 # Len(file)
  BY <1>1, <1>2, <1>4
<1>6. Explained(at[file[i - 2].by], FALSE)
  <2>1. file[i - 2].part # "newline" /\ file[(i - 2) + 1].part = "open"
    BY <1>2, <1>4, <1>5 DEF Piece
  <2>2. Explained(at[file[i - 2].by], i - 2 = Len(file))
    BY <1>5, <2>1 DEF FileInv, TearsExplained
  <2> QED
    BY <1>5, <2>2 DEF Explained
<1>7. MayTear /\ at[file[i - 2].by] \in Cuts \cup {"failed"}
  BY <1>6 DEF Explained
<1> QED
  BY <1>2, <1>4, <1>5, <1>7

\* What is in the file stays there, whatever is torn and whatever is written late.
LEMMA FileGrows ==
    ASSUME TypeOK, TypeOK', [Next]_vars, NEW i \in 1 .. Len(file)
    PROVE  i \in 1 .. Len(file') /\ file'[i] = file[i]
<1> DEFINE S == [by : Threads, part : Pieces]
           Kept(s) == i \in 1 .. Len(s) /\ s[i] = file[i]
<1>0. file \in Seq(S) /\ Len(file) \in Nat
  BY LenProperties DEF TypeOK
<1>1. ASSUME NEW e \in S PROVE Kept(Append(file, e))
  BY <1>0, AppendProperties
<1>2. ASSUME NEW s \in Seq(S) PROVE Kept(file \o s)
  <2>1. Len(s) \in Nat
    BY LenProperties
  <2>2. /\ Len(file \o s) = Len(file) + Len(s)
        /\ \A j \in 1 .. Len(file) + Len(s) :
               (file \o s)[j] = IF j <= Len(file) THEN file[j] ELSE s[j - Len(file)]
    BY <1>0, ConcatProperties
  <2> QED
    BY <1>0, <2>1, <2>2
<1>3. CASE UNCHANGED file
  BY <1>3
<1>4. ASSUME NEW t \in Threads, AppendStep(t) PROVE Kept(file')
  <2>1. CASE WriteOpen(t) \/ WriteClose(t) \/ WriteNewline(t)
    <3>1. PICK p \in Pieces : Put(t, p)
      BY <2>1 DEF WriteOpen, WriteClose, WriteNewline, Pieces
    <3>2. [by |-> t, part |-> p] \in S
      OBVIOUS
    <3> QED
      BY <1>1, <3>1, <3>2 DEF Put
  <2>2. CASE CloseAfterCut(t)
    <3>1. PICK s \in Seq(S) : file' = file \o s
      BY <2>2, LateFlush
    <3> QED
      BY <1>2, <3>1
  <2> QED
    BY <1>3, <1>4, <2>1, <2>2
    DEF AppendStep, EnterMutex, Lock, LockTimeout, Check, Refuse, Unlock, Return
<1> QED
  BY <1>3, <1>4 DEF Next, TornWrite, Die, vars

\* A thread past its opening half has that half in the file.
Opened ==
    \A t \in Threads : at[t] \in {"half", "whole"} \cup Written =>
        \E i \in 1 .. Len(file) : file[i] = Piece(t, "open")

LEMMA OpenedStays ==
    ASSUME TypeOK, TypeOK', Opened, [Next]_vars
    PROVE  Opened'
<1> SUFFICES ASSUME NEW t \in Threads, at'[t] \in {"half", "whole"} \cup Written
             PROVE  \E i \in 1 .. Len(file') : file'[i] = Piece(t, "open")
  BY DEF Opened
<1>1. at[t] \in {"half", "whole"} \cup Written \/ WriteOpen(t)
  <2> USE DEF TypeOK, Written
  <2>1. ASSUME NEW u \in Threads, AppendStep(u) \/ TornWrite(u), ~WriteOpen(t)
        PROVE  at[t] \in {"half", "whole"} \cup Written
    <3>1. CASE u = t
      BY <2>1, <3>1 DEF AppendStep, TornWrite, EnterMutex, Lock, LockTimeout, Check, Refuse,
         WriteClose, WriteNewline, Unlock, Return, CloseAfterCut, Go
    <3>2. CASE u # t
      BY <2>1, <3>2 DEF AppendStep, TornWrite, EnterMutex, Lock, LockTimeout, Check, Refuse,
         WriteOpen, WriteClose, WriteNewline, Unlock, Return, CloseAfterCut, Go
    <3> QED
      BY <3>1, <3>2
  <2>2. ASSUME NEW p \in Processes, Die(p) PROVE at[t] \in {"half", "whole"} \cup Written
    BY <2>2 DEF Die
  <2> QED
    BY <2>1, <2>2 DEF Next, vars
<1>2. CASE at[t] \in {"half", "whole"} \cup Written
  BY <1>2, FileGrows DEF Opened
<1>3. CASE WriteOpen(t)
  <2>1. Put(t, "open") /\ "open" \in Pieces
    BY <1>3 DEF WriteOpen, Pieces
  <2>2. Len(file) \in Nat /\ Len(file') = Len(file) + 1 /\ file'[Len(file) + 1] = Piece(t, "open")
    BY <2>1, PutPieces
  <2> QED
    BY <2>2
<1> QED
  BY <1>1, <1>2, <1>3

\* No loss is silent, wherever writes are cut short, processes die and a late flush goes
\* on with a line: a record is lost only if the line that begins with its opening half
\* does not parse, and of a file that does not decode readers and `ledger verify` get
\* the same exception.
THEOREM LossesAreReported == Spec => []LossIsReported
<1>1. TypeOK /\ Opened => LossIsReported
  <2> SUFFICES ASSUME TypeOK, Opened, NEW t \in Threads, at[t] = "returned",
                      t \notin ToSet(Read.records), Decodes
               PROVE  Broken # {}
    BY DEF LossIsReported, Damaged
  <2>1. PICK i \in 1 .. Len(file) : file[i] = Piece(t, "open")
    BY DEF Opened, Written
  <2>2. ASSUME i + 1 \in Parsed PROVE FALSE
    <3>1. (i + 1) - 1 = i
      OBVIOUS
    <3>2. file[i + 1].by = t
      BY <2>1, <2>2, <3>1 DEF Parsed, Piece
    <3> QED
      BY <2>2, <3>2, ReadSet DEF Read
  <2> QED
    BY <2>1, <2>2 DEF Broken, Piece
<1>2. Init => Opened
  BY DEF Init, Opened, Written
<1>3. TypeOK /\ TypeOK' /\ Opened /\ [Next]_vars => Opened'
  BY OpenedStays
<1> QED
  BY <1>1, <1>2, <1>3, TypeCorrect, PTL DEF Spec

\* Where nothing is flushed late, a failed append takes at most the record that was
\* written on the end of its line with it, of all that are in a file which decodes.
THEOREM TearsCostAtMostTwo ==
    ASSUME ~CloseRetries
    PROVE  Spec => []TearCostsAtMostTwo
<1>1. ASSUME FileInv PROVE Cardinality(Lost) <= Cardinality(Failed)
  <2> DEFINE StandsOn(t, i) ==
                 /\ i + 1 \in 1 .. Len(file) /\ file[i + 1] = Piece(t, "open")
                 /\ file[i].part # "newline"
                 /\ at[file[i].by] \in Cuts \cup {"failed"}
             culprit == [t \in Lost |-> file[CHOOSE i \in 1 .. Len(file) : StandsOn(t, i)].by]
  <2>1. \A t \in Lost : \E i \in 1 .. Len(file) : StandsOn(t, i)
    BY <1>1, LostStandsOnTear DEF Lost, Written
  <2>2. \A t \in Lost : \E i \in 1 .. Len(file) : StandsOn(t, i) /\ culprit[t] = file[i].by
    BY <2>1
  <2>3. culprit \in [Lost -> Failed]
    BY <1>1, <2>2, PieceType DEF FileInv, Failed
  <2>4. ASSUME NEW t \in Lost, NEW u \in Lost, culprit[t] = culprit[u] PROVE t = u
    <3>1. PICK i \in 1 .. Len(file) : StandsOn(t, i) /\ culprit[t] = file[i].by
      BY <2>2
    <3>2. PICK j \in 1 .. Len(file) : StandsOn(u, j) /\ culprit[u] = file[j].by
      BY <2>2
    <3> HIDE DEF culprit
    <3>3. file[i].by = file[j].by /\ Len(file) \in Nat
      BY <1>1, <2>4, <3>1, <3>2, LenProperties DEF FileInv, TypeOK
    <3>4. /\ file[i].part \in Pieces /\ file[j].part \in Pieces
          /\ file[i] = Piece(file[i].by, file[i].part) /\ file[j] = Piece(file[j].by, file[j].part)
      BY <1>1, PieceType DEF FileInv
    <3>5. file[i + 1] = Piece(t, "open") /\ file[j + 1] = Piece(u, "open")
          /\ i + 1 \in 1 .. Len(file) /\ j + 1 \in 1 .. Len(file)
          /\ file[i].part # "newline" /\ file[j].part # "newline"
      BY <3>1, <3>2
    <3>6. ASSUME NEW k \in 1 .. Len(file), NEW l \in 1 .. Len(file), NEW v,
                 file[k].part = "open", file[k] = Piece(file[k].by, file[k].part),
                 k + 1 \in 1 .. Len(file), file[k + 1] = Piece(v, "open"),
                 file[l].by = file[k].by, file[l].part = "close"
          PROVE  FALSE
      <4>1. l > 1 /\ file[l - 1] = file[k] /\ l - 1 \in 1 .. Len(file)
        BY <1>1, <3>3, <3>6 DEF FileInv, Joined
      <4>2. l - 1 = k
        BY <1>1, <4>1 DEF FileInv, Once
      <4>3. l = k + 1
        BY <3>3, <4>2
      <4> QED
        BY <3>6, <4>3 DEF Piece
    <3>7. file[i].part = file[j].part
      BY <3>3, <3>4, <3>5, <3>6 DEF Pieces
    <3>8. i = j
      BY <1>1, <3>3, <3>4, <3>7 DEF FileInv, Once
    <3>9. Piece(t, "open") = Piece(u, "open")
      BY <3>5, <3>8
    <3> QED
      BY <3>9 DEF Piece
  <2>5. culprit \in Injection(Lost, Failed)
    <3> HIDE DEF culprit
    <3> QED
      BY <2>3, <2>4 DEF Injection, IsInjective
  <2>6. IsFiniteSet(Lost) /\ IsFiniteSet(Failed)
    BY LogAssumption, FS_Subset DEF Lost, Failed
  <2> HIDE DEF culprit
  <2> QED
    BY <2>5, <2>6, FS_Injection
<1>2. ASSUME FileInv PROVE TearCostsAtMostTwo
  <2>1. IsFiniteSet(Failed) /\ Cardinality(Failed) \in Nat
    BY LogAssumption, FS_Subset, FS_CardinalityType DEF Failed
  <2> QED
    BY <1>1, <1>2, <2>1 DEF TearCostsAtMostTwo
<1> QED
  BY <1>2, FileIsSound, PTL

\* While nothing is cut short, a record whose `append` returned is read by everyone,
\* at every moment of every other write.
THEOREM ReturnedIsAlwaysRead ==
    ASSUME ~MayTear
    PROVE  Spec => []ReturnedIsRead
<1>1. FileInv => ReturnedIsRead
  BY LostStandsOnTear DEF ReturnedIsRead, Read, Written
<1> QED
  BY <1>1, FileIsSound, PTL
-----------------------------------------------------------------------------
(* How what readers get grows: with the closing half of a line, and with   *)
(* nothing else.                                                           *)

LEMMA ParsedPut ==
    ASSUME TypeOK, NEW t \in Threads, NEW p \in Pieces, Put(t, p)
    PROVE  /\ Parsed' \subseteq 1 .. Len(file) + 1
           /\ \A i \in 1 .. Len(file) :
                 i \in Parsed' <=> i \in Parsed /\ (i = Len(file) => p = "newline")
           /\ Len(file) + 1 \in Parsed' <=>
                 /\ p = "close" /\ Len(file) > 0 /\ file[Len(file)] = Piece(t, "open")
                 /\ Len(file) = 1 \/ file[Len(file) - 1].part = "newline"
<1> DEFINE n == Len(file)
<1>1. /\ n \in Nat /\ Len(file') = n + 1
      /\ \A i \in 1 .. n : file'[i] = file[i]
      /\ file'[n + 1] = Piece(t, p) /\ Piece(t, p).by = t /\ Piece(t, p).part = p
  BY PutPieces
<1>2. Parsed' \subseteq 1 .. n + 1
  BY <1>1 DEF Parsed
<1>3. ASSUME NEW i \in 1 .. n
      PROVE  i \in Parsed' <=> i \in Parsed /\ (i = n => p = "newline")
  <2>1. i < n => (file'[i + 1] = file[i + 1])
    BY <1>1
  <2>2. i = n => file'[i + 1].part = p
    BY <1>1
  <2>3. file'[i] = file[i] /\ (i > 1 => file'[i - 1] = file[i - 1]) /\ (i > 2 => file'[i - 2] = file[i - 2])
    BY <1>1
  <2> QED
    BY <1>1, <2>1, <2>2, <2>3 DEF Parsed
<1>4. n + 1 \in Parsed' <=> /\ p = "close" /\ n > 0 /\ file[n] = Piece(t, "open")
                            /\ n = 1 \/ file[n - 1].part = "newline"
  <2>1. (n + 1) - 1 = n /\ (n + 1) - 2 = n - 1
    BY <1>1
  <2>2. (n > 0 => file'[n] = file[n]) /\ (n > 1 => file'[n - 1] = file[n - 1])
    BY <1>1
  <2> QED
    BY <1>1, <2>1, <2>2 DEF Parsed, Piece
<1> QED
  BY <1>2, <1>3, <1>4

\* What a writer adds: its own record, when it closes the line, and never another.
LEMMA ReadPutSet ==
    ASSUME FileInv, TypeOK', NEW t \in Threads, NEW p \in Pieces, Puts(t, p)
    PROVE  ToSet(WellFormed') \subseteq ToSet(WellFormed) \cup (IF p = "close" THEN {t} ELSE {})
<1>1. ToSet(WellFormed) = {file[i].by : i \in Parsed}
  BY ReadSet DEF FileInv
<1>2. (ToSet(WellFormed) = {file[i].by : i \in Parsed})'
  <2>1. (TypeOK => WellFormed \in Seq(Threads) /\ ToSet(WellFormed) = {file[i].by : i \in Parsed})'
    BY ReadSet, PTL
  <2> QED
    BY <2>1
<1>3. ASSUME NEW i \in Parsed'
      PROVE  \/ i \in Parsed /\ file'[i] = file[i]
             \/ p = "close" /\ file'[i].by = t
  <2>1. i \in 1 .. Len(file) + 1 /\ Len(file) \in Nat
    BY <1>3, ParsedPut, PutPieces DEF FileInv, Puts
  <2>2. CASE i \in 1 .. Len(file)
    BY <1>3, <2>2, ParsedPut, PutPieces DEF FileInv, Puts
  <2>3. CASE i = Len(file) + 1
    BY <1>3, <2>3, ParsedPut, PutPieces DEF FileInv, Puts
  <2> QED
    BY <2>1, <2>2, <2>3
<1> QED
  BY <1>1, <1>2, <1>3

\* No record that readers get makes the claim of a record about to be written.
Unclaimed(t) == ClaimOf[t] = NoClaim \/ \A s \in ToSet(WellFormed) : ClaimOf[s] # ClaimOf[t]

ClaimsHeld == \A t \in Threads : at[t] \in {"checked", "half"} => Unclaimed(t)

LEMMA PassesIsUnclaimed == ASSUME NEW t \in Threads, Passes(t) PROVE Unclaimed(t)
  BY DEF Passes, Unclaimed, Read

\* While nothing is flushed late, a precondition that passed goes on holding until the
\* record is in.
LEMMA ClaimsKept ==
    ASSUME ~(MayTear /\ CloseRetries), FileInv, FileInv', ClaimsHeld, [Next]_vars
    PROVE  ClaimsHeld'
<1>1. \A s \in Threads : at'[s] = "checked" => at[s] = "checked" \/ Unclaimed(s)
  <2>1. ASSUME NEW t \in Threads, AppendStep(t) \/ TornWrite(t), NEW s \in Threads, at'[s] = "checked"
        PROVE  at[s] = "checked" \/ Unclaimed(s)
    <3>1. CASE s = t
      BY <2>1, <3>1, PassesIsUnclaimed DEF FileInv, TypeOK, AppendStep, TornWrite, EnterMutex, Lock, LockTimeout, Check,
         Refuse, WriteOpen, WriteClose, WriteNewline, Unlock, Return, CloseAfterCut, Go
    <3>2. CASE s # t
      BY <2>1, <3>2 DEF FileInv, TypeOK, AppendStep, TornWrite, EnterMutex, Lock, LockTimeout, Check,
         Refuse, WriteOpen, WriteClose, WriteNewline, Unlock, Return, CloseAfterCut, Go
    <3> QED
      BY <3>1, <3>2
  <2>2. ASSUME NEW p \in Processes, Die(p), NEW s \in Threads, at'[s] = "checked"
        PROVE  at[s] = "checked"
    BY <2>2 DEF Die
  <2> QED
    BY <2>1, <2>2 DEF Next, vars
<1>2. CASE \E t \in Threads, p \in Pieces : Puts(t, p)
  <2>1. PICK t \in Threads, p \in Pieces : Puts(t, p)
    BY <1>2
  <2>2. ToSet(WellFormed') \subseteq ToSet(WellFormed) \cup (IF p = "close" THEN {t} ELSE {})
    BY <2>1, ReadPutSet DEF FileInv
  <2>3. /\ at \in [Threads -> Steps] /\ t \in Writing /\ at[t] \in {"checked", "half", "whole"}
        /\ p = "close" => at[t] = "half" /\ at'[t] = "whole"
        /\ at'[t] \in {"checked", "half"} => at[t] = "checked"
        /\ \A s \in Threads \ {t} : at'[s] = at[s]
    BY <2>1 DEF FileInv, TypeOK, Puts, Go, Writing
  <2>5. \A s \in Threads \ {t} : at[s] \notin {"checked", "half"}
    BY <2>3, AloneWriting DEF FileInv, Writing
  <2>7. at'[t] \in {"checked", "half"} => Unclaimed(t)'
    BY <2>2, <2>3 DEF ClaimsHeld, Unclaimed
  <2> QED
    BY <2>3, <2>5, <2>7 DEF ClaimsHeld
<1>3. CASE UNCHANGED file /\ \A s \in Threads : Quiet(s)
  <2>1. WellFormed' = WellFormed
    BY <1>3 DEF WellFormed, Parsed
  <2>2. \A s \in Threads : at'[s] = "half" => at[s] = "half"
    BY <1>3 DEF Quiet
  <2> QED
    BY <1>1, <2>1, <2>2 DEF ClaimsHeld, Unclaimed
<1> QED
  BY <1>2, <1>3, StepCases DEF FileInv

LEMMA EmptyRead == Init => WellFormed = <<>>
<1> SUFFICES ASSUME Init PROVE WellFormed = <<>>
  OBVIOUS
<1>1. Len(file) = 0
  BY DEF Init
<1>2. PICK f : f = CHOOSE h : Scans(h, file, Parsed, 0)
  OBVIOUS
<1>3. Scans(f, file, Parsed, 0)
  BY <1>2, ScanExists
<1>4. f[0] = <<>>
  BY <1>3, ScanAt
<1> QED
  BY <1>1, <1>2, <1>4, ReadScans DEF Scanned

-----------------------------------------------------------------------------
(* Claims, wherever writes are cut short and whatever is flushed late.     *)

\* What an append adds to what the lines that parse hold: its own record, in closing
\* the line or in the flush that closing the file repeats, and never another.
LEMMA StepReads ==
    ASSUME TypeOK, TypeOK', NEW t \in Threads, AppendStep(t) \/ TornWrite(t)
    PROVE  \/ ToSet(WellFormed') \subseteq ToSet(WellFormed)
           \/ /\ WriteClose(t) \/ CloseAfterCut(t)
              /\ ToSet(WellFormed') \subseteq ToSet(WellFormed) \cup {t}
<1> DEFINE n == Len(file)
<1>1. /\ ToSet(WellFormed) = {file[i].by : i \in Parsed}
      /\ ToSet(WellFormed') = {file'[i].by : i \in Parsed'}
  <2>1. (TypeOK => WellFormed \in Seq(Threads) /\ ToSet(WellFormed) = {file[i].by : i \in Parsed})'
    BY ReadSet, PTL
  <2> QED
    BY <2>1, ReadSet
<1>2. CASE UNCHANGED file
  BY <1>2 DEF WellFormed, Parsed
<1>3. ASSUME NEW p \in Pieces, Put(t, p), p = "close" => WriteClose(t)
      PROVE  \/ ToSet(WellFormed') \subseteq ToSet(WellFormed)
             \/ WriteClose(t) /\ ToSet(WellFormed') \subseteq ToSet(WellFormed) \cup {t}
  <2>1. ASSUME NEW i \in Parsed'
        PROVE  \/ i \in Parsed /\ file'[i] = file[i]
               \/ p = "close" /\ file'[i].by = t
    <3>1. i \in 1 .. n + 1 /\ n \in Nat
      BY <1>3, <2>1, ParsedPut, PutPieces
    <3>2. CASE i \in 1 .. n
      BY <1>3, <2>1, <3>2, ParsedPut, PutPieces
    <3>3. CASE i = n + 1
      BY <1>3, <2>1, <3>3, ParsedPut, PutPieces
    <3> QED
      BY <3>1, <3>2, <3>3
  <2> QED
    BY <1>1, <1>3, <2>1
<1>4. CASE CloseAfterCut(t)
  <2>1. PICK s \in Seq([by : Threads, part : Pieces]) :
            file' = file \o s /\ \A i \in 1 .. Len(s) : s[i].by = t
    BY <1>4, LateFlush
  <2>2. n \in Nat /\ Len(s) \in Nat
    BY LenProperties DEF TypeOK
  <2>3. /\ Len(file') = n + Len(s)
        /\ \A j \in 1 .. n + Len(s) : file'[j] = IF j <= n THEN file[j] ELSE s[j - n]
    BY <2>1, ConcatProperties DEF TypeOK
  <2>4. ASSUME NEW i \in Parsed'
        PROVE  (i \in Parsed /\ file'[i] = file[i]) \/ file'[i].by = t
    <3>1. i \in 2 .. n + Len(s)
      BY <2>3, <2>4 DEF Parsed
    <3>2. CASE i <= n
      <4>1. /\ file'[i] = file[i] /\ file'[i - 1] = file[i - 1]
            /\ i # 2 => file'[i - 2] = file[i - 2]
            /\ i # n => file'[i + 1] = file[i + 1]
        BY <2>2, <2>3, <3>1, <3>2
      <4>2. i \in 2 .. n /\ (i # n => i # Len(file'))
        BY <2>2, <2>3, <3>1, <3>2
      <4> QED
        BY <2>4, <4>1, <4>2 DEF Parsed
    <3>3. CASE i > n
      <4>1. i - n \in 1 .. Len(s) /\ file'[i] = s[i - n]
        BY <2>2, <2>3, <3>1, <3>3
      <4> QED
        BY <2>1, <4>1
    <3> QED
      BY <2>2, <3>1, <3>2, <3>3
  <2> QED
    BY <1>1, <1>4, <2>4
<1>5. CASE WriteOpen(t)
  BY <1>3, <1>5 DEF WriteOpen, Pieces
<1>6. CASE WriteClose(t)
  BY <1>3, <1>6 DEF WriteClose, Pieces
<1>7. CASE WriteNewline(t)
  BY <1>3, <1>7 DEF WriteNewline, Pieces
<1> QED
  BY <1>2, <1>4, <1>5, <1>6, <1>7 DEF AppendStep, TornWrite, EnterMutex, Lock, LockTimeout, Check,
     Refuse, Unlock, Return

\* A claim about to be written is made by nobody whose append did not fail.
ClaimsGuarded ==
    /\ ClaimsAreUnique
    /\ \A t \in Threads : at[t] \in {"checked", "half"} /\ ClaimOf[t] # NoClaim =>
          \A s \in ToSet(WellFormed) \ Failed : ClaimOf[s] # ClaimOf[t]

LEMMA ClaimsGuardedStep ==
    ASSUME TypeOK, TypeOK', LocksHeld, ClaimsGuarded, [Next]_vars
    PROVE  ClaimsGuarded'
<1>1. CASE UNCHANGED vars
  <2>1. UNCHANGED <<WellFormed, Failed, at>>
    BY <1>1 DEF vars, WellFormed, Parsed, Failed
  <2> QED
    BY <2>1 DEF ClaimsGuarded, ClaimsAreUnique
<1>2. ASSUME NEW t \in Threads, AppendStep(t) \/ TornWrite(t) PROVE ClaimsGuarded'
  <2>1. /\ \A s \in Threads \ {t} : at'[s] = at[s]
        /\ at'[t] = "checked" => at[t] = "locked" /\ Passes(t)
        /\ at'[t] = "half" => at[t] = "checked"
        /\ t \in Failed => t \in Failed'
        /\ WriteClose(t) => at[t] = "half" /\ at'[t] = "whole"
        /\ CloseAfterCut(t) => t \in Failed'
    BY <1>2 DEF TypeOK, AppendStep, TornWrite, EnterMutex, Lock, LockTimeout, Check, Refuse,
       WriteOpen, WriteClose, WriteNewline, Unlock, Return, CloseAfterCut, Go, Failed, Cuts
  <2>2. Failed \subseteq Failed'
    BY <2>1 DEF Failed
  <2>3. \/ ToSet(WellFormed') \ Failed' \subseteq ToSet(WellFormed) \ Failed
        \/ /\ WriteClose(t)
           /\ ToSet(WellFormed') \ Failed' \subseteq (ToSet(WellFormed) \ Failed) \cup {t}
    BY <1>2, <2>1, <2>2, StepReads
  <2>4. WriteClose(t) /\ ClaimOf[t] # NoClaim =>
            \A s \in ToSet(WellFormed) \ Failed : ClaimOf[s] # ClaimOf[t]
    BY <2>1 DEF ClaimsGuarded
  <2>5. ClaimsAreUnique'
    BY <2>3, <2>4 DEF ClaimsGuarded, ClaimsAreUnique
  <2>6. ASSUME NEW s \in Threads, at'[s] \in {"checked", "half"}, ClaimOf[s] # NoClaim,
               NEW r \in ToSet(WellFormed') \ Failed'
        PROVE  ClaimOf[r] # ClaimOf[s]
    <3>1. WriteClose(t) => s = t
      <4>1. WriteClose(t) /\ s # t => t \in Writing /\ s \in Writing
        BY <2>1, <2>6 DEF Writing
      <4> QED
        BY <4>1, AloneWriting
    <3>2. ~WriteClose(t)
      BY <2>1, <2>6, <3>1
    <3>3. r \in ToSet(WellFormed) \ Failed
      BY <2>3, <2>6, <3>2
    <3>4. CASE at[s] \in {"checked", "half"}
      BY <2>6, <3>3, <3>4 DEF ClaimsGuarded
    <3>5. CASE at[s] \notin {"checked", "half"}
      <4>1. Passes(s)
        BY <2>1, <2>6, <3>5
      <4> QED
        BY <2>6, <3>3, <4>1, PassesIsUnclaimed DEF Unclaimed
    <3> QED
      BY <3>4, <3>5
  <2> QED
    BY <2>5, <2>6 DEF ClaimsGuarded
<1>3. ASSUME NEW p \in Processes, Die(p) PROVE ClaimsGuarded'
  <2>1. /\ WellFormed' = WellFormed
        /\ \A s \in Threads : at'[s] = at[s] \/ at'[s] = "failed"
    BY <1>3 DEF Die, WellFormed, Parsed
  <2>2. Failed \subseteq Failed'
    BY <2>1 DEF Failed
  <2> QED
    BY <2>1, <2>2 DEF ClaimsGuarded, ClaimsAreUnique
<1> QED
  BY <1>1, <1>2, <1>3 DEF Next

\* No claim is made by two appends of which neither failed, although the precondition is
\* evaluated in one step and the line lands in later ones, although writers die in
\* between, and whatever a failed write still puts in the file when it is closed.
THEOREM ClaimsStayUnique == Spec => []ClaimsAreUnique
<1>1. Init => ClaimsGuarded
  BY EmptyRead DEF ClaimsGuarded, ClaimsAreUnique, Init, ToSet
<1>2. TypeOK /\ TypeOK' /\ LocksHeld /\ ClaimsGuarded /\ [Next]_vars => ClaimsGuarded'
  BY ClaimsGuardedStep
<1>3. ClaimsGuarded => ClaimsAreUnique
  BY DEF ClaimsGuarded
<1> QED
  BY <1>1, <1>2, <1>3, TypeCorrect, InitLocks, NextLocks, PTL DEF Spec
-----------------------------------------------------------------------------
(* The file is the abstract log.                                           *)

\* While nothing is cut short, every closing half adds its record to what readers get,
\* and no other piece changes that.
LEMMA ReadPut ==
    ASSUME ~MayTear, FileInv, NEW t \in Threads, NEW p \in Pieces, Puts(t, p)
    PROVE  WellFormed' = IF p = "close" THEN Append(WellFormed, t) ELSE WellFormed
<1> DEFINE n == Len(file)
<1>1. /\ n \in Nat /\ Len(file') = n + 1
      /\ Piece(t, p).by = t /\ Piece(t, p).part = p
      /\ Piece(t, p) \in [by : Threads, part : Pieces]
      /\ file \in Seq([by : Threads, part : Pieces])
      /\ file' = Append(file, Piece(t, p))
  BY PutPieces DEF FileInv, Puts, Put, Piece, TypeOK
<1>2. /\ p = "open" => at[t] = "checked"
      /\ p = "close" => at[t] = "half"
      /\ p = "newline" => at[t] = "whole"
      /\ t \in Writing
  BY DEF Puts, Go, Writing, Pieces
<1>3. p = "close" => n > 0 /\ file[n] = Piece(t, "open")
  BY <1>2 DEF FileInv, Accounted
<1>4. p = "open" /\ n > 0 => file[n].part = "newline"
  <2>1. SUFFICES ASSUME p = "open", n > 0, file[n].part # "newline" PROVE FALSE
    OBVIOUS
  <2>2. n \in 1 .. n /\ file[n].by \in Threads
    BY <1>1, <2>1, PieceType DEF FileInv
  <2>3. at[file[n].by] \in {"half", "whole"}
    BY <2>1, <2>2 DEF FileInv, TearsExplained, Explained
  <2>4. file[n].by = t
    BY <1>2, <2>2, <2>3, AloneWriting DEF FileInv, Writing
  <2> QED
    BY <1>2, <2>1, <2>3, <2>4
<1>5. p = "close" /\ n # 1 => file[n - 1].part = "newline"
  <2>1. SUFFICES ASSUME p = "close", n # 1, file[n - 1].part # "newline" PROVE FALSE
    OBVIOUS
  <2>2. n > 1 /\ file[n].part = "open"
    <3>1. n > 0 /\ file[n] = Piece(t, "open")
      BY <1>3, <2>1
    <3>2. file[n].part = "open"
      BY <3>1 DEF Piece
    <3>3. n \in Nat /\ n # 1
      BY <1>1, <2>1
    <3> HIDE DEF n
    <3> QED
      BY <3>1, <3>2, <3>3
  <2>3. n - 1 \in 1 .. n /\ n - 1 # n /\ (n - 1) + 1 = n
    BY <1>1, <2>2
  <2> QED
    BY <2>1, <2>2, <2>3 DEF FileInv, TearsExplained, Explained
<1>6. n \in Parsed => n > 0 /\ file[n].part = "close"
  BY <1>1 DEF Parsed
<1>7. \A i \in 1 .. n : i \in Parsed <=> i \in Parsed'
  <2>1. n \in Parsed => p = "newline"
    BY <1>3, <1>4, <1>6 DEF Pieces, Piece
  <2> QED
    BY <2>1, ParsedPut DEF FileInv, Puts
<1>8. n + 1 \in Parsed' <=> p = "close"
  BY <1>1, <1>3, <1>5, ParsedPut DEF FileInv, Puts
<1>9. (WellFormed = Scanned(file, Parsed))'
  BY ReadScans, PTL
<1>10. PICK longer, L, m : longer = file' /\ L = Parsed' /\ m = n + 1
  OBVIOUS
<1>11. n \in Nat /\ m \in Nat /\ m = n + 1 /\ n = Len(file) /\ m = Len(longer)
  BY <1>1, <1>10
<1>12. Alike(file, Parsed, longer, L, n)
  BY <1>7, <1>10, PutPieces DEF FileInv, Puts, Alike, SameUpTo
<1>13. Scanned(longer, L) = IF m \in L THEN Append(Scanned(file, Parsed), longer[m].by) ELSE Scanned(file, Parsed)
  BY <1>11, <1>12, ScanAppend
<1>14. longer[m].by = t
  BY <1>1, <1>10, PutPieces DEF FileInv, Puts
<1> QED
  BY <1>8, <1>9, <1>10, <1>13, <1>14, ReadScans

\* Every step of the protocol appends to what readers get a record whose claim is not
\* there, or leaves it alone.
LEMMA StepIsCommit ==
    ASSUME ~MayTear, FileInv, ClaimsHeld, [Next]_vars
    PROVE  [Abstract!Next]_WellFormed
<1>1. CASE \E t \in Threads, p \in Pieces : Puts(t, p)
  <2>1. PICK t \in Threads, p \in Pieces : Puts(t, p)
    BY <1>1
  <2>2. WellFormed' = IF p = "close" THEN Append(WellFormed, t) ELSE WellFormed
    BY <2>1, ReadPut
  <2>3. p = "close" => Unclaimed(t)
    BY <2>1 DEF Puts, Go, ClaimsHeld
  <2>4. p = "close" => ClaimOf[t] = NoClaim \/ ClaimOf[t] \notin Abstract!Claims(WellFormed)
    BY <2>3 DEF Unclaimed, Abstract!Claims, Abstract!ToSet, ToSet
  <2> QED
    BY <2>2, <2>4 DEF Abstract!Next, Abstract!Commit
<1>2. CASE UNCHANGED file /\ \A s \in Threads : Quiet(s)
  BY <1>2 DEF WellFormed, Parsed
<1> QED
  BY <1>1, <1>2, StepCases DEF FileInv

\* A ledger file implements the append-only log whose appends are atomic with their
\* preconditions, whoever dies, as long as no write is cut short.
THEOREM FileIsAppendLog ==
    ASSUME ~MayTear
    PROVE  Spec => ImplementsAppendLog
<1>1. Init => ClaimsHeld /\ Abstract!Init
  BY EmptyRead DEF ClaimsHeld, Init, Abstract!Init
<1>2. FileInv /\ FileInv' /\ ClaimsHeld /\ [Next]_vars => ClaimsHeld'
  BY ClaimsKept
<1>3. FileInv /\ ClaimsHeld /\ [Next]_vars => [Abstract!Next]_WellFormed
  BY StepIsCommit
<1> QED
  BY <1>1, <1>2, <1>3, FileIsSound, PTL DEF Spec, ImplementsAppendLog, Abstract!Spec
=============================================================================
