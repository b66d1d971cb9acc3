---------------------------- MODULE LogFileProofs ----------------------------
(***************************************************************************)
(* Proofs about LogFile, for any number of processes and any threshold:    *)
(* what one process alone may rely on between the steps of its New, and    *)
(* that only the rotation of another takes it away.                        *)
(***************************************************************************)
EXTENDS LogFile, FiniteSetTheorems, TLAPS

-----------------------------------------------------------------------------
(* Type correctness *)

LEMMA TypeInit ==
  ASSUME LogAssumption PROVE Init => TypeOK
  BY DEF LogAssumption, Init, TypeOK, Opening

LEMMA InUseStays ==
  ASSUME TypeOK
  PROVE  Remaining \in [Files -> Nat]
  BY DEF TypeOK, Remaining

LEMMA TypeNext ==
  ASSUME LogAssumption, TypeOK, [Next]_vars
  PROVE  TypeOK'
<1> USE DEF LogAssumption, TypeOK, Opening
<1>1. ASSUME NEW p \in Procs, Stat(p) PROVE TypeOK'
  BY <1>1 DEF Stat
<1>2. ASSUME NEW p \in Procs, Rename(p) PROVE TypeOK'
  BY <1>2, InUseStays DEF Rename, Exists
<1>3. ASSUME NEW p \in Procs, RenameFails(p) PROVE TypeOK'
  BY <1>3 DEF RenameFails
<1>4. ASSUME NEW p \in Procs, Open(p) PROVE TypeOK'
  <2>1. PICK f \in IF Exists THEN {names["log"]} ELSE Files \ InUse :
          /\ names' = [names EXCEPT !["log"] = f]
          /\ held' = [held EXCEPT ![p] = f]
    BY <1>4 DEF Open
  <2>2. f \in Files
    BY DEF Exists
  <2>3. names' \in [{"log", "backup"} -> Files \cup {NoFile}]
    BY <2>1, <2>2
  <2>4. held' \in [Procs -> Files \cup {NoFile}]
    BY <2>1, <2>2
  <2>5. \A q \in Procs : held'[q] # NoFile <=> logger'[q] \in {"chmod", "ready"}
    BY <1>4, <2>1, <2>2 DEF Open
  <2> QED
    BY <1>4, <2>3, <2>4, <2>5 DEF Open
<1>5. ASSUME NEW p \in Procs, Chmod(p) PROVE TypeOK'
  BY <1>5 DEF Chmod
<1>6. ASSUME NEW p \in Procs, ChmodFails(p) PROVE TypeOK'
  BY <1>6, InUseStays DEF ChmodFails
<1>7. ASSUME NEW p \in Procs, Append(p) PROVE TypeOK'
  BY <1>7 DEF Append
<1>8. ASSUME NEW p \in Procs, Close(p) PROVE TypeOK'
  BY <1>8, InUseStays DEF Close
<1>9. CASE UNCHANGED vars
  BY <1>9 DEF vars
<1> QED
  BY <1>1, <1>2, <1>3, <1>4, <1>5, <1>6, <1>7, <1>8, <1>9 DEF Next, New

\* The variables keep their types, and a process holds a file exactly while
\* its logger is in use, for any processes and any sizes.
THEOREM TypeCorrect ==
  ASSUME LogAssumption PROVE Spec => []TypeOK
<1>1. TypeOK /\ [Next]_vars => TypeOK'
  BY TypeNext
<1> QED
  BY <1>1, TypeInit, PTL DEF Spec

-----------------------------------------------------------------------------
(* What an undisturbed New may rely on *)

\* The file just opened still has its name.
OpenedInv == \A p \in Procs : logger[p] = "chmod" /\ ~disturbed[p] => Exists

IInv == RotationKeepsHistory /\ OpenedInv /\ FailsInARaceOnly

LEMMA IInvInit == Init => IInv
  BY DEF Init, IInv, RotationKeepsHistory, OpenedInv, FailsInARaceOnly

\* A step that only removes files nobody can reach keeps the log.
LEMMA LogRemains ==
  ASSUME TypeOK, Exists, names' = names, size' = Remaining, NoFile \notin Files
  PROVE  Exists' /\ size'[names'["log"]] = size[names["log"]]
  BY DEF TypeOK, Exists, Remaining, InUse

LEMMA IInvNext ==
  ASSUME LogAssumption, TypeOK, IInv, [Next]_vars
  PROVE  IInv'
<1> USE DEF LogAssumption, TypeOK, Opening, IInv, RotationKeepsHistory, OpenedInv,
            FailsInARaceOnly
<1>1. ASSUME NEW p \in Procs, Stat(p) PROVE IInv'
  BY <1>1 DEF Stat, Exists, TooLarge
<1>2. ASSUME NEW p \in Procs, Rename(p) PROVE IInv'
  <2>1. \A q \in Procs : q # p /\ logger'[q] \in Opening => disturbed'[q]
    BY <1>2 DEF Rename
  <2>2. logger'[p] = "open"
    BY <1>2 DEF Rename
  <2>3. \A q \in Procs : logger'[q] = "failed" => logger[q] = "failed" /\ disturbed'[q]
    BY <1>2 DEF Rename
  <2> QED
    BY <2>1, <2>2, <2>3
<1>3. ASSUME NEW p \in Procs, RenameFails(p) PROVE IInv'
  BY <1>3 DEF RenameFails, Exists
<1>4. ASSUME NEW p \in Procs, Open(p) PROVE IInv'
  <2>1. PICK f \in IF Exists THEN {names["log"]} ELSE Files \ InUse :
          /\ names' = [names EXCEPT !["log"] = f]
          /\ held' = [held EXCEPT ![p] = f]
    BY <1>4 DEF Open
  <2>2. Exists' /\ (Exists => names' = names) /\ size' = size
    BY <1>4, <2>1 DEF Open, Exists
  <2>3. /\ logger' = [logger EXCEPT ![p] = "chmod"]
        /\ disturbed' = disturbed
    BY <1>4 DEF Open
  <2>4. RotationKeepsHistory'
    BY <2>2, <2>3
  <2>5. OpenedInv'
    BY <2>2
  <2>6. FailsInARaceOnly'
    BY <2>3
  <2> QED
    BY <2>4, <2>5, <2>6
<1>5. ASSUME NEW p \in Procs, Chmod(p) PROVE IInv'
  BY <1>5 DEF Chmod, Exists
<1>6. ASSUME NEW p \in Procs, ChmodFails(p) PROVE IInv'
  <2>1. \A q \in Procs : disturbed'[q] = disturbed[q]
    BY <1>6 DEF ChmodFails
  <2>2. \A q \in Procs : logger'[q] \in Opening => logger'[q] = logger[q]
    BY <1>6 DEF ChmodFails
  <2>3. disturbed[p]
    BY <1>6 DEF ChmodFails
  <2>4. ~Exists /\ ~Exists'
    BY <1>6 DEF ChmodFails, Exists
  <2> QED
    BY <1>6, <2>1, <2>2, <2>3, <2>4 DEF ChmodFails
<1>7. ASSUME NEW p \in Procs, Append(p) PROVE IInv'
  <2>1. held[p] \in Files
    BY <1>7 DEF Append
  <2>2. \A f \in Files : size'[f] >= size[f]
    BY <1>7, <2>1 DEF Append
  <2>3. Exists => names["log"] \in Files
    BY DEF Exists
  <2>4. /\ names' = names
        /\ logger' = logger
        /\ disturbed' = disturbed
        /\ size' \in [Files -> Nat]
    BY <1>7, <2>1 DEF Append
  <2> QED
    BY <2>2, <2>3, <2>4 DEF Exists
<1>8. ASSUME NEW p \in Procs, Close(p) PROVE IInv'
  <2>1. \A q \in Procs : q # p => disturbed'[q] = disturbed[q] /\ logger'[q] = logger[q]
    BY <1>8 DEF Close
  <2>2. logger'[p] = "none"
    BY <1>8 DEF Close
  <2>3. Exists => Exists' /\ size'[names'["log"]] = size[names["log"]]
    BY <1>8, LogRemains DEF Close
  <2> QED
    BY <2>1, <2>2, <2>3
<1>9. CASE UNCHANGED vars
  BY <1>9 DEF vars, Exists
<1> QED
  BY <1>1, <1>2, <1>3, <1>4, <1>5, <1>6, <1>7, <1>8, <1>9 DEF Next, New

LEMMA IInvCorrect ==
  ASSUME LogAssumption PROVE Spec => []IInv
<1>1. TypeOK /\ IInv /\ [Next]_vars => IInv'
  BY IInvNext
<1> QED
  BY <1>1, IInvInit, TypeCorrect, PTL DEF Spec

\* For any processes: a process that nobody has disturbed renames a log that
\* has reached the threshold.
THEOREM RotationTheorem ==
  ASSUME LogAssumption PROVE Spec => []RotationKeepsHistory
  BY IInvCorrect, PTL DEF IInv

\* For any processes: New fails between its steps in a race only.
THEOREM RaceTheorem ==
  ASSUME LogAssumption PROVE Spec => []FailsInARaceOnly
  BY IInvCorrect, PTL DEF IInv

-----------------------------------------------------------------------------
(* How far a file can grow *)

\* A file that is not in use is empty.
FreeInv == \A f \in Files : f \notin InUse => size[f] = 0

LEMMA FreeInit == Init => FreeInv
  BY DEF Init, FreeInv, InUse

LEMMA FreeNext ==
  ASSUME LogAssumption, TypeOK, FreeInv, [Next]_vars
  PROVE  FreeInv'
<1> USE DEF LogAssumption, TypeOK, FreeInv
<1>1. ASSUME NEW p \in Procs, Stat(p) \/ RenameFails(p) \/ Chmod(p) PROVE FreeInv'
  BY <1>1 DEF Stat, RenameFails, Chmod, InUse
<1>2. ASSUME NEW p \in Procs, Rename(p) \/ ChmodFails(p) \/ Close(p) PROVE FreeInv'
  <2>1. size' = Remaining
    BY <1>2 DEF Rename, ChmodFails, Close
  <2> QED
    BY <2>1 DEF Remaining
<1>3. ASSUME NEW p \in Procs, Open(p) PROVE FreeInv'
  <2>1. PICK f \in IF Exists THEN {names["log"]} ELSE Files \ InUse :
          /\ names' = [names EXCEPT !["log"] = f]
          /\ held' = [held EXCEPT ![p] = f]
    BY <1>3 DEF Open
  <2>2. held[p] = NoFile /\ size' = size
    BY <1>3 DEF Open
  <2>3. \A g \in Files : g \in InUse => g \in InUse'
    BY <2>1, <2>2 DEF InUse, Exists
  <2> QED
    BY <2>2, <2>3
<1>4. ASSUME NEW p \in Procs, Append(p) PROVE FreeInv'
  <2>1. held[p] \in Files /\ held[p] \in InUse
    BY <1>4 DEF Append, InUse
  <2>2. InUse' = InUse
    BY <1>4 DEF Append, InUse
  <2> QED
    BY <1>4, <2>1, <2>2 DEF Append
<1>5. CASE UNCHANGED vars
  BY <1>5 DEF vars, InUse
<1> QED
  BY <1>1, <1>2, <1>3, <1>4, <1>5 DEF Next, New

\* p writes to f, or will without another look at its size.
MayAppend(p, f) ==
    \/ logger[p] \in {"chmod", "ready"} /\ held[p] = f
    \/ logger[p] = "open" /\ names["log"] = f

Records == Procs \X (1 .. MaxRecords)

\* The records a file has beyond the threshold are told apart by the process
\* that wrote each and its number, and none of them is still to come.
Accounted(f, T) ==
    /\ size[f] <= maxLogSize - 1 + Cardinality(T)
    /\ \A p \in Procs : MayAppend(p, f) =>
          \A i \in 1 .. MaxRecords : i > written[p] => <<p, i>> \notin T

BoundInv == \A f \in Files : size[f] < maxLogSize \/ \E T \in SUBSET Records : Accounted(f, T)

LEMMA RecordsFinite ==
  ASSUME LogAssumption
  PROVE  /\ IsFiniteSet(Records)
         /\ Cardinality(Records) = Cardinality(Procs) * MaxRecords
         /\ Cardinality(Procs) \in Nat
         /\ \A T \in SUBSET Records : IsFiniteSet(T) /\ Cardinality(T) \in Nat
                                      /\ Cardinality(T) <= Cardinality(Records)
<1>1. IsFiniteSet(1 .. MaxRecords) /\ Cardinality(1 .. MaxRecords) = MaxRecords
  BY FS_Interval DEF LogAssumption
<1>2. /\ IsFiniteSet(Records)
      /\ Cardinality(Records) = Cardinality(Procs) * MaxRecords
  BY <1>1, FS_Product DEF LogAssumption, Records
<1> QED
  BY <1>2, FS_Subset, FS_CardinalityType DEF LogAssumption

LEMMA BoundInit ==
  ASSUME LogAssumption, Init
  PROVE  BoundInv
<1> SUFFICES ASSUME NEW f \in Files, ~(size[f] < maxLogSize)
             PROVE  \E T \in SUBSET Records : Accounted(f, T)
  BY DEF BoundInv
<1>1. PICK p \in Procs : TRUE
  BY DEF LogAssumption
<1>2. {<<p, 1>>} \in SUBSET Records /\ Cardinality({<<p, 1>>}) = 1
  <2>1. 1 \in 1 .. MaxRecords
    BY DEF LogAssumption
  <2>2. <<p, 1>> \in Records
    BY <2>1 DEF Records
  <2>3. Cardinality({<<p, 1>>}) = 1
    BY FS_Singleton
  <2> QED
    BY <2>2, <2>3
<1>3. size[f] <= maxLogSize
  BY DEF Init, LogAssumption
<1>4. \A q \in Procs : ~MayAppend(q, f)
  BY DEF Init, MayAppend
<1>5. size[f] <= maxLogSize - 1 + Cardinality({<<p, 1>>})
  BY <1>2, <1>3 DEF LogAssumption, Init
<1> QED
  BY <1>2, <1>4, <1>5 DEF Accounted

\* The bound is kept by a step that lets no file grow and nobody write more.
LEMMA BoundKept ==
  ASSUME BoundInv, NEW f \in Files, size'[f] < maxLogSize \/ size'[f] = size[f],
         \A p \in Procs : MayAppend(p, f)' /\ ~(size'[f] < maxLogSize) =>
            MayAppend(p, f) /\ written'[p] = written[p]
  PROVE  size'[f] < maxLogSize \/ \E T \in SUBSET Records : Accounted(f, T)'
<1> SUFFICES ASSUME ~(size'[f] < maxLogSize)
             PROVE  \E T \in SUBSET Records : Accounted(f, T)'
  OBVIOUS
<1>1. PICK T \in SUBSET Records : Accounted(f, T)
  BY DEF BoundInv
<1>2. Accounted(f, T)'
  BY <1>1 DEF Accounted
<1> QED
  BY <1>2

\* A record goes to the account of its file.
LEMMA BoundAppend ==
  ASSUME LogAssumption, TypeOK, BoundInv, NEW p \in Procs, Append(p), NEW f \in Files
  PROVE  size'[f] < maxLogSize \/ \E T \in SUBSET Records : Accounted(f, T)'
<1> SUFFICES ASSUME ~(size'[f] < maxLogSize)
             PROVE  \E T \in SUBSET Records : Accounted(f, T)'
  OBVIOUS
<1> DEFINE r == <<p, written[p] + 1>>
<1>1. /\ held[p] \in Files
      /\ written[p] \in Nat /\ written[p] + 1 \in 1 .. MaxRecords
      /\ \A q \in Procs : written'[q] = IF q = p THEN written[p] + 1 ELSE written[q]
      /\ \A q \in Procs : written[q] \in Nat
      /\ size[f] \in Nat /\ maxLogSize \in Nat
  BY DEF Append, TypeOK, LogAssumption
<1>2. \A q \in Procs : MayAppend(q, f)' <=> MayAppend(q, f)
  BY DEF Append, MayAppend
<1>3. CASE held[p] # f
  <2>1. size'[f] = size[f]
    BY <1>1, <1>3 DEF Append, TypeOK
  <2>2. PICK T \in SUBSET Records : Accounted(f, T)
    BY <2>1 DEF BoundInv
  <2>3. \A q \in Procs : MayAppend(q, f)' =>
           \A i \in 1 .. MaxRecords : i > written'[q] => <<q, i>> \notin T
    BY <1>1, <1>2, <2>2 DEF Accounted
  <2>4. Accounted(f, T)'
    BY <2>1, <2>2, <2>3 DEF Accounted
  <2> QED
    BY <2>4
<1>4. CASE held[p] = f
  <2>1. size'[f] = size[f] + 1
    BY <1>4 DEF Append, TypeOK
  <2>2. MayAppend(p, f)
    BY <1>4 DEF Append, MayAppend
  <2>3. PICK T \in SUBSET Records :
          /\ size[f] <= maxLogSize - 1 + Cardinality(T)
          /\ \A q \in Procs : MayAppend(q, f) =>
                \A i \in 1 .. MaxRecords : i > written[q] => <<q, i>> \notin T
    <3>1. CASE size[f] < maxLogSize
      <4>1. size[f] <= maxLogSize - 1 + Cardinality({})
        BY <1>1, <3>1, FS_EmptySet
      <4> QED
        BY <4>1
    <3>2. CASE ~(size[f] < maxLogSize)
      BY <3>2 DEF BoundInv, Accounted
    <3> QED
      BY <3>1, <3>2
  <2>4. r \notin T
    BY <1>1, <2>2, <2>3
  <2>5. T \cup {r} \in SUBSET Records
    BY <1>1 DEF Records
  <2>6. Cardinality(T \cup {r}) = Cardinality(T) + 1 /\ Cardinality(T) \in Nat
    BY <2>4, RecordsFinite, FS_AddElement
  <2>7. size'[f] <= maxLogSize - 1 + Cardinality(T \cup {r})
    BY <1>1, <2>1, <2>3, <2>6
  <2>8. \A q \in Procs : MayAppend(q, f)' =>
           \A i \in 1 .. MaxRecords : i > written'[q] => <<q, i>> \notin T \cup {r}
    BY <1>1, <1>2, <2>3
  <2>9. PICK U \in SUBSET Records : U = T \cup {r}
    BY <2>5
  <2>10. Accounted(f, U)'
    BY <2>7, <2>8, <2>9 DEF Accounted
  <2> QED
    BY <2>10
<1> QED
  BY <1>3, <1>4

LEMMA BoundNext ==
  ASSUME LogAssumption, TypeOK, FreeInv, BoundInv, [Next]_vars
  PROVE  BoundInv'
<1> SUFFICES ASSUME NEW f \in Files
             PROVE  size'[f] < maxLogSize \/ \E T \in SUBSET Records : Accounted(f, T)'
  BY DEF BoundInv
<1> DEFINE Kept == /\ size'[f] < maxLogSize \/ size'[f] = size[f]
                   /\ \A p \in Procs : MayAppend(p, f)' /\ ~(size'[f] < maxLogSize) =>
                         MayAppend(p, f) /\ written'[p] = written[p]
<1> USE DEF LogAssumption, TypeOK
<1>1. ASSUME NEW p \in Procs, Stat(p) PROVE Kept
  BY <1>1 DEF Stat, MayAppend, TooLarge, Exists
<1>2. ASSUME NEW p \in Procs, Rename(p) PROVE Kept
  BY <1>2 DEF Rename, MayAppend, Remaining
<1>3. ASSUME NEW p \in Procs, RenameFails(p) PROVE Kept
  BY <1>3 DEF RenameFails, MayAppend
<1>4. ASSUME NEW p \in Procs, Open(p) PROVE Kept
  <2>1. PICK g \in IF Exists THEN {names["log"]} ELSE Files \ InUse :
          /\ names' = [names EXCEPT !["log"] = g]
          /\ held' = [held EXCEPT ![p] = g]
    BY <1>4 DEF Open
  <2>2. /\ logger[p] = "open"
        /\ logger' = [logger EXCEPT ![p] = "chmod"]
        /\ size' = size
        /\ written' = written
    BY <1>4 DEF Open
  <2>3. CASE Exists
    BY <2>1, <2>2, <2>3 DEF MayAppend
  <2>4. CASE ~Exists
    <3>1. size[g] < maxLogSize
      BY <2>1, <2>4 DEF FreeInv
    <3>2. f # g => \A q \in Procs : MayAppend(q, f)' => MayAppend(q, f)
      BY <2>1, <2>2 DEF MayAppend
    <3> QED
      BY <2>2, <3>1, <3>2
  <2> QED
    BY <2>3, <2>4
<1>5. ASSUME NEW p \in Procs, Chmod(p) PROVE Kept
  BY <1>5 DEF Chmod, MayAppend
<1>6. ASSUME NEW p \in Procs, ChmodFails(p) PROVE Kept
  BY <1>6 DEF ChmodFails, MayAppend, Remaining
<1>7. ASSUME NEW p \in Procs, Close(p) PROVE Kept
  BY <1>7 DEF Close, MayAppend, Remaining
<1>8. ASSUME UNCHANGED vars PROVE Kept
  BY <1>8 DEF vars, MayAppend
<1>9. ASSUME Kept
      PROVE  size'[f] < maxLogSize \/ \E T \in SUBSET Records : Accounted(f, T)'
  BY <1>9, BoundKept
<1> HIDE DEF Kept
<1> QED
  BY <1>1, <1>2, <1>3, <1>4, <1>5, <1>6, <1>7, <1>8, <1>9, BoundAppend DEF Next, New

LEMMA BoundImplies ==
  ASSUME LogAssumption, TypeOK, BoundInv
  PROVE  LogIsBounded
<1> SUFFICES ASSUME NEW f \in Files
             PROVE  size[f] <= maxLogSize - 1 + MaxRecords * Cardinality(Procs)
  BY DEF LogIsBounded
<1> DEFINE N == Cardinality(Procs)
<1>1. N \in Nat /\ MaxRecords \in Nat /\ N * MaxRecords = MaxRecords * N
      /\ MaxRecords * N \in Nat
  BY RecordsFinite DEF LogAssumption
<1>2. size[f] \in Nat /\ maxLogSize \in Nat
  BY DEF TypeOK, LogAssumption
<1>3. CASE size[f] < maxLogSize
  BY <1>1, <1>2, <1>3
<1>4. CASE ~(size[f] < maxLogSize)
  <2>1. PICK T \in SUBSET Records : size[f] <= maxLogSize - 1 + Cardinality(T)
    BY <1>4 DEF BoundInv, Accounted
  <2>2. Cardinality(T) \in Nat /\ Cardinality(T) <= MaxRecords * N
    BY <1>1, RecordsFinite
  <2> QED
    BY <1>1, <1>2, <2>1, <2>2
<1> QED
  BY <1>3, <1>4

\* For any number of processes, any threshold and any number of records: no
\* interleaving of openings, rotations and writes lets a file outgrow the
\* threshold by more than what each process writes once.
THEOREM BoundTheorem ==
  ASSUME LogAssumption PROVE Spec => []LogIsBounded
<1>1. Init => FreeInv /\ BoundInv
  BY FreeInit, BoundInit
<1>2. TypeOK /\ FreeInv /\ BoundInv /\ [Next]_vars => (FreeInv /\ BoundInv)'
  BY FreeNext, BoundNext
<1>3. TypeOK /\ BoundInv => LogIsBounded
  BY BoundImplies
<1> QED
  BY <1>1, <1>2, <1>3, TypeCorrect, PTL DEF Spec
=============================================================================
